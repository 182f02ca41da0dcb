--------------------------- MODULE TpmBytesProofs ---------------------------
(***************************************************************************)
(* Proofs about TpmBytes: numbers and areas are read as they were written, *)
(* with anything behind them, also when there are several of a size known  *)
(* before.  FlattenSeq and Areas choose a recursive function: that one     *)
(* exists, and what it is, is proved by induction on a set of numbers.     *)
(***************************************************************************)
EXTENDS TpmBytes, SequenceTheorems, WellFoundedInduction, NaturalsInduction, TLAPS

\* Induction, on a set of numbers.
LEMMA NumberInduction ==
    ASSUME NEW S, 0 \in S, \A n \in Nat : n \in S => n + 1 \in S
    PROVE  Nat \subseteq S
  <1> DEFINE T == Nat \ S
             R == OpToRel(<, Nat)
  <1> SUFFICES ASSUME T # {} PROVE FALSE
    OBVIOUS
  <1>1. IsWellFoundedOn(R, Nat)
    BY NatLessThanWellFounded, Zenon
  <1>2. PICK x \in T : \A y \in T : ~ (<<y, x>> \in R)
    <2>1. T \subseteq Nat
      OBVIOUS
    <2> HIDE DEF T, R
    <2> QED BY <1>1, <2>1, WFMin
  <1>3. x - 1 \in T
    OBVIOUS
  <1>4. x - 1 < x /\ x - 1 \in Nat /\ x \in Nat
    BY <1>3
  <1>5. <<x - 1, x>> \in R
    BY <1>4, Zenon DEF OpToRel
  <1> HIDE DEF T, R
  <1> QED BY <1>2, <1>3, <1>5

\* The numbers that w bytes show.
Fits(w, n) ==
    \/ w = 1 /\ n \in Nat /\ n < 256
    \/ w = 2 /\ n \in Nat /\ n < 65536
    \/ w = 3 /\ n \in Nat /\ n < 16777216
    \/ w = 4 /\ n \in Word

\* A byte is a number below 256.
LEMMA ByteIs == \A b : b \in Byte <=> b \in Nat /\ b < 256
  BY DEF Byte

\* w bytes are written of a number.
LEMMA BigEndianIsBytes ==
    ASSUME NEW w, w \in 1..4, NEW n \in Int
    PROVE  BigEndian(w, n) \in Seq(Byte) /\ Len(BigEndian(w, n)) = w
  <1>1. \A i \in 1..w : (n \div Weight[w + 1 - i]) % 256 \in Byte
    <2> SUFFICES ASSUME NEW i \in 1..w
                 PROVE  (n \div Weight[w + 1 - i]) % 256 \in Byte
      OBVIOUS
    <2>1. Weight[w + 1 - i] \in Nat \ {0}
      BY DEF Weight
    <2> QED BY <2>1, ByteIs
  <1> QED BY <1>1 DEF BigEndian

\* A byte of a number, by the place from its end.
LEMMA DigitOfBigEndian ==
    ASSUME NEW w, w \in 1..4, NEW n \in Int, NEW i, i \in 1..4
    PROVE  Digit(BigEndian(w, n), i) = IF i <= w THEN (n \div Weight[i]) % 256 ELSE 0
  <1>1. Len(BigEndian(w, n)) = w
    BY SMT, BigEndianIsBytes
  <1>2. ASSUME i <= w
        PROVE  BigEndian(w, n)[w + 1 - i] = (n \div Weight[i]) % 256
    <2>1. w + 1 - i \in 1..w /\ w + 1 - (w + 1 - i) = i
      BY SMT, <1>2
    <2> QED BY <2>1 DEF BigEndian
  <1> QED BY SMT, <1>1, <1>2 DEF Digit

\* Numbers of one to four bytes are meant.
LEMMA FitsIs ==
    ASSUME NEW w, NEW n, Fits(w, n)
    PROVE  w \in 1..4 /\ w \in Nat /\ n \in Int
  BY SMT DEF Fits, Word

\* A number is written as these bytes if each of them is.
LEMMA BytesAreEqual ==
    ASSUME NEW w, NEW n, Fits(w, n), NEW bytes \in Seq(Byte), Len(bytes) = w,
           \A i \in 1..Len(bytes) : BigEndian(w, n)[i] = bytes[i]
    PROVE  BigEndian(w, n) = bytes
  <1>1. BigEndian(w, n) \in Seq(Byte) /\ Len(BigEndian(w, n)) = w
    BY SMT, FitsIs, BigEndianIsBytes
  <1> QED BY SMT, <1>1, SeqEqual

\* A number that w bytes show is read as it was written.
LEMMA ValueOfBigEndian ==
    ASSUME NEW w, NEW n, Fits(w, n)
    PROVE  Value(BigEndian(w, n)) = n
  <1> DEFINE d(i) == Digit(BigEndian(w, n), i)
  <1>1. w \in 1..4 /\ n \in Int
    BY SMT DEF Fits, Word, MaxNumber
  <1>2. /\ Weight[1] = 1 /\ Weight[2] = 256 /\ Weight[3] = 65536
        /\ Weight[4] = 16777216
    BY SMT DEF Weight
  <1>3. /\ d(1) = IF 1 <= w THEN (n \div 1) % 256 ELSE 0
        /\ d(2) = IF 2 <= w THEN (n \div 256) % 256 ELSE 0
        /\ d(3) = IF 3 <= w THEN (n \div 65536) % 256 ELSE 0
        /\ d(4) = IF 4 <= w THEN (n \div 16777216) % 256 ELSE 0
    BY SMT, <1>1, <1>2, DigitOfBigEndian
  <1>4. Value(BigEndian(w, n)) =
            d(1) + 256 * d(2) + 65536 * d(3)
                + 16777216 * (IF d(4) > 127 THEN d(4) - 256 ELSE d(4))
    BY SMT, <1>1, BigEndianIsBytes DEF Value
  <1> HIDE DEF d
  <1>6. CASE w = 1 /\ n \in Nat /\ n < 256
    <2>1. d(1) = n % 256 /\ d(2) = 0 /\ d(3) = 0 /\ d(4) = 0
      BY SMT, <1>3, <1>6
    <2> QED BY SMT, <1>4, <1>6, <2>1
  <1>7. CASE w = 2 /\ n \in Nat /\ n < 65536
    <2>1. d(1) = n % 256 /\ d(2) = (n \div 256) % 256 /\ d(3) = 0 /\ d(4) = 0
      BY SMT, <1>3, <1>7
    <2>2. Value(BigEndian(w, n)) = (n % 256) + 256 * ((n \div 256) % 256)
      BY SMT, <1>1, <1>4, <2>1
    <2>3. (n \div 256) % 256 = n \div 256 /\ (n % 256) + 256 * (n \div 256) = n
      BY SMT, <1>7
    <2> QED BY <2>2, <2>3
  <1>8. CASE w = 3 /\ n \in Nat /\ n < 16777216
    <2>1. /\ d(1) = n % 256 /\ d(2) = (n \div 256) % 256
          /\ d(3) = (n \div 65536) % 256 /\ d(4) = 0
      BY SMT, <1>3, <1>8
    <2>2. Value(BigEndian(w, n)) =
              (n % 256) + 256 * ((n \div 256) % 256) + 65536 * ((n \div 65536) % 256)
      BY SMT, <1>1, <1>4, <2>1
    <2>3. (n \div 65536) % 256 = n \div 65536
      BY SMT, <1>8
    <2>4. (n % 256) + 256 * ((n \div 256) % 256) + 65536 * (n \div 65536) = n
      BY SMT, <1>1
    <2> QED BY SMT, <2>2, <2>3, <2>4
  <1>9. CASE w = 4 /\ n \in Word
    <2>1. /\ d(1) = n % 256 /\ d(2) = (n \div 256) % 256
          /\ d(3) = (n \div 65536) % 256 /\ d(4) = (n \div 16777216) % 256
      BY SMT, <1>1, <1>3, <1>9
    <2>2. n >= 0 - 2147483648 /\ n <= 2147483647 /\ n \in Int
      BY SMT, <1>9 DEF Word, MaxNumber
    <2> QED BY SMT, <1>4, <2>1, <2>2
  <1> QED BY <1>6, <1>7, <1>8, <1>9 DEF Fits

\* The numbers of two and of four bytes, the last byte first.
Two(x, y) == x + 256 * y

\* And of four.
Four(x, y, z, t) ==
    x + 256 * y + 65536 * z + 16777216 * (IF t > 127 THEN t - 256 ELSE t)

\* The weights of the four places.
LEMMA WeightIs ==
    /\ Weight[1] = 1 /\ Weight[2] = 256 /\ Weight[3] = 65536 /\ Weight[4] = 16777216
  BY SMT DEF Weight

\* Any two bytes are the bytes of a number.
LEMMA TwoBytes ==
    ASSUME NEW x \in Byte, NEW y \in Byte
    PROVE  /\ Fits(2, Two(x, y))
           /\ BigEndian(2, Two(x, y))[1] = y
           /\ BigEndian(2, Two(x, y))[2] = x
  <1>1. x \in Nat /\ x < 256 /\ y \in Nat /\ y < 256
    BY ByteIs
  <1>2. PICK n \in Nat : n = x + 256 * y
    BY SMT, <1>1
  <1>3. n < 65536 /\ (n \div 256) % 256 = y /\ (n \div 1) % 256 = x
    BY SMT, <1>1, <1>2
  <1>4. Fits(2, n)
    BY SMT, <1>3 DEF Fits
  <1>5. BigEndian(2, n)[1] = y /\ BigEndian(2, n)[2] = x
    BY SMT, <1>3, WeightIs DEF BigEndian
  <1> QED BY <1>2, <1>4, <1>5, SMT DEF Two

\* So are any four bytes, of a negative number if the first is above 127.
LEMMA FourBytes ==
    ASSUME NEW b, b[1] \in Byte, b[2] \in Byte, b[3] \in Byte, b[4] \in Byte
    PROVE  LET four == Four(b[4], b[3], b[2], b[1])
           IN /\ Fits(4, four)
              /\ \A i \in {1, 2, 3, 4} : BigEndian(4, four)[i] = b[i]
  <1> DEFINE x == b[4]
             y == b[3]
             z == b[2]
             t == b[1]
  <1> HIDE DEF x, y, z, t
  <1>1. /\ x \in Nat /\ x < 256 /\ y \in Nat /\ y < 256
        /\ z \in Nat /\ z < 256 /\ t \in Nat /\ t < 256
    BY ByteIs DEF x, y, z, t
  <1>2. PICK a \in Int : /\ a = IF t > 127 THEN t - 256 ELSE t
                         /\ 0 - 128 <= a /\ a <= 127 /\ a % 256 = t
    BY SMT, <1>1
  <1>3. PICK n \in Int : n = x + 256 * y + 65536 * z + 16777216 * a
    BY SMT, <1>1, <1>2
  <1>4. Fits(4, n)
    BY SMT, <1>1, <1>2, <1>3 DEF Word, MaxNumber, Fits
  <1>5. n \div 16777216 = a /\ (n \div 1) % 256 = x
    BY SMT, <1>1, <1>2, <1>3
  <1>6. n \div 65536 = z + 256 * a /\ n \div 256 = y + 256 * z + 65536 * a
    BY SMT, <1>1, <1>2, <1>3
  <1>7. /\ (n \div 16777216) % 256 = t /\ (n \div 65536) % 256 = z
        /\ (n \div 256) % 256 = y
    BY SMT, <1>1, <1>2, <1>5, <1>6
  <1>8. /\ BigEndian(4, n)[1] = t /\ BigEndian(4, n)[2] = z
        /\ BigEndian(4, n)[3] = y /\ BigEndian(4, n)[4] = x
    BY SMT, <1>5, <1>7, WeightIs DEF BigEndian
  <1>9. n = Four(x, y, z, t)
    BY SMT, <1>1, <1>2, <1>3 DEF Four
  <1> QED BY <1>4, <1>8, <1>9 DEF x, y, z, t

\* A number is read back from the bytes that show it.
LEMMA ValueIsBytes ==
    ASSUME NEW w, w = 2 \/ w = 4, NEW bytes \in Seq(Byte), Len(bytes) = w
    PROVE  Fits(w, Value(bytes)) /\ BigEndian(w, Value(bytes)) = bytes
  <1> DEFINE n == Value(bytes)
  <1>1. \A i \in 1..w : bytes[i] \in Byte
    OBVIOUS
  <1>2. \A i \in 1..w : bytes[i] \in Nat
    BY <1>1, ByteIs
  <1>3. CASE w = 2
    <2>1. bytes[1] \in Byte /\ bytes[2] \in Byte /\ bytes[1] \in Nat /\ bytes[2] \in Nat
      BY SMT, <1>1, <1>2, <1>3
    <2>2. n = Two(bytes[2], bytes[1])
      BY SMT, <1>3, <2>1 DEF Value, Digit, Two
    <2> DEFINE two == Two(bytes[2], bytes[1])
    <2>3. /\ Fits(2, two) /\ BigEndian(2, two)[1] = bytes[1]
          /\ BigEndian(2, two)[2] = bytes[2]
      BY <2>1, TwoBytes, Zenon
    <2> HIDE DEF n, two
    <2>4. Fits(w, n) /\ \A i \in 1..Len(bytes) : BigEndian(w, n)[i] = bytes[i]
      BY SMT, <1>3, <2>2, <2>3 DEF two
    <2> QED BY <2>4, BytesAreEqual DEF n
  <1>4. CASE w = 4
    <2>1. /\ bytes[1] \in Byte /\ bytes[2] \in Byte /\ bytes[3] \in Byte
          /\ bytes[4] \in Byte
          /\ bytes[1] \in Nat /\ bytes[2] \in Nat /\ bytes[3] \in Nat /\ bytes[4] \in Nat
      BY SMT, <1>1, <1>2, <1>4
    <2>2. n = Four(bytes[4], bytes[3], bytes[2], bytes[1])
      BY SMT, <1>4, <2>1 DEF Value, Digit, Four
    <2> DEFINE four == Four(bytes[4], bytes[3], bytes[2], bytes[1])
    <2>3. Fits(4, four) /\ \A i \in {1, 2, 3, 4} : BigEndian(4, four)[i] = bytes[i]
      BY <2>1, FourBytes, Zenon
    <2> HIDE DEF n, four
    <2>4. Fits(w, n) /\ \A i \in 1..Len(bytes) : BigEndian(w, n)[i] = bytes[i]
      BY SMT, <1>4, <2>2, <2>3 DEF four
    <2> QED BY <2>4, BytesAreEqual DEF n
  <1> QED BY <1>3, <1>4

-----------------------------------------------------------------------------
(* What a reader does to bytes that something is in front of.              *)

\* What is in front, and what is behind it.
LEMMA FrontOfConcat ==
    ASSUME NEW front \in Seq(Byte), NEW more \in Seq(Byte)
    PROVE  /\ front \o more \in Seq(Byte)
           /\ Len(front \o more) = Len(front) + Len(more)
           /\ SubSeq(front \o more, 1, Len(front)) = front
           /\ Behind(front \o more, Len(front)) = more
  BY SMT DEF Behind

\* Bytes are split at any place.
LEMMA FrontOfBytes ==
    ASSUME NEW bytes \in Seq(Byte), NEW n \in Nat, n <= Len(bytes)
    PROVE  /\ SubSeq(bytes, 1, n) \in Seq(Byte)
           /\ Len(SubSeq(bytes, 1, n)) = n
           /\ Behind(bytes, n) \in Seq(Byte)
           /\ Len(Behind(bytes, n)) = Len(bytes) - n
           /\ bytes = SubSeq(bytes, 1, n) \o Behind(bytes, n)
  <1>1. SubSeq(bytes, 1, n) \in Seq(Byte) /\ Len(SubSeq(bytes, 1, n)) = n
    BY SMT
  <1>2. Behind(bytes, n) \in Seq(Byte) /\ Len(Behind(bytes, n)) = Len(bytes) - n
    BY SMT DEF Behind
  <1>3. bytes = SubSeq(bytes, 1, Len(bytes))
    BY SMT
  <1>4. SubSeq(bytes, 1, n) \o SubSeq(bytes, n + 1, Len(bytes))
            = SubSeq(bytes, 1, Len(bytes))
    <2>1. 1 \in 1..Len(bytes) + 1 /\ n \in (1 - 1)..Len(bytes) /\ Len(bytes) \in n..Len(bytes)
      BY SMT
    <2> QED BY <2>1, ConcatAdjacentSubSeq, Zenon
  <1> QED BY <1>1, <1>2, <1>3, <1>4 DEF Behind

\* Number gets the number that was written.
LEMMA ReadNumber ==
    ASSUME NEW w, NEW n, Fits(w, n), NEW more \in Seq(Byte), NEW v
    PROVE  Number(Got(v, BigEndian(w, n) \o more), w) = Got(n, more)
  <1>1. w \in Nat /\ w \in 1..4 /\ n \in Int
    BY SMT DEF Fits, Word
  <1>2. BigEndian(w, n) \in Seq(Byte) /\ Len(BigEndian(w, n)) = w
    BY SMT, <1>1, BigEndianIsBytes
  <1>3. Len(more) \in Nat
    OBVIOUS
  <1>4. Value(BigEndian(w, n)) = n
    BY ValueOfBigEndian
  <1>5. w <= Len(BigEndian(w, n) \o more)
    BY SMT, <1>1, <1>2, <1>3, FrontOfConcat
  <1>6. /\ SubSeq(BigEndian(w, n) \o more, 1, w) = BigEndian(w, n)
        /\ Behind(BigEndian(w, n) \o more, w) = more
    BY <1>2, FrontOfConcat
  <1> QED BY <1>4, <1>5, <1>6 DEF Number, Got

\* Area gets the area that was written.
LEMMA ReadArea ==
    ASSUME NEW area \in Seq(Byte), NEW more \in Seq(Byte), NEW v
    PROVE  Area(Got(v, area \o more), Len(area)) = Got(area, more)
  <1>1. Len(area) \in Nat /\ Len(more) \in Nat
    OBVIOUS
  <1>2. Len(area) \in 0..Len(area \o more)
    BY SMT, <1>1, FrontOfConcat
  <1> QED BY <1>2, FrontOfConcat DEF Area, Got

-----------------------------------------------------------------------------
(* Parts put together, and read one by one.                                *)

\* Induction, up to a number.
LEMMA InductionUpTo ==
    ASSUME NEW n \in Nat, NEW S, 0 \in S, \A i \in 1..n : i - 1 \in S => i \in S
    PROVE  \A i \in 0..n : i \in S
  <1> DEFINE R == {i \in Nat : i \in 0..n => i \in S}
  <1>1. 0 \in R
    OBVIOUS
  <1>2. ASSUME NEW i \in Nat, i \in R
        PROVE  i + 1 \in R
    <2> SUFFICES ASSUME i + 1 \in 0..n PROVE i + 1 \in S
      OBVIOUS
    <2>1. PICK j \in 1..n : j = i + 1
      OBVIOUS
    <2>2. j - 1 = i /\ i \in 0..n
      BY <2>1
    <2> QED BY <1>2, <2>1, <2>2
  <1>3. Nat \subseteq R
    <2> HIDE DEF R
    <2> QED BY <1>1, <1>2, NumberInduction
  <1> QED BY <1>3

\* f is defined up to n by where it starts and by a step.
Recursion(T, start, step, n, f) ==
    /\ f \in [0..n -> T]
    /\ f[0] = start
    /\ \A i \in 1..n : f[i] = step[<<i, f[i - 1]>>]

\* What is defined by a start and a step exists.
LEMMA RecursionExists ==
    ASSUME NEW T, NEW start \in T, NEW step \in [Nat \X T -> T], NEW n \in Nat
    PROVE  \E f : Recursion(T, start, step, n, f)
  <1> DEFINE S == {k \in Nat : \E f : Recursion(T, start, step, k, f)}
  <1>1. 0 \in S
    <2>1. Recursion(T, start, step, 0, [i \in 0..0 |-> start])
      BY DEF Recursion
    <2> QED BY <2>1
  <1>2. ASSUME NEW k \in Nat, k \in S
        PROVE  k + 1 \in S
    <2>1. PICK f : Recursion(T, start, step, k, f)
      BY <1>2
    <2> DEFINE next == step[<<k + 1, f[k]>>]
               g == [i \in 0..(k + 1) |-> IF i = k + 1 THEN next ELSE f[i]]
    <2>2. f[k] \in T /\ k + 1 \in Nat /\ \A i \in 0..k : f[i] \in T
      BY <2>1 DEF Recursion
    <2>3. next \in T
      BY <2>2
    <2> HIDE DEF next
    <2>4. g \in [0..(k + 1) -> T]
      BY <2>2, <2>3
    <2>5. /\ g[k + 1] = next
          /\ \A i \in 0..k : g[i] = f[i]
      OBVIOUS
    <2> HIDE DEF g
    <2>6. ASSUME NEW i \in 1..(k + 1)
          PROVE  g[i] = step[<<i, g[i - 1]>>]
      <3>1. CASE i = k + 1
        <4>1. i - 1 = k /\ g[k] = f[k]
          BY <2>5, <3>1
        <4> QED BY <2>5, <3>1, <4>1 DEF next
      <3>2. CASE i # k + 1
        <4>1. i \in 1..k /\ i - 1 \in 0..k /\ i \in 0..k
          BY <3>2
        <4>2. g[i] = f[i] /\ g[i - 1] = f[i - 1]
          BY <2>5, <4>1
        <4>3. f[i] = step[<<i, f[i - 1]>>]
          BY <2>1, <4>1 DEF Recursion
        <4> QED BY <4>2, <4>3
      <3> QED BY <3>1, <3>2
    <2>7. g[0] = start
      BY <2>1, <2>5 DEF Recursion
    <2>8. Recursion(T, start, step, k + 1, g)
      BY <2>4, <2>6, <2>7 DEF Recursion
    <2> QED BY <2>2, <2>8
  <1>3. n \in S
    <2> HIDE DEF S
    <2> QED BY <1>1, <1>2, NumberInduction
  <1> QED BY <1>3

\* The parts of a flattened sequence, from the front.
FlatUpTo(n, parts, flat) ==
    /\ flat \in [0..n -> Seq(Byte)]
    /\ flat[0] = <<>>
    /\ \A i \in 1..n : flat[i] = flat[i - 1] \o parts[i]

\* Parts can be put together one by one.
LEMMA FlatExists ==
    ASSUME NEW n \in Nat, NEW parts \in [1..n -> Seq(Byte)]
    PROVE  \E flat : FlatUpTo(n, parts, flat)
  <1> DEFINE part(i) == IF i \in 1..n THEN parts[i] ELSE <<>>
             step == [p \in Nat \X Seq(Byte) |-> p[2] \o part(p[1])]
  <1>1. \A i \in Nat : part(i) \in Seq(Byte)
    OBVIOUS
  <1>2. step \in [Nat \X Seq(Byte) -> Seq(Byte)]
    <2> SUFFICES ASSUME NEW p \in Nat \X Seq(Byte)
                 PROVE  p[2] \o part(p[1]) \in Seq(Byte)
      OBVIOUS
    <2>1. p[2] \in Seq(Byte) /\ part(p[1]) \in Seq(Byte)
      BY <1>1
    <2> HIDE DEF part
    <2> QED BY <2>1
  <1>3. \A i \in 1..n, s \in Seq(Byte) : step[<<i, s>>] = s \o parts[i]
    <2> SUFFICES ASSUME NEW i \in 1..n, NEW s \in Seq(Byte)
                 PROVE  step[<<i, s>>] = s \o parts[i]
      OBVIOUS
    <2>1. i \in Nat /\ part(i) = parts[i]
      OBVIOUS
    <2> HIDE DEF part
    <2>2. step[<<i, s>>] = s \o part(i)
      BY <2>1
    <2> QED BY <2>1, <2>2
  <1>4. <<>> \in Seq(Byte)
    OBVIOUS
  <1> HIDE DEF step
  <1>5. PICK f : Recursion(Seq(Byte), <<>>, step, n, f)
    BY <1>2, <1>4, RecursionExists, Zenon
  <1>7. \A i \in 1..n : f[i] = f[i - 1] \o parts[i]
    <2> SUFFICES ASSUME NEW i \in 1..n
                 PROVE  f[i] = f[i - 1] \o parts[i]
      OBVIOUS
    <2>1. f[i - 1] \in Seq(Byte) /\ f[i] = step[<<i, f[i - 1]>>]
      BY <1>5 DEF Recursion
    <2> QED BY <1>3, <2>1
  <1> QED BY <1>5, <1>7 DEF FlatUpTo, Recursion

\* What FlattenSeq computes.
Flattens(n, parts, g) ==
    g = [i \in 1..n |-> IF i = 1 THEN parts[i] ELSE g[i - 1] \o parts[i]]

\* One part more, in the words of FlattenSeq.
LEMMA FlatStep ==
    ASSUME NEW n \in Nat, NEW parts \in [1..n -> Seq(Byte)], NEW flat,
           FlatUpTo(n, parts, flat), NEW i \in 1..n
    PROVE  /\ flat[i] = IF i = 1 THEN parts[i] ELSE flat[i - 1] \o parts[i]
           /\ i # 1 => i - 1 \in 1..n
  <1>1. flat[i] = flat[i - 1] \o parts[i] /\ parts[i] \in Seq(Byte) /\ flat[0] = <<>>
    BY DEF FlatUpTo
  <1>2. CASE i = 1
    <2>1. i - 1 = 0
      BY <1>2
    <2>2. <<>> \o parts[i] = parts[i]
      BY <1>1, ConcatEmptySeq
    <2> QED BY <1>1, <1>2, <2>1, <2>2
  <1>3. CASE i # 1
    BY <1>1, <1>3
  <1> QED BY <1>2, <1>3

\* Parts put together one by one are what FlattenSeq chooses from.
LEMMA FlatFlattens ==
    ASSUME NEW n \in Nat, NEW parts \in [1..n -> Seq(Byte)], NEW flat,
           FlatUpTo(n, parts, flat)
    PROVE  Flattens(n, parts, [i \in 1..n |-> flat[i]])
  <1> DEFINE h == [i \in 1..n |-> flat[i]]
  <1>1. ASSUME NEW i \in 1..n
        PROVE  h[i] = IF i = 1 THEN parts[i] ELSE h[i - 1] \o parts[i]
    <2>1. flat[i] = IF i = 1 THEN parts[i] ELSE flat[i - 1] \o parts[i]
      BY FlatStep
    <2>2. i # 1 => i - 1 \in 1..n
      BY FlatStep
    <2>3. h[i] = flat[i] /\ (i # 1 => h[i - 1] = flat[i - 1])
      BY <2>2
    <2> HIDE DEF h
    <2> QED BY <2>1, <2>3
  <1>2. h = [i \in 1..n |-> h[i]]
    OBVIOUS
  <1> HIDE DEF h
  <1>3. h = [i \in 1..n |-> IF i = 1 THEN parts[i] ELSE h[i - 1] \o parts[i]]
    BY <1>1, <1>2, Zenon
  <1> QED BY <1>3, Zenon DEF Flattens, h

\* FlattenSeq has nothing else to choose.
LEMMA FlattensIsFlat ==
    ASSUME NEW n \in Nat, NEW parts \in [1..n -> Seq(Byte)], NEW flat,
           FlatUpTo(n, parts, flat), NEW g, Flattens(n, parts, g)
    PROVE  \A i \in 1..n : g[i] = flat[i]
  <1> DEFINE S == {i \in Nat : i \in 1..n => g[i] = flat[i]}
  <1>1. 0 \in S
    OBVIOUS
  <1>2. \A i \in 1..n : g[i] = IF i = 1 THEN parts[i] ELSE g[i - 1] \o parts[i]
    BY Zenon DEF Flattens
  <1>3. ASSUME NEW i \in Nat, i \in S
        PROVE  i + 1 \in S
    <2> SUFFICES ASSUME i + 1 \in 1..n PROVE g[i + 1] = flat[i + 1]
      OBVIOUS
    <2>1. PICK j \in 1..n : j = i + 1
      OBVIOUS
    <2>2. j - 1 = i
      BY <2>1
    <2>3. flat[j] = IF j = 1 THEN parts[j] ELSE flat[j - 1] \o parts[j]
      BY FlatStep
    <2>4. j # 1 => i \in 1..n
      BY <2>1
    <2>5. j # 1 => g[i] = flat[i]
      BY <1>3, <2>4
    <2>6. g[j] = flat[j]
      BY <1>2, <2>2, <2>3, <2>5
    <2> QED BY <2>1, <2>6
  <1>4. Nat \subseteq S
    <2> HIDE DEF S
    <2> QED BY <1>1, <1>3, NumberInduction
  <1> QED BY <1>4

\* FlattenSeq is all the parts put together.
LEMMA FlattenIsFlat ==
    ASSUME NEW seqs \in Seq(Seq(Byte)), NEW flat, FlatUpTo(Len(seqs), seqs, flat)
    PROVE  FlattenSeq(seqs) = flat[Len(seqs)]
  <1> DEFINE n == Len(seqs)
  <1>1. n \in Nat /\ seqs \in [1..n -> Seq(Byte)]
    BY LenProperties
  <1>2. CASE n = 0
    <2>1. seqs = <<>>
      BY <1>2
    <2> QED BY <1>2, <2>1 DEF FlattenSeq, FlatUpTo
  <1>3. CASE n # 0
    <2>1. n \in 1..n
      BY <1>1, <1>3
    <2>2. PICK k : k = CHOOSE g : Flattens(n, seqs, g)
      OBVIOUS
    <2>3. \E g : Flattens(n, seqs, g)
      BY <1>1, FlatFlattens
    <2>4. Flattens(n, seqs, k)
      BY <2>2, <2>3, Zenon
    <2>5. FlattenSeq(seqs) = k[n]
      BY <1>3, <2>2 DEF FlattenSeq, Flattens
    <2>6. k[n] = flat[n]
      <3>1. FlatUpTo(n, seqs, flat)
        OBVIOUS
      <3> HIDE DEF n
      <3>2. \A i \in 1..n : k[i] = flat[i]
        BY <1>1, <2>4, <3>1, FlattensIsFlat
      <3> QED BY <2>1, <3>2
    <2> QED BY <2>5, <2>6
  <1> QED BY <1>2, <1>3

\* What remains of parts that are read one by one, with more behind them.
Peels(n, parts, more, tail) ==
    /\ tail \in [0..n -> Seq(Byte)]
    /\ tail[n] = more
    /\ \A i \in 1..n : tail[i - 1] = parts[i] \o tail[i]

\* Reading k parts one by one leads from all to more.
Peel(k, parts, all, more) ==
    \E tail : Peels(k, parts, more, tail) /\ tail[0] = all

\* One part more can be read.
LEMMA PeelOneMore ==
    ASSUME NEW k \in Nat, NEW parts, NEW more \in Seq(Byte), NEW front, NEW all,
           front = parts[k + 1] \o more, Peel(k, parts, all, front)
    PROVE  Peel(k + 1, parts, all, more)
  <1>0. PICK short : Peels(k, parts, front, short) /\ short[0] = all
    BY Zenon DEF Peel
  <1> DEFINE tail == [i \in 0..(k + 1) |-> IF i = k + 1 THEN more ELSE short[i]]
  <1>1. \A i \in 0..k : short[i] \in Seq(Byte)
    BY <1>0 DEF Peels
  <1>2. tail \in [0..(k + 1) -> Seq(Byte)]
    BY <1>1
  <1>3. tail[k + 1] = more /\ \A i \in 0..k : tail[i] = short[i]
    OBVIOUS
  <1> HIDE DEF tail
  <1>4. ASSUME NEW i \in 1..(k + 1)
        PROVE  tail[i - 1] = parts[i] \o tail[i]
    <2>1. i - 1 \in 0..k
      OBVIOUS
    <2>2. CASE i = k + 1
      <3>1. i - 1 = k
        BY <2>2
      <3>2. short[k] = parts[k + 1] \o more
        BY <1>0 DEF Peels
      <3> QED BY <1>3, <2>1, <2>2, <3>1, <3>2
    <2>3. CASE i # k + 1
      <3>1. i \in 1..k /\ i \in 0..k
        BY <2>3
      <3>2. short[i - 1] = parts[i] \o short[i]
        BY <1>0, <3>1 DEF Peels
      <3> QED BY <1>3, <2>1, <3>1, <3>2
    <2> QED BY <2>2, <2>3
  <1>5. Peels(k + 1, parts, more, tail)
    BY <1>2, <1>3, <1>4 DEF Peels
  <1>6. tail[0] = short[0]
    BY <1>3
  <1> QED BY <1>0, <1>5, <1>6 DEF Peel

\* Whatever is behind them, the first k parts can be read one by one.
Peelable(k, parts, flat) ==
    \A m \in Seq(Byte) : Peel(k, parts, flat[k] \o m, m)

\* Bytes are put together in any order of steps.
LEMMA ConcatBytes ==
    \A a, b, c \in Seq(Byte) : (a \o b) \o c = a \o (b \o c)
  BY ConcatAssociative

\* Parts can be read one by one if those before the last can.
LEMMA PeelableStep ==
    ASSUME NEW i, NEW k \in Nat, i = k + 1, NEW parts, NEW flat,
           parts[i] \in Seq(Byte), flat[k] \in Seq(Byte),
           flat[i] = flat[k] \o parts[i], Peelable(k, parts, flat)
    PROVE  Peelable(i, parts, flat)
  <1> SUFFICES ASSUME NEW m \in Seq(Byte)
               PROVE  Peel(i, parts, flat[i] \o m, m)
    BY Zenon DEF Peelable
  <1>1. parts[i] \o m \in Seq(Byte)
    OBVIOUS
  <1>2. PICK front, all : front = parts[i] \o m /\ all = flat[k] \o front
    OBVIOUS
  <1>3. Peel(k, parts, all, front)
    BY <1>1, <1>2, Zenon DEF Peelable
  <1>4. front = parts[k + 1] \o m
    BY <1>2
  <1>5. Peel(k + 1, parts, all, m)
    BY <1>3, <1>4, PeelOneMore
  <1>6. flat[i] \o m = all
    <2>1. (flat[k] \o parts[i]) \o m = flat[k] \o (parts[i] \o m)
      BY ConcatBytes
    <2> QED BY <1>2, <2>1, Zenon
  <1> QED BY <1>5, <1>6

\* What was put together one by one is read one by one.
LEMMA FlatPeels ==
    ASSUME NEW n \in Nat, NEW parts \in [1..n -> Seq(Byte)], NEW flat,
           FlatUpTo(n, parts, flat)
    PROVE  Peelable(n, parts, flat)
  <1> DEFINE S == {k \in Nat : Peelable(k, parts, flat)}
  <1>1. Peelable(0, parts, flat)
    <2> SUFFICES ASSUME NEW m \in Seq(Byte)
                 PROVE  Peel(0, parts, flat[0] \o m, m)
      BY Zenon DEF Peelable
    <2> DEFINE tail == [i \in 0..0 |-> m]
    <2>1. Peels(0, parts, m, tail)
      BY DEF Peels
    <2>2. flat[0] \o m = m
      BY ConcatEmptySeq DEF FlatUpTo
    <2>3. tail[0] = m
      OBVIOUS
    <2> HIDE DEF tail
    <2> QED BY <2>1, <2>2, <2>3 DEF Peel
  <1>2. ASSUME NEW i \in 1..n, i - 1 \in S
        PROVE  i \in S
    <2>1. PICK k \in Nat : k = i - 1
      OBVIOUS
    <2>2. i = k + 1 /\ k \in 0..n /\ i \in Nat
      BY <2>1
    <2>3. flat[k] \in Seq(Byte)
      BY <2>2 DEF FlatUpTo
    <2>4. flat[i] = flat[k] \o parts[i]
      BY <2>1 DEF FlatUpTo
    <2>5. parts[i] \in Seq(Byte)
      OBVIOUS
    <2>6. Peelable(k, parts, flat)
      BY <1>2, <2>1
    <2>7. Peelable(i, parts, flat)
      BY <2>2, <2>3, <2>4, <2>5, <2>6, PeelableStep, Zenon
    <2> QED BY <2>2, <2>7
  <1>3. 0 \in S
    BY <1>1
  <1>4. n \in 0..n
    OBVIOUS
  <1>5. n \in S
    <2> HIDE DEF S
    <2>1. \A i \in 1..n : i - 1 \in S => i \in S
      BY <1>2
    <2>2. \A i \in 0..n : i \in S
      BY <1>3, <2>1, InductionUpTo, Zenon
    <2> QED BY <1>4, <2>2
  <1> QED BY <1>5

\* What FlattenSeq puts together is read one by one.
LEMMA FlattenPeels ==
    ASSUME NEW seqs \in Seq(Seq(Byte)), NEW more \in Seq(Byte)
    PROVE  /\ FlattenSeq(seqs) \in Seq(Byte)
           /\ \E tail : /\ Peels(Len(seqs), seqs, more, tail)
                        /\ tail[0] = FlattenSeq(seqs) \o more
  <1>1. PICK n : n = Len(seqs)
    OBVIOUS
  <1>2. n \in Nat /\ seqs \in [1..n -> Seq(Byte)]
    BY <1>1, LenProperties
  <1>3. PICK flat : FlatUpTo(n, seqs, flat)
    BY <1>2, FlatExists
  <1>4. FlattenSeq(seqs) = flat[n]
    BY <1>1, <1>3, FlattenIsFlat
  <1>5. flat[n] \in Seq(Byte)
    BY <1>2, <1>3 DEF FlatUpTo
  <1>6. \E tail : Peels(n, seqs, more, tail) /\ tail[0] = flat[n] \o more
    <2>1. Peel(n, seqs, flat[n] \o more, more)
      BY <1>2, <1>3, FlatPeels DEF Peelable
    <2> QED BY <2>1, Zenon DEF Peel
  <1> QED BY <1>1, <1>4, <1>5, <1>6

-----------------------------------------------------------------------------
(* Numbers of areas.                                                       *)

\* Two parts are skipped as one.
LEMMA BehindTwice ==
    ASSUME NEW bytes \in Seq(Byte), NEW m \in Nat, NEW n \in Nat, m + n <= Len(bytes)
    PROVE  /\ Behind(Behind(bytes, m), n) = Behind(bytes, m + n)
           /\ SubSeq(bytes, m + 1, m + n) = SubSeq(Behind(bytes, m), 1, n)
  BY SMT DEF Behind

\* The bytes from a place are these.
At(all, place, tail) ==
    all \in Seq(Byte) /\ tail \in Seq(Byte)
        /\ Len(all) = place + Len(tail) /\ Behind(all, place) = tail

\* A part is at a place, and what is behind it.
Follows(all, place, part, tail, rest) ==
    /\ At(all, place, tail)
    /\ place \in Nat
    /\ part \in Seq(Byte) /\ rest \in Seq(Byte) /\ tail = part \o rest

\* A part that is read, and what the place behind it shows.
LEMMA AtNext ==
    ASSUME NEW all, NEW place \in Nat, NEW part, NEW tail, NEW rest,
           Follows(all, place, part, tail, rest)
    PROVE  /\ At(all, place + Len(part), rest)
           /\ SubSeq(all, place + 1, place + Len(part)) = part
  <1>0. /\ place \in Nat /\ part \in Seq(Byte) /\ rest \in Seq(Byte)
        /\ tail = part \o rest
    BY DEF Follows
  <1>1. /\ all \in Seq(Byte) /\ Len(all) = place + Len(tail)
        /\ Behind(all, place) = tail
    BY DEF At, Follows
  <1>2. /\ Len(tail) = Len(part) + Len(rest) /\ SubSeq(tail, 1, Len(part)) = part
        /\ Behind(tail, Len(part)) = rest
    BY <1>0, FrontOfConcat
  <1>3. PICK m \in Nat : m = Len(part)
    BY <1>0
  <1>4. Len(rest) \in Nat
    BY <1>0
  <1>5. Len(all) = place + m + Len(rest) /\ place + m <= Len(all)
    BY <1>0, <1>1, <1>2, <1>3, <1>4
  <1>6. /\ Behind(Behind(all, place), m) = Behind(all, place + m)
        /\ SubSeq(all, place + 1, place + m) = SubSeq(Behind(all, place), 1, m)
    BY <1>0, <1>1, <1>3, <1>5, BehindTwice
  <1>7. Behind(all, place + m) = rest /\ SubSeq(all, place + 1, place + m) = part
    BY <1>1, <1>2, <1>3, <1>6
  <1> QED BY <1>0, <1>1, <1>3, <1>5, <1>7 DEF At

\* Parts of four bytes.
Fours(n, parts) ==
    /\ n \in Nat
    /\ \A i \in 1..n : parts[i] \in Seq(Byte) /\ Len(parts[i]) = 4

\* The same of a part of four bytes.
LEMMA FourAt ==
    ASSUME NEW all, NEW k \in Nat, NEW part, NEW tail, NEW rest,
           Follows(all, 4 * k, part, tail, rest), Len(part) = 4
    PROVE  /\ At(all, 4 * k + 4, rest)
           /\ SubSeq(all, 4 * k + 1, 4 * k + 4) = part
  <1>1. PICK place \in Nat : place = 4 * k
    OBVIOUS
  <1>2. PICK n : n = place + Len(part)
    OBVIOUS
  <1>3. Follows(all, place, part, tail, rest)
    BY <1>1
  <1>4. /\ At(all, place + Len(part), rest)
        /\ SubSeq(all, place + 1, place + Len(part)) = part
    BY <1>3, AtNext, ZenonT(40)
  <1>5. At(all, n, rest) /\ SubSeq(all, place + 1, n) = part
    BY <1>2, <1>4, Zenon
  <1>6. n = 4 * k + 4
    BY <1>1, <1>2
  <1> QED BY <1>1, <1>5, <1>6

\* Parts of four bytes lie four bytes apart.
FourApart(n, parts, more, all) ==
    /\ \A i \in 1..n : SubSeq(all, 4 * i - 3, 4 * i) = parts[i]
    /\ At(all, 4 * n, more)

\* Parts of four bytes that are read one by one lie four bytes apart.
LEMMA PlaceOfFours ==
    ASSUME NEW n, NEW parts, NEW more, NEW tail,
           Peels(n, parts, more, tail), Fours(n, parts)
    PROVE  FourApart(n, parts, more, tail[0])
  <1> DEFINE S == {i \in Nat : At(tail[0], 4 * i, tail[i])}
  <1>1. n \in Nat
    BY DEF Fours
  <1>2. 0 \in S
    <2>1. tail[0] \in Seq(Byte)
      BY <1>1 DEF Peels
    <2>2. Behind(tail[0], 0) = tail[0] /\ 4 * 0 = 0 /\ Len(tail[0]) \in Nat
      BY <2>1, SMT DEF Behind
    <2>3. At(tail[0], 0, tail[0])
      BY <2>1, <2>2 DEF At
    <2> QED BY <2>2, <2>3
  <1>3. ASSUME NEW i \in 1..n, i - 1 \in S
        PROVE  i \in S /\ SubSeq(tail[0], 4 * i - 3, 4 * i) = parts[i]
    <2>1. PICK k \in 0..n : k = i - 1
      BY <1>1
    <2>2. k \in Nat /\ i \in 0..n
      BY <1>1
    <2>3. At(tail[0], 4 * k, tail[k])
      BY <1>3, <2>1
    <2>4. parts[i] \in Seq(Byte) /\ Len(parts[i]) = 4
      BY DEF Fours
    <2>5. tail[i] \in Seq(Byte) /\ tail[k] = parts[i] \o tail[i]
      BY <1>1, <2>1, <2>2 DEF Peels
    <2>6. Follows(tail[0], 4 * k, parts[i], tail[k], tail[i])
      BY <2>2, <2>3, <2>4, <2>5 DEF Follows
    <2>7. /\ At(tail[0], 4 * k + 4, tail[i])
          /\ SubSeq(tail[0], 4 * k + 1, 4 * k + 4) = parts[i]
      BY <2>2, <2>4, <2>6, FourAt
    <2>8. 4 * k + 1 = 4 * i - 3 /\ 4 * k + 4 = 4 * i /\ i \in Nat
      BY <1>1, <2>1
    <2> QED BY <2>7, <2>8
  <1>4. \A i \in 0..n : i \in S
    <2> HIDE DEF S
    <2> QED BY <1>1, <1>2, <1>3, InductionUpTo
  <1>5. ASSUME NEW i \in 1..n
        PROVE  SubSeq(tail[0], 4 * i - 3, 4 * i) = parts[i]
    <2>1. i - 1 \in 0..n
      BY <1>1
    <2> HIDE DEF S
    <2> QED BY <1>3, <1>4, <2>1
  <1>6. At(tail[0], 4 * n, more)
    <2>1. n \in 0..n
      BY <1>1
    <2>2. At(tail[0], 4 * n, tail[n])
      BY <1>4, <2>1
    <2> QED BY <2>2 DEF Peels
  <1> QED BY <1>5, <1>6 DEF FourApart

\* Areas whose sizes four bytes show.
AreaList(n, areas) ==
    /\ n \in Nat
    /\ areas \in Seq(Seq(Byte))
    /\ Len(areas) = n
    /\ \A i \in 1..n : Fits(4, Len(areas[i]))

\* The bytes of a number, and its value.
LEMMA NumberBytes ==
    ASSUME NEW w, NEW n, Fits(w, n)
    PROVE  /\ BigEndian(w, n) \in Seq(Byte) /\ Len(BigEndian(w, n)) = w
           /\ Value(BigEndian(w, n)) = n
  <1>1. w \in 1..4 /\ n \in Int
    BY FitsIs
  <1>2. BigEndian(w, n) \in Seq(Byte) /\ Len(BigEndian(w, n)) = w
    BY <1>1, BigEndianIsBytes
  <1> QED BY <1>2, ValueOfBigEndian

\* Numbers gets the sizes that were written.
LEMMA ReadNumbers ==
    ASSUME NEW n, NEW areas, AreaList(n, areas), NEW more \in Seq(Byte), NEW v
    PROVE  /\ Sizes(areas) \in Seq(Byte)
           /\ Numbers(Got(v, Sizes(areas) \o more), n)
                = Got([i \in 1..n |-> Len(areas[i])], more)
  <1>1. n \in Nat
    BY DEF AreaList
  <1> DEFINE parts == [i \in DOMAIN areas |-> BigEndian(4, Len(areas[i]))]
  <1>2. DOMAIN areas = 1..n
    BY DEF AreaList
  <1>3. ASSUME NEW i \in 1..n
        PROVE  /\ parts[i] = BigEndian(4, Len(areas[i]))
               /\ parts[i] \in Seq(Byte) /\ Len(parts[i]) = 4
               /\ Value(parts[i]) = Len(areas[i])
    <2>1. PICK k : k = Len(areas[i])
      OBVIOUS
    <2>2. Fits(4, k)
      BY <2>1 DEF AreaList
    <2>3. parts[i] = BigEndian(4, k)
      BY <1>2, <2>1
    <2>4. /\ BigEndian(4, k) \in Seq(Byte) /\ Len(BigEndian(4, k)) = 4
          /\ Value(BigEndian(4, k)) = k
      BY <2>2, NumberBytes, Zenon
    <2> HIDE DEF parts
    <2> QED BY <2>1, <2>3, <2>4
  <1>4. parts = [i \in 1..n |-> parts[i]]
    BY <1>2
  <1>5. Sizes(areas) = FlattenSeq(parts)
    BY DEF Sizes
  <1> HIDE DEF parts
  <1>6. parts \in Seq(Seq(Byte)) /\ Len(parts) = n /\ Fours(n, parts)
    <2>1. \A i \in 1..n : parts[i] \in Seq(Byte) /\ Len(parts[i]) = 4
      BY <1>3
    <2>2. parts \in [1..n -> Seq(Byte)]
      BY <1>4, <2>1
    <2> QED BY <1>1, <2>1, <2>2 DEF Fours
  <1>7. PICK tail : Peels(n, parts, more, tail) /\ tail[0] = Sizes(areas) \o more
    BY <1>5, <1>6, FlattenPeels
  <1>8. Sizes(areas) \in Seq(Byte)
    BY <1>5, <1>6, FlattenPeels
  <1>9. PICK all : all = Sizes(areas) \o more
    OBVIOUS
  <1>10. /\ \A i \in 1..n : SubSeq(all, 4 * i - 3, 4 * i) = parts[i]
         /\ At(all, 4 * n, more)
    <2>1. FourApart(n, parts, more, tail[0])
      BY <1>6, <1>7, PlaceOfFours, Zenon
    <2> QED BY <1>7, <1>9, <2>1 DEF FourApart
  <1>11. \A i \in 1..n : Value(SubSeq(all, 4 * i - 3, 4 * i)) = Len(areas[i])
    BY <1>3, <1>10
  <1>12. [i \in 1..n |-> Value(SubSeq(all, 4 * i - 3, 4 * i))]
            = [i \in 1..n |-> Len(areas[i])]
    BY <1>11
  <1>13. 4 * n <= Len(all) /\ Behind(all, 4 * n) = more
    <2>1. 4 * n \in Nat /\ Len(more) \in Nat
      BY <1>1
    <2> QED BY <1>10, <2>1 DEF At
  <1>14. Numbers(Got(v, all), n)
            = Got([i \in 1..n |-> Value(SubSeq(all, 4 * i - 3, 4 * i))], more)
    BY <1>13 DEF Numbers, Got
  <1> QED BY <1>8, <1>9, <1>12, <1>14, Zenon

-----------------------------------------------------------------------------
(* Areas.                                                                  *)

\* A reader of areas, and what it gets on its way.
AreaReader == [ok : BOOLEAN, got : Seq(Seq(Byte)), rest : Seq(Byte)]

\* One area more is read.
NextArea(r, n) == Longer(r, Area(r, n))

\* One area after the other is got from bytes.
Reads(bytes, n, sizes, f) ==
    /\ f \in [0..n -> AreaReader]
    /\ f[0] = Reader(bytes)
    /\ \A i \in 1..n : f[i] = NextArea(f[i - 1], sizes[i])

\* A reader of areas stays one.
LEMMA NextAreaReads ==
    ASSUME NEW r \in AreaReader, NEW n \in Int
    PROVE  NextArea(r, n) \in AreaReader
  <1>1. CASE r.ok /\ n \in 0..Len(r.rest)
    <2>1. /\ r.rest \in Seq(Byte) /\ n \in Nat /\ n <= Len(r.rest)
          /\ r.got \in Seq(Seq(Byte))
      BY <1>1 DEF AreaReader
    <2>2. SubSeq(r.rest, 1, n) \in Seq(Byte) /\ Behind(r.rest, n) \in Seq(Byte)
      BY <2>1, FrontOfBytes
    <2>3. Append(r.got, SubSeq(r.rest, 1, n)) \in Seq(Seq(Byte))
      BY <2>1, <2>2
    <2>4. NextArea(r, n) = Got(Append(r.got, SubSeq(r.rest, 1, n)), Behind(r.rest, n))
      BY <1>1 DEF NextArea, Area, Longer, Got
    <2> QED BY <2>2, <2>3, <2>4 DEF AreaReader, Got
  <1>2. CASE ~(r.ok /\ n \in 0..Len(r.rest))
    <2>1. NextArea(r, n) = Stuck
      BY <1>2 DEF NextArea, Area, Longer, Stuck
    <2> QED BY <2>1 DEF AreaReader, Stuck
  <1> QED BY <1>1, <1>2

\* Areas can be read one by one.
LEMMA ReadsExists ==
    ASSUME NEW bytes \in Seq(Byte), NEW n \in Nat, NEW sizes \in [1..n -> Int]
    PROVE  \E f : Reads(bytes, n, sizes, f)
  <1> DEFINE size(i) == IF i \in 1..n THEN sizes[i] ELSE 0
             step == [p \in Nat \X AreaReader |-> NextArea(p[2], size(p[1]))]
  <1>1. \A i \in Nat : size(i) \in Int
    OBVIOUS
  <1>2. step \in [Nat \X AreaReader -> AreaReader]
    <2> SUFFICES ASSUME NEW p \in Nat \X AreaReader
                 PROVE  NextArea(p[2], size(p[1])) \in AreaReader
      OBVIOUS
    <2>1. p[2] \in AreaReader /\ size(p[1]) \in Int
      BY <1>1
    <2> HIDE DEF size
    <2> QED BY <2>1, NextAreaReads
  <1>3. \A i \in 1..n, r \in AreaReader : step[<<i, r>>] = NextArea(r, sizes[i])
    <2> SUFFICES ASSUME NEW i \in 1..n, NEW r \in AreaReader
                 PROVE  step[<<i, r>>] = NextArea(r, sizes[i])
      OBVIOUS
    <2>1. i \in Nat /\ size(i) = sizes[i]
      OBVIOUS
    <2> HIDE DEF size
    <2>2. step[<<i, r>>] = NextArea(r, size(i))
      BY <2>1
    <2> QED BY <2>1, <2>2
  <1>4. Reader(bytes) \in AreaReader
    BY DEF Reader, Got, AreaReader
  <1> HIDE DEF step
  <1>5. PICK f : Recursion(AreaReader, Reader(bytes), step, n, f)
    BY <1>2, <1>4, RecursionExists, Zenon
  <1>6. ASSUME NEW i \in 1..n
        PROVE  f[i] = NextArea(f[i - 1], sizes[i])
    <2>1. f[i - 1] \in AreaReader /\ f[i] = step[<<i, f[i - 1]>>]
      BY <1>5 DEF Recursion
    <2> QED BY <1>3, <2>1
  <1> QED BY <1>5, <1>6 DEF Reads, Recursion

\* What Areas computes.
ReadsAll(bytes, n, sizes, g) ==
    g = [i \in 0..n |-> IF i = 0 THEN Reader(bytes)
                        ELSE Longer(g[i - 1], Area(g[i - 1], sizes[i]))]

\* Areas read one by one are what Areas chooses from.
LEMMA ReadsReadsAll ==
    ASSUME NEW bytes, NEW n \in Nat, NEW sizes, NEW f, Reads(bytes, n, sizes, f)
    PROVE  ReadsAll(bytes, n, sizes, f)
  <1>1. f = [i \in 0..n |-> f[i]]
    BY DEF Reads
  <1>2. ASSUME NEW i \in 0..n
        PROVE  f[i] = IF i = 0 THEN Reader(bytes)
                      ELSE Longer(f[i - 1], Area(f[i - 1], sizes[i]))
    <2>1. CASE i = 0
      BY <2>1 DEF Reads
    <2>2. CASE i # 0
      <3>1. i \in 1..n
        BY <2>2
      <3>2. f[i] = NextArea(f[i - 1], sizes[i])
        BY <3>1 DEF Reads
      <3> QED BY <2>2, <3>2 DEF NextArea
    <2> QED BY <2>1, <2>2
  <1>3. f = [i \in 0..n |-> IF i = 0 THEN Reader(bytes)
                            ELSE Longer(f[i - 1], Area(f[i - 1], sizes[i]))]
    BY <1>1, <1>2, Zenon
  <1> QED BY <1>3, Zenon DEF ReadsAll

\* Areas has nothing else to choose.
LEMMA ReadsAllReads ==
    ASSUME NEW bytes, NEW n \in Nat, NEW sizes, NEW f, Reads(bytes, n, sizes, f),
           NEW g, ReadsAll(bytes, n, sizes, g)
    PROVE  \A i \in 0..n : g[i] = f[i]
  <1> DEFINE S == {i \in 0..n : g[i] = f[i]}
  <1>1. \A i \in 0..n : g[i] = IF i = 0 THEN Reader(bytes)
                               ELSE Longer(g[i - 1], Area(g[i - 1], sizes[i]))
    BY Zenon DEF ReadsAll
  <1>2. 0 \in S
    <2>1. g[0] = Reader(bytes) /\ 0 \in 0..n
      BY <1>1
    <2> QED BY <2>1 DEF Reads
  <1>3. ASSUME NEW i \in 1..n, i - 1 \in S
        PROVE  i \in S
    <2>1. i \in 0..n /\ i # 0
      OBVIOUS
    <2>2. g[i] = NextArea(g[i - 1], sizes[i])
      BY <1>1, <2>1 DEF NextArea
    <2>3. f[i] = NextArea(f[i - 1], sizes[i])
      BY DEF Reads
    <2>4. g[i - 1] = f[i - 1]
      BY <1>3
    <2> QED BY <2>1, <2>2, <2>3, <2>4
  <1>4. \A i \in 0..n : i \in S
    <2> HIDE DEF S
    <2> QED BY <1>2, <1>3, InductionUpTo
  <1> QED BY <1>4

\* Areas is what is got from reading one by one.
LEMMA AreasReads ==
    ASSUME NEW v, NEW bytes, NEW n \in Nat, NEW sizes, Len(sizes) = n,
           NEW f, Reads(bytes, n, sizes, f)
    PROVE  Areas(Got(v, bytes), sizes) = f[n]
  <1>1. PICK k : k = CHOOSE g : ReadsAll(bytes, n, sizes, g)
    OBVIOUS
  <1>2. \E g : ReadsAll(bytes, n, sizes, g)
    BY ReadsReadsAll
  <1>3. ReadsAll(bytes, n, sizes, k)
    BY <1>1, <1>2, Zenon
  <1>4. Areas(Got(v, bytes), sizes) = k[n]
    BY <1>1 DEF Areas, ReadsAll, Got
  <1>5. k[n] = f[n]
    BY <1>3, ReadsAllReads
  <1> QED BY <1>4, <1>5
\* One area more.
LEMMA FirstAreas ==
    ASSUME NEW areas \in Seq(Seq(Byte)), NEW k \in Nat, k + 1 <= Len(areas)
    PROVE  Append(SubSeq(areas, 1, k), areas[k + 1]) = SubSeq(areas, 1, k + 1)
  <1>1. /\ k + 1 \in 1..Len(areas) /\ k + 1 - 1 = k /\ 1 \in 1..Len(areas)
        /\ k + 1 \in 1..Len(areas)
    OBVIOUS
  <1>2. SubSeq(areas, 1, k + 1) = SubSeq(areas, 1, k + 1 - 1) \o <<areas[k + 1]>>
    BY <1>1, SubSeqRecursiveSecond
  <1>3. SubSeq(areas, 1, k) \in Seq(Seq(Byte)) /\ areas[k + 1] \in Seq(Byte)
    BY <1>1
  <1>4. Append(SubSeq(areas, 1, k), areas[k + 1]) = SubSeq(areas, 1, k) \o <<areas[k + 1]>>
    BY <1>3, AppendIsConcat
  <1> QED BY <1>1, <1>2, <1>4

\* Areas gets the areas that were written.
LEMMA ReadAreas ==
    ASSUME NEW n, NEW areas, AreaList(n, areas), NEW more \in Seq(Byte), NEW v
    PROVE  /\ FlattenSeq(areas) \in Seq(Byte)
           /\ Areas(Got(v, FlattenSeq(areas) \o more), [i \in 1..n |-> Len(areas[i])])
                = Got(areas, more)
  <1>1. n \in Nat /\ areas \in Seq(Seq(Byte)) /\ Len(areas) = n
    BY DEF AreaList
  <1>2. FlattenSeq(areas) \in Seq(Byte)
    BY <1>1, FlattenPeels
  <1>3. PICK tail : Peels(n, areas, more, tail) /\ tail[0] = FlattenSeq(areas) \o more
    BY <1>1, FlattenPeels
  <1> DEFINE sizes == [i \in 1..n |-> Len(areas[i])]
             f == [i \in 0..n |-> Got(SubSeq(areas, 1, i), tail[i])]
  <1>4. Len(sizes) = n /\ \A i \in 1..n : sizes[i] = Len(areas[i])
    BY <1>1
  <1> HIDE DEF sizes
  <1>5. \A i \in 0..n : f[i] = Got(SubSeq(areas, 1, i), tail[i])
    OBVIOUS
  <1>6. f \in [0..n -> AreaReader]
    <2> SUFFICES ASSUME NEW i \in 0..n
                 PROVE  Got(SubSeq(areas, 1, i), tail[i]) \in AreaReader
      OBVIOUS
    <2>1. SubSeq(areas, 1, i) \in Seq(Seq(Byte))
      BY <1>1
    <2>2. tail[i] \in Seq(Byte)
      BY <1>3 DEF Peels
    <2> QED BY <2>1, <2>2 DEF AreaReader, Got
  <1> HIDE DEF f
  <1>7. f[0] = Reader(tail[0])
    <2>1. SubSeq(areas, 1, 0) = <<>>
      BY <1>1
    <2>2. 0 \in 0..n
      BY <1>1
    <2> QED BY <1>5, <2>1, <2>2 DEF Reader
  <1>8. ASSUME NEW i \in 1..n
        PROVE  f[i] = NextArea(f[i - 1], sizes[i])
    <2>1. PICK k \in Nat : k = i - 1
      BY <1>1
    <2>2. k + 1 = i /\ k + 1 <= Len(areas) /\ k \in 0..n /\ i \in 0..n
      BY <1>1, <2>1
    <2>3. tail[k] = areas[i] \o tail[i]
      BY <1>3, <2>1 DEF Peels
    <2>4. tail[i] \in Seq(Byte)
      BY <1>3, <2>2 DEF Peels
    <2>5. areas[i] \in Seq(Byte)
      BY <1>1
    <2>6. f[k] = Got(SubSeq(areas, 1, k), areas[i] \o tail[i])
      BY <1>5, <2>2, <2>3
    <2>7. Area(f[k], Len(areas[i])) = Got(areas[i], tail[i])
      BY <2>4, <2>5, <2>6, ReadArea
    <2>8. Append(SubSeq(areas, 1, k), areas[i]) = SubSeq(areas, 1, i)
      BY <1>1, <2>2, FirstAreas
    <2>9. NextArea(f[k], sizes[i]) = Got(Append(SubSeq(areas, 1, k), areas[i]), tail[i])
      <3>1. NextArea(f[k], sizes[i]) = Longer(f[k], Got(areas[i], tail[i]))
        BY <1>4, <2>7, Zenon DEF NextArea
      <3>2. PICK got : got = SubSeq(areas, 1, k)
        OBVIOUS
      <3>3. PICK rest : f[k] = Got(got, rest)
        BY <2>6, <3>2
      <3>4. Longer(Got(got, rest), Got(areas[i], tail[i]))
                = Got(Append(got, areas[i]), tail[i])
        BY DEF Longer, Got
      <3> QED BY <3>1, <3>2, <3>3, <3>4, Zenon
    <2>10. f[i] = Got(SubSeq(areas, 1, i), tail[i])
      BY <1>5, <2>2
    <2> QED BY <2>1, <2>8, <2>9, <2>10
  <1>9. Reads(tail[0], n, sizes, f)
    BY <1>6, <1>7, <1>8 DEF Reads
  <1>10. Areas(Got(v, tail[0]), sizes) = f[n]
    BY <1>1, <1>4, <1>9, AreasReads
  <1>11. f[n] = Got(areas, more)
    <2>1. f[n] = Got(SubSeq(areas, 1, n), tail[n])
      BY <1>1, <1>5
    <2>2. SubSeq(areas, 1, n) = areas
      BY <1>1, SubSeqFull
    <2> QED BY <1>3, <2>1, <2>2 DEF Peels
  <1> QED BY <1>2, <1>3, <1>10, <1>11 DEF sizes
=============================================================================
