-------------------------- MODULE TpmMessagesProofs --------------------------
(***************************************************************************)
(* Proofs about TpmMessages: every message the other side reads as it was  *)
(* meant, through encryption and areas of any size, and none that is cut.  *)
(*                                                                         *)
(* A structure is bytes in front of others (Joins).  For each there is a   *)
(* lemma that its bytes are bytes and never too many (...IsBytes), and one *)
(* that its reader gets it from the front of any bytes (...Read).  For     *)
(* messages that are cut, a reader that does not fail gets the same from   *)
(* more bytes (Ahead), so of a message and a longer one at most one is     *)
(* read to its end (...NotLonger).  From bytes readers get bytes (Leaves), *)
(* and what they accept of them lacks nothing (...Complete).               *)
(***************************************************************************)
EXTENDS TpmBytesProofs, TpmMessages

-----------------------------------------------------------------------------
(* Numbers, areas and the structures of keys.                              *)

\* The bytes of a number.
LEMMA BytesOf ==
    ASSUME NEW w, NEW n, Fits(w, n)
    PROVE  BigEndian(w, n) \in Seq(Byte) /\ Len(BigEndian(w, n)) = w
  BY NumberBytes

\* What the sets of values say about the bytes they are shown in.
LEMMA WordFits ==
    /\ \A n \in Word : Fits(4, n) /\ n \in Int
    /\ \A n \in Short : Fits(2, n) /\ n \in Nat /\ Fits(4, n)
    /\ \A b \in Blob : b \in Seq(Byte) /\ Fits(4, Len(b)) /\ Len(b) \in Nat
                        /\ Len(b) <= MaxSize /\ Fits(4, Len(b) + 12)
    /\ Filled \subseteq Blob /\ \A b \in Filled : Len(b) # 0
  <1>1. \A n \in Word : Fits(4, n) /\ n \in Int
    BY SMT DEF Word, Fits
  <1>2. \A n \in Short : Fits(2, n) /\ n \in Nat /\ Fits(4, n)
    BY SMT DEF Short, Fits, Word, MaxNumber
  <1>3. ASSUME NEW b \in Blob
        PROVE  b \in Seq(Byte) /\ Fits(4, Len(b)) /\ Len(b) \in Nat
                        /\ Len(b) <= MaxSize /\ Fits(4, Len(b) + 12)
    <2>1. b \in Seq(Byte) /\ Len(b) <= MaxSize
      BY Zenon DEF Blob
    <2>2. PICK n \in Nat : n = Len(b)
      BY <2>1
    <2>3. Fits(4, n) /\ Fits(4, n + 12)
      BY SMT, <2>1, <2>2 DEF Fits, Word, MaxNumber, MaxSize
    <2> QED BY <2>1, <2>2, <2>3
  <1>4. Filled \subseteq Blob
    BY Zenon DEF Filled
  <1>5. ASSUME NEW b \in Filled
        PROVE  Len(b) # 0
    <2>1. b \in Seq(Byte) /\ b # <<>>
      BY Zenon DEF Filled, Blob
    <2> QED BY <2>1
  <1> QED BY <1>1, <1>2, <1>3, <1>4, <1>5

\* A sequence of one.
LEMMA Single ==
    ASSUME NEW S, NEW s \in Seq(S), Len(s) = 1
    PROVE  \E p \in S : s = <<p>>
  <1>1. s[1] \in S
    OBVIOUS
  <1>2. PICK t \in Seq(S) : t = <<s[1]>> /\ Len(t) = 1 /\ t[1] = s[1]
    BY <1>1
  <1>3. \A i \in 1..1 : s[i] = t[i]
    BY <1>2
  <1>4. s = t
    BY <1>2, <1>3, SeqEqual
  <1> QED BY <1>1, <1>2, <1>4

\* Bytes, and bytes with others behind them.
IsBytes(b) == b \in Seq(Byte)

\* x in front of y.
Joins(x, y, all) == IsBytes(x) /\ IsBytes(y) /\ all = x \o y

\* Bytes with others behind them are bytes.
LEMMA Joined ==
    ASSUME NEW x, NEW y, NEW all, Joins(x, y, all)
    PROVE  /\ IsBytes(x) /\ IsBytes(y) /\ IsBytes(all) /\ all = x \o y
           /\ Len(x) \in Nat /\ Len(y) \in Nat /\ Len(all) = Len(x) + Len(y)
  BY DEF Joins, IsBytes

\* Any bytes can be behind any.
LEMMA Joining ==
    ASSUME NEW x, NEW y, IsBytes(x), IsBytes(y)
    PROVE  Joins(x, y, x \o y)
  BY DEF Joins

\* What is behind the parts of a front is behind its last one.
LEMMA Regroup ==
    ASSUME NEW x, NEW a, NEW y, NEW t, NEW all, Joins(x, a, y), Joins(y, t, all)
    PROVE  \E u : Joins(a, t, u) /\ Joins(x, u, all)
  <1>1. /\ IsBytes(x) /\ IsBytes(a) /\ IsBytes(t) /\ y = x \o a /\ all = (x \o a) \o t
    BY Zenon DEF Joins
  <1>2. IsBytes(a \o t) /\ all = x \o (a \o t)
    BY <1>1, ConcatBytes DEF IsBytes
  <1> QED BY <1>1, <1>2, Zenon DEF Joins

\* A number is written as bytes.
LEMMA NumberIsBytes ==
    ASSUME NEW w, NEW n, Fits(w, n)
    PROVE  IsBytes(BigEndian(w, n)) /\ Len(BigEndian(w, n)) = w
  BY BytesOf DEF IsBytes

\* A number in front is read.
LEMMA NumberJoins ==
    ASSUME NEW w, NEW n, Fits(w, n), NEW more, NEW all, NEW v,
           Joins(BigEndian(w, n), more, all)
    PROVE  Number(Got(v, all), w) = Got(n, more)
  BY ReadNumber, Zenon DEF Joins, IsBytes

\* The bytes of a number.
IsNumber(w, n, x) == Fits(w, n) /\ x = BigEndian(w, n)

\* The bytes of a number are as many as asked for.
LEMMA NumberOf ==
    ASSUME NEW w, NEW n, NEW x, IsNumber(w, n, x)
    PROVE  IsBytes(x) /\ Len(x) = w
  BY NumberIsBytes DEF IsNumber

\* A number in front is read, whatever is behind.
LEMMA NumberRead ==
    ASSUME NEW w, NEW n, NEW x, IsNumber(w, n, x), NEW more, NEW all, Joins(x, more, all),
           NEW v
    PROVE  Number(Got(v, all), w) = Got(n, more)
  BY NumberJoins DEF IsNumber

\* An area in front is read.
LEMMA AreaJoins ==
    ASSUME NEW area, NEW more, NEW all, NEW v, Joins(area, more, all)
    PROVE  Area(Got(v, all), Len(area)) = Got(area, more)
  BY ReadArea, Zenon DEF Joins, IsBytes

\* A number that is not zero.
LEMMA ReadNonZero ==
    ASSUME NEW n, Fits(4, n), n # 0, NEW more \in Seq(Byte), NEW v
    PROVE  NonZero(Number(Got(v, BigEndian(4, n) \o more), 4)) = Got(n, more)
  <1>1. Number(Got(v, BigEndian(4, n) \o more), 4) = Got(n, more)
    BY ReadNumber
  <1>2. NonZero(Got(n, more)) = Got(n, more)
    BY DEF NonZero, Got
  <1> QED BY <1>1, <1>2

\* Two numbers that are not zero, and an area behind its size.
Framed(x, y, area) == BigEndian(4, x) \o BigEndian(4, y) \o Sized(4, area)

\* Two numbers and an area are read as they were written, and are all.
LEMMA ReadFramed ==
    ASSUME NEW x, Fits(4, x), x # 0, NEW y, Fits(4, y), y # 0, NEW area \in Blob
    PROVE  /\ Framed(x, y, area) \in Seq(Byte)
           /\ Len(Framed(x, y, area)) = Len(area) + 12
           /\ LET first  == NonZero(Number(Reader(Framed(x, y, area)), 4))
                  second == NonZero(Number(first, 4))
                  size   == Number(second, 4)
              IN /\ first.got = x /\ second.got = y
                 /\ Area(size, size.got) = Got(area, <<>>)
  <1>1. area \in Seq(Byte) /\ Fits(4, Len(area)) /\ Len(area) \in Nat
    BY WordFits
  <1> DEFINE a == BigEndian(4, x)
             b == BigEndian(4, y)
             c == BigEndian(4, Len(area))
  <1>2. /\ a \in Seq(Byte) /\ b \in Seq(Byte) /\ c \in Seq(Byte)
        /\ Len(a) = 4 /\ Len(b) = 4 /\ Len(c) = 4
    BY <1>1, BytesOf
  <1>3. Framed(x, y, area) = (a \o b) \o (c \o area)
    BY DEF Framed, Sized
  <1> HIDE DEF a, b, c
  <1>4. Framed(x, y, area) = a \o (b \o (c \o area))
    BY <1>1, <1>2, <1>3
  <1>5. /\ c \o area \in Seq(Byte) /\ b \o (c \o area) \in Seq(Byte)
        /\ Framed(x, y, area) \in Seq(Byte)
    BY <1>1, <1>2, <1>4
  <1>6. Len(Framed(x, y, area)) = Len(area) + 12
    <2>1. Len(c \o area) = Len(c) + Len(area)
      BY <1>1, <1>2, FrontOfConcat, Zenon
    <2>2. Len(b \o (c \o area)) = Len(b) + Len(c \o area)
      BY <1>2, <1>5, FrontOfConcat, Zenon
    <2>3. Len(a \o (b \o (c \o area))) = Len(a) + Len(b \o (c \o area))
      BY <1>2, <1>5, FrontOfConcat, Zenon
    <2> QED BY <1>1, <1>2, <1>4, <2>1, <2>2, <2>3
  <1>7. area \o <<>> = area /\ <<>> \in Seq(Byte)
    BY <1>1, ConcatEmptySeq
  <1>8. NonZero(Number(Reader(Framed(x, y, area)), 4)) = Got(x, b \o (c \o area))
    BY <1>4, <1>5, ReadNonZero DEF a, Reader
  <1>9. NonZero(Number(Got(x, b \o (c \o area)), 4)) = Got(y, c \o area)
    BY <1>5, ReadNonZero DEF b
  <1>10. Number(Got(y, c \o area), 4) = Got(Len(area), area)
    BY <1>1, ReadNumber DEF c
  <1>11. Area(Got(Len(area), area), Len(area)) = Got(area, <<>>)
    BY <1>1, <1>7, ReadArea
  <1>12. /\ Got(x, b \o (c \o area)).got = x /\ Got(y, c \o area).got = y
         /\ Got(Len(area), area).got = Len(area)
    BY DEF Got
  <1> QED BY <1>5, <1>6, <1>8, <1>9, <1>10, <1>11, <1>12, Zenon

\* RSA parameters are read as they were written.
LEMMA RSAKeyParmsSurvive ==
    ASSUME NEW p \in RSAKeyParmsValues
    PROVE  /\ SerializeRSAKeyParms(p) \in Seq(Byte)
           /\ Fits(4, Len(SerializeRSAKeyParms(p)))
           /\ ParseRSAKeyParms(SerializeRSAKeyParms(p)) = <<p>>
  <1>1. /\ p.keyLength \in Word \ {0} /\ p.numPrimes \in Word \ {0} /\ p.exponent \in Blob
        /\ p = [keyLength |-> p.keyLength, numPrimes |-> p.numPrimes,
                exponent |-> p.exponent]
    BY Zenon DEF RSAKeyParmsValues
  <1>2. PICK b : b = Framed(p.keyLength, p.numPrimes, p.exponent)
    OBVIOUS
  <1>3. SerializeRSAKeyParms(p) = b
    BY <1>2, Zenon DEF SerializeRSAKeyParms, Framed
  <1>4. Fits(4, p.keyLength) /\ Fits(4, p.numPrimes)
    BY <1>1, WordFits
  <1>5. /\ b \in Seq(Byte) /\ Len(b) = Len(p.exponent) + 12
        /\ LET first  == NonZero(Number(Reader(b), 4))
               second == NonZero(Number(first, 4))
               size   == Number(second, 4)
           IN /\ first.got = p.keyLength /\ second.got = p.numPrimes
              /\ Area(size, size.got) = Got(p.exponent, <<>>)
    BY <1>1, <1>2, <1>4, ReadFramed
  <1>6. Fits(4, Len(b))
    BY <1>1, <1>5, WordFits
  <1>7. ParseRSAKeyParms(b) = <<[keyLength |-> p.keyLength, numPrimes |-> p.numPrimes,
                                 exponent |-> p.exponent]>>
    BY <1>5 DEF ParseRSAKeyParms, Exactly, Got, RSAKeyParms
  <1> QED BY <1>1, <1>3, <1>5, <1>6, <1>7

\* AES parameters are read as they were written.
LEMMA SymmetricKeyParmsSurvive ==
    ASSUME NEW p \in SymmetricKeyParmsValues
    PROVE  /\ SerializeSymmetricKeyParms(p) \in Seq(Byte)
           /\ Fits(4, Len(SerializeSymmetricKeyParms(p)))
           /\ ParseSymmetricKeyParms(SerializeSymmetricKeyParms(p)) = <<p>>
  <1>1. /\ p.keyLength \in Word \ {0} /\ p.blockSize \in Word \ {0} /\ p.iv \in Blob
        /\ p = [keyLength |-> p.keyLength, blockSize |-> p.blockSize, iv |-> p.iv]
    BY Zenon DEF SymmetricKeyParmsValues
  <1>2. PICK b : b = Framed(p.keyLength, p.blockSize, p.iv)
    OBVIOUS
  <1>3. SerializeSymmetricKeyParms(p) = b
    BY <1>2, Zenon DEF SerializeSymmetricKeyParms, Framed
  <1>4. Fits(4, p.keyLength) /\ Fits(4, p.blockSize)
    BY <1>1, WordFits
  <1>5. /\ b \in Seq(Byte) /\ Len(b) = Len(p.iv) + 12
        /\ LET first  == NonZero(Number(Reader(b), 4))
               second == NonZero(Number(first, 4))
               size   == Number(second, 4)
           IN /\ first.got = p.keyLength /\ second.got = p.blockSize
              /\ Area(size, size.got) = Got(p.iv, <<>>)
    BY <1>1, <1>2, <1>4, ReadFramed
  <1>6. Fits(4, Len(b))
    BY <1>1, <1>5, WordFits
  <1>7. ParseSymmetricKeyParms(b) = <<[keyLength |-> p.keyLength,
                                       blockSize |-> p.blockSize, iv |-> p.iv]>>
    BY <1>5 DEF ParseSymmetricKeyParms, Exactly, Got, SymmetricKeyParms
  <1> QED BY <1>1, <1>3, <1>5, <1>6, <1>7

\* The parameters of an algorithm, as bytes.
ParmsOf(k) ==
    IF k.rsa # <<>> THEN SerializeRSAKeyParms(k.rsa[1])
    ELSE IF k.sym # <<>> THEN SerializeSymmetricKeyParms(k.sym[1])
    ELSE <<>>

\* RSA is none of the AES algorithms, and four bytes show an algorithm.
LEMMA AlgorithmsAre ==
    /\ Rsa \in AlgMap /\ Rsa \notin Aes /\ Aes \subseteq AlgMap
    /\ \A alg \in AlgMap : Fits(4, alg) /\ alg # 0
  <1>1. Rsa \in AlgMap /\ Rsa \notin Aes /\ Aes \subseteq AlgMap
    BY SMT DEF AlgMap, Rsa, Aes
  <1>2. \A alg \in AlgMap : alg \in Nat /\ alg # 0 /\ alg < 10
    BY SMT DEF AlgMap, Rsa, Aes
  <1>3. \A n \in Nat : n < 10 => Fits(4, n)
    BY SMT DEF Fits, Word, MaxNumber
  <1> QED BY <1>1, <1>2, <1>3

\* The parameters are those of the algorithm, and none where it takes none.
LEMMA ParmsSurvive ==
    ASSUME NEW k \in KeyParmsValues
    PROVE  /\ ParmsOf(k) \in Seq(Byte) /\ Fits(4, Len(ParmsOf(k)))
           /\ ParmsFit(k.alg, ParmsOf(k))
           /\ k.rsa = IF k.alg = Rsa THEN ParseRSAKeyParms(ParmsOf(k)) ELSE <<>>
           /\ k.sym = IF k.alg \in Aes THEN ParseSymmetricKeyParms(ParmsOf(k)) ELSE <<>>
           /\ k.rsa # <<>> => k.alg = Rsa
           /\ k.sym # <<>> => k.alg \in Aes
  <1>1. /\ k.alg \in AlgMap
        /\ k.rsa \in Seq(RSAKeyParmsValues) /\ k.sym \in Seq(SymmetricKeyParmsValues)
        /\ Len(k.rsa) = IF k.alg = Rsa THEN 1 ELSE 0
        /\ Len(k.sym) = IF k.alg \in Aes THEN 1 ELSE 0
    BY Zenon DEF KeyParmsValues
  <1>2. CASE k.alg = Rsa
    <2>1. k.alg \notin Aes
      BY <1>2, AlgorithmsAre
    <2>2. PICK p \in RSAKeyParmsValues : k.rsa = <<p>>
      BY <1>1, <1>2, Single
    <2>3. k.sym = <<>>
      BY <1>1, <2>1
    <2>4. ParmsOf(k) = SerializeRSAKeyParms(p)
      BY <2>2 DEF ParmsOf
    <2>5. ParseRSAKeyParms(ParmsOf(k)) = <<p>>
      BY <2>4, RSAKeyParmsSurvive
    <2>6. ParmsFit(k.alg, ParmsOf(k))
      BY <1>2, <2>5 DEF ParmsFit
    <2> QED BY <1>2, <2>1, <2>2, <2>3, <2>4, <2>5, <2>6, RSAKeyParmsSurvive
  <1>3. CASE k.alg \in Aes
    <2>1. k.alg # Rsa
      BY <1>3, AlgorithmsAre
    <2>2. PICK p \in SymmetricKeyParmsValues : k.sym = <<p>>
      BY <1>1, <1>3, Single
    <2>3. k.rsa = <<>>
      BY <1>1, <2>1
    <2>4. ParmsOf(k) = SerializeSymmetricKeyParms(p)
      BY <2>2, <2>3 DEF ParmsOf
    <2>5. ParseSymmetricKeyParms(ParmsOf(k)) = <<p>>
      BY <2>4, SymmetricKeyParmsSurvive
    <2>6. ParmsFit(k.alg, ParmsOf(k))
      BY <1>3, <2>1, <2>5 DEF ParmsFit
    <2> QED BY <1>3, <2>1, <2>2, <2>3, <2>4, <2>5, <2>6, SymmetricKeyParmsSurvive
  <1>4. CASE k.alg # Rsa /\ k.alg \notin Aes
    <2>1. k.rsa = <<>> /\ k.sym = <<>>
      BY <1>1, <1>4
    <2>2. ParmsOf(k) = <<>>
      BY <2>1 DEF ParmsOf
    <2>3. ParmsFit(k.alg, ParmsOf(k))
      BY <1>4, <2>2 DEF ParmsFit
    <2>4. 0 \in Short
      BY SMT DEF Short
    <2>5. Fits(4, 0) /\ Len(<<>>) = 0 /\ <<>> \in Seq(Byte)
      BY <2>4, WordFits
    <2> QED BY <1>4, <2>1, <2>2, <2>3, <2>5
  <1> QED BY <1>2, <1>3, <1>4

\* TPM_KEY_PARMS in front of anything is read as it was written.
LEMMA KeyParmsSurvive ==
    ASSUME NEW k \in KeyParmsValues, NEW more \in Seq(Byte), NEW v
    PROVE  /\ SerializeKeyParms(k) \in Seq(Byte) /\ Len(SerializeKeyParms(k)) >= 12
           /\ KeyParms(Got(v, SerializeKeyParms(k) \o more)) = Got(k, more)
  <1>1. /\ k.alg \in AlgMap /\ k.enc \in Short /\ k.sig \in Short
        /\ k = [alg |-> k.alg, enc |-> k.enc, sig |-> k.sig, rsa |-> k.rsa, sym |-> k.sym]
    BY Zenon DEF KeyParmsValues
  <1>2. PICK p : p = ParmsOf(k)
    OBVIOUS
  <1>3. /\ p \in Seq(Byte) /\ Fits(4, Len(p)) /\ ParmsFit(k.alg, p)
        /\ k.rsa = IF k.alg = Rsa THEN ParseRSAKeyParms(p) ELSE <<>>
        /\ k.sym = IF k.alg \in Aes THEN ParseSymmetricKeyParms(p) ELSE <<>>
        /\ k.rsa # <<>> => k.alg = Rsa
        /\ k.sym # <<>> => k.alg \in Aes
    BY <1>2, ParmsSurvive
  <1> DEFINE a == BigEndian(4, k.alg)
             e == BigEndian(2, k.enc)
             s == BigEndian(2, k.sig)
             n == BigEndian(4, Len(p))
             all == SerializeKeyParms(k)
  <1>4. Fits(4, k.alg) /\ Fits(2, k.enc) /\ Fits(2, k.sig)
    BY <1>1, AlgorithmsAre, WordFits
  <1>41. IsNumber(4, k.alg, a) /\ IsNumber(2, k.enc, e) /\ IsNumber(2, k.sig, s)
    BY <1>4, Zenon DEF IsNumber
  <1>42. IsNumber(4, Len(p), n)
    BY <1>3, Zenon DEF IsNumber
  <1>5. IsBytes(a) /\ Len(a) = 4 /\ IsBytes(n) /\ Len(n) = 4
    BY <1>41, <1>42, NumberOf
  <1>6. IsBytes(e) /\ Len(e) = 2 /\ IsBytes(s) /\ Len(s) = 2
    BY <1>41, NumberOf
  <1>7. IsBytes(p) /\ IsBytes(more)
    BY <1>3 DEF IsBytes
  <1>8. all = ((a \o e) \o s) \o (n \o p)
    BY <1>2, <1>3 DEF SerializeKeyParms, ParmsOf, Sized
  <1> HIDE DEF a, e, s, n, all
  <1>9. PICK ae : Joins(a, e, ae) /\ ae = a \o e
    BY <1>5, <1>6, Joining
  <1>10. PICK aes : Joins(ae, s, aes) /\ aes = ae \o s
    BY <1>6, <1>9, Joining, Joined
  <1>11. PICK np : Joins(n, p, np) /\ np = n \o p
    BY <1>5, <1>7, Joining
  <1>12. Joins(aes, np, all)
    BY <1>8, <1>9, <1>10, <1>11, Joining, Joined
  <1>13. PICK all2 : Joins(all, more, all2) /\ all2 = all \o more
    BY <1>7, <1>12, Joining, Joined
  <1>14. PICK t2 : Joins(np, more, t2) /\ Joins(aes, t2, all2)
    BY <1>12, <1>13, Regroup
  <1>15. PICK t1 : Joins(p, more, t1) /\ Joins(n, t1, t2)
    BY <1>11, <1>14, Regroup
  <1>16. PICK t3 : Joins(s, t2, t3) /\ Joins(ae, t3, all2)
    BY <1>10, <1>14, Regroup
  <1>17. PICK t4 : Joins(e, t3, t4) /\ Joins(a, t4, all2)
    BY <1>9, <1>16, Regroup
  <1>18. IsBytes(all) /\ Len(all) >= 12
    <2>1. Len(ae) = Len(a) + Len(e) /\ Len(aes) = Len(ae) + Len(s)
      BY <1>9, <1>10, Joined
    <2>2. Len(np) = Len(n) + Len(p) /\ Len(all) = Len(aes) + Len(np) /\ Len(p) \in Nat
      BY <1>11, <1>12, Joined
    <2>3. IsBytes(all)
      BY <1>12, Joined
    <2> QED BY <1>5, <1>6, <2>1, <2>2, <2>3
  <1>19. /\ Number(Got(v, all2), 4) = Got(k.alg, t4)
         /\ Number(Got(k.alg, t4), 2) = Got(k.enc, t3)
         /\ Number(Got(k.enc, t3), 2) = Got(k.sig, t2)
         /\ Number(Got(k.sig, t2), 4) = Got(Len(p), t1)
         /\ Area(Got(Len(p), t1), Len(p)) = Got(p, more)
    <2>1. Number(Got(v, all2), 4) = Got(k.alg, t4)
      BY <1>41, <1>17, NumberRead
    <2>2. Number(Got(k.alg, t4), 2) = Got(k.enc, t3)
      BY <1>41, <1>17, NumberRead
    <2>3. Number(Got(k.enc, t3), 2) = Got(k.sig, t2)
      BY <1>41, <1>16, NumberRead
    <2>4. Number(Got(k.sig, t2), 4) = Got(Len(p), t1)
      BY <1>42, <1>15, NumberRead
    <2>5. Area(Got(Len(p), t1), Len(p)) = Got(p, more)
      BY <1>15, AreaJoins, Zenon
    <2> QED BY <2>1, <2>2, <2>3, <2>4, <2>5, Zenon
  <1>20. KeyParms(Got(v, all2))
            = Got([alg |-> k.alg, enc |-> k.enc, sig |-> k.sig, rsa |-> k.rsa,
                   sym |-> k.sym], more)
    <2>1. PICK r1, r2, r3, r4, r5 :
            /\ r1 = Got(k.alg, t4) /\ r2 = Got(k.enc, t3) /\ r3 = Got(k.sig, t2)
            /\ r4 = Got(Len(p), t1) /\ r5 = Got(p, more)
      OBVIOUS
    <2>2. /\ r1.got = k.alg /\ r2.got = k.enc /\ r3.got = k.sig /\ r4.got = Len(p)
          /\ r5.ok /\ r5.got = p /\ r5.rest = more
      BY <2>1 DEF Got
    <2>3. /\ Number(Got(v, all2), 4) = r1
          /\ Number(r1, 2) = r2 /\ Number(r2, 2) = r3 /\ Number(r3, 4) = r4
          /\ Area(r4, Len(p)) = r5
      BY <1>19, <2>1, Zenon
    <2> QED BY <1>1, <1>3, <2>2, <2>3 DEF KeyParms, KeyParmsOf
  <1> QED BY <1>1, <1>13, <1>18, <1>20 DEF all, IsBytes

\* What is behind two parts: the second, and the rest behind it.
LEMMA Split ==
    ASSUME NEW x, NEW y, IsBytes(x), IsBytes(y), NEW t, NEW all, Joins(x \o y, t, all)
    PROVE  \E u : Joins(x, u, all) /\ Joins(y, t, u)
  <1>1. Joins(x, y, x \o y)
    BY Joining
  <1>2. \E u : Joins(y, t, u) /\ Joins(x, u, all)
    BY <1>1, Regroup, Zenon
  <1> QED BY <1>2

\* Two parts are as long as both.
LEMMA ConcatIsBytes ==
    ASSUME NEW x, NEW y, IsBytes(x), IsBytes(y)
    PROVE  /\ IsBytes(x \o y) /\ Len(x \o y) = Len(x) + Len(y)
           /\ Len(x) \in Nat /\ Len(y) \in Nat
  BY Joining, Joined

\* A number that is not zero in front is read.
LEMMA NonZeroRead ==
    ASSUME NEW n, NEW x, IsNumber(4, n, x), n # 0, NEW more, NEW all,
           Joins(x, more, all), NEW v
    PROVE  NonZero(Number(Got(v, all), 4)) = Got(n, more)
  <1>1. Number(Got(v, all), 4) = Got(n, more)
    BY NumberRead
  <1>2. NonZero(Got(n, more)) = Got(n, more)
    BY DEF NonZero, Got
  <1> QED BY <1>1, <1>2

\* x is TPM_KEY_PARMS as they are written.
IsKeyParms(k, x) == k \in KeyParmsValues /\ x = SerializeKeyParms(k)

\* TPM_KEY_PARMS have at least twelve bytes.
LEMMA KeyParmsAreBytes ==
    ASSUME NEW k, NEW x, IsKeyParms(k, x)
    PROVE  IsBytes(x) /\ Len(x) >= 12
  <1>1. k \in KeyParmsValues /\ x = SerializeKeyParms(k) /\ <<>> \in Seq(Byte)
    BY DEF IsKeyParms
  <1> QED BY <1>1, KeyParmsSurvive DEF IsBytes

\* TPM_KEY_PARMS in front are read, whatever is behind.
LEMMA KeyParmsRead ==
    ASSUME NEW k, NEW x, IsKeyParms(k, x), NEW more, NEW all, Joins(x, more, all), NEW v
    PROVE  KeyParms(Got(v, all)) = Got(k, more)
  <1>1. k \in KeyParmsValues /\ x = SerializeKeyParms(k)
    BY DEF IsKeyParms
  <1>2. more \in Seq(Byte) /\ all = SerializeKeyParms(k) \o more
    BY <1>1, Zenon DEF Joins, IsBytes
  <1> QED BY <1>1, <1>2, KeyParmsSurvive, Zenon

\* Four bytes show the size of a blob.
LEMMA BlobIs ==
    ASSUME NEW b \in Filled
    PROVE  IsBytes(b) /\ Len(b) # 0 /\ IsNumber(4, Len(b), BigEndian(4, Len(b)))
  BY WordFits DEF IsBytes, IsNumber

\* Twelve bytes are not none.
LEMMA NotEmpty ==
    ASSUME NEW x, IsBytes(x), Len(x) >= 12
    PROVE  x # <<>>
  BY DEF IsBytes

\* x is TPM_PUBKEY as it is written.
IsPubKey(p, x) == p \in PubKeyValues /\ x = SerializePubKey(p)

\* What TPM_PUBKEY is made of.
LEMMA PubKeyParts ==
    ASSUME NEW p, NEW x, IsPubKey(p, x)
    PROVE  /\ IsKeyParms(p.parms, SerializeKeyParms(p.parms))
           /\ IsNumber(4, p.keyLength, BigEndian(4, p.keyLength))
           /\ p.keyLength # 0 /\ p.keyLength = Len(p.key) /\ IsBytes(p.key)
           /\ p = [parms |-> p.parms, keyLength |-> p.keyLength, key |-> p.key]
           /\ x = SerializeKeyParms(p.parms) \o (BigEndian(4, p.keyLength) \o p.key)
  <1>1. /\ p.parms \in KeyParmsValues /\ p.key \in Filled /\ p.keyLength = Len(p.key)
        /\ p = [parms |-> p.parms, keyLength |-> p.keyLength, key |-> p.key]
        /\ x = SerializePubKey(p)
    BY Zenon DEF IsPubKey, PubKeyValues
  <1>2. IsKeyParms(p.parms, SerializeKeyParms(p.parms))
    BY <1>1 DEF IsKeyParms
  <1>3. IsBytes(p.key) /\ Len(p.key) # 0 /\ IsNumber(4, Len(p.key), BigEndian(4, Len(p.key)))
    BY <1>1, BlobIs
  <1>4. SerializeKeyParms(p.parms) # <<>>
    BY <1>2, KeyParmsAreBytes, NotEmpty
  <1>5. x = SerializeKeyParms(p.parms) \o (BigEndian(4, p.keyLength) \o p.key)
    BY <1>1, <1>4 DEF SerializePubKey, SerializeStorePubKey, Then
  <1> QED BY <1>1, <1>2, <1>3, <1>5

\* TPM_PUBKEY is written as bytes, and never fails.
LEMMA PubKeyIsBytes ==
    ASSUME NEW p, NEW x, IsPubKey(p, x)
    PROVE  IsBytes(x) /\ x # <<>> /\ Len(x) >= 12
  <1>1. PICK a, b : /\ a = SerializeKeyParms(p.parms) /\ b = BigEndian(4, p.keyLength)
                    /\ IsKeyParms(p.parms, a) /\ IsNumber(4, p.keyLength, b)
                    /\ IsBytes(p.key) /\ x = a \o (b \o p.key)
    BY PubKeyParts, ZenonT(40)
  <1>2. IsBytes(a) /\ Len(a) >= 12 /\ IsBytes(b)
    BY <1>1, KeyParmsAreBytes, NumberOf
  <1>3. IsBytes(b \o p.key) /\ Len(b \o p.key) \in Nat
    BY <1>1, <1>2, ConcatIsBytes DEF IsBytes
  <1>4. /\ IsBytes(x) /\ Len(x) = Len(a) + Len(b \o p.key) /\ Len(a) \in Nat
    BY <1>1, <1>2, <1>3, ConcatIsBytes
  <1>5. Len(x) >= 12
    BY <1>2, <1>3, <1>4
  <1> QED BY <1>4, <1>5, NotEmpty

\* TPM_PUBKEY in front is read, whatever is behind.
LEMMA PubKeyRead ==
    ASSUME NEW p, NEW x, IsPubKey(p, x), NEW more, NEW all, Joins(x, more, all), NEW v
    PROVE  PubKey(Got(v, all)) = Got(p, more)
  <1>1. PICK a, b, c :
            /\ a = SerializeKeyParms(p.parms) /\ b = BigEndian(4, p.keyLength) /\ c = p.key
            /\ IsKeyParms(p.parms, a) /\ IsNumber(4, p.keyLength, b) /\ p.keyLength # 0
            /\ p.keyLength = Len(c) /\ IsBytes(c) /\ x = a \o (b \o c)
            /\ p = [parms |-> p.parms, keyLength |-> p.keyLength, key |-> c]
    BY PubKeyParts
  <1>2. IsBytes(a) /\ IsBytes(b) /\ IsBytes(b \o c)
    BY <1>1, KeyParmsAreBytes, NumberOf, ConcatIsBytes
  <1>3. PICK t : Joins(a, t, all) /\ Joins(b \o c, more, t)
    BY <1>1, <1>2, Split
  <1>4. PICK u : Joins(b, u, t) /\ Joins(c, more, u)
    BY <1>1, <1>2, <1>3, Split
  <1>5. KeyParms(Got(v, all)) = Got(p.parms, t)
    BY <1>1, <1>3, KeyParmsRead
  <1>6. NonZero(Number(Got(p.parms, t), 4)) = Got(p.keyLength, u)
    <2>1. PICK n : n = p.keyLength /\ IsNumber(4, n, b) /\ n # 0
      BY <1>1
    <2>2. NonZero(Number(Got(p.parms, t), 4)) = Got(n, u)
      BY <1>4, <2>1, NonZeroRead
    <2> QED BY <2>1, <2>2
  <1>7. Area(Got(p.keyLength, u), p.keyLength) = Got(c, more)
    BY <1>1, <1>4, AreaJoins
  <1>8. PICK r1, r2, r3 :
            r1 = Got(p.parms, t) /\ r2 = Got(p.keyLength, u) /\ r3 = Got(c, more)
    OBVIOUS
  <1>8a. /\ r1.got = p.parms /\ r2.got = p.keyLength /\ r3.ok /\ r3.got = c
         /\ r3.rest = more
    BY <1>8 DEF Got
  <1>9. /\ KeyParms(Got(v, all)) = r1 /\ NonZero(Number(r1, 4)) = r2
        /\ Area(r2, p.keyLength) = r3
    BY <1>5, <1>6, <1>7, <1>8, Zenon
  <1>10. PubKey(Got(v, all)) = Got([parms |-> p.parms, keyLength |-> p.keyLength, key |-> c], more)
    BY <1>8a, <1>9 DEF PubKey, PubKeyOf
  <1> QED BY <1>1, <1>10

\* What a reader got and left.
LEMMA GotIs ==
    ASSUME NEW v, NEW rest, NEW r, r = Got(v, rest)
    PROVE  r.ok /\ r.got = v /\ r.rest = rest
  BY DEF Got

\* Nothing may be behind.
LEMMA NothingBehind ==
    ASSUME NEW x, IsBytes(x)
    PROVE  Joins(x, <<>>, x)
  BY ConcatEmptySeq DEF Joins, IsBytes

\* x is TPM_SYMMETRIC_KEY as it is written.
IsSymmetricKey(k, x) == k \in SymmetricKeyValues /\ x = SymmetricKeyBytes(k)

\* What TPM_SYMMETRIC_KEY is made of.
LEMMA SymmetricKeyParts ==
    ASSUME NEW k, NEW x, IsSymmetricKey(k, x)
    PROVE  /\ IsNumber(4, k.alg, BigEndian(4, k.alg))
           /\ IsNumber(2, k.enc, BigEndian(2, k.enc))
           /\ IsNumber(2, Len(k.key), BigEndian(2, Len(k.key)))
           /\ IsBytes(k.key) /\ Len(k.key) # 0 /\ k.alg \in AlgMap
           /\ ValidSymmetricKey(k) /\ Len(k.key) \in Short
           /\ k = [alg |-> k.alg, enc |-> k.enc, key |-> k.key]
           /\ x = (BigEndian(4, k.alg) \o BigEndian(2, k.enc))
                    \o (BigEndian(2, Len(k.key)) \o k.key)
  <1>1. /\ k.alg \in Aes /\ k.enc = CbcPkcs5 /\ k.key \in Filled /\ Len(k.key) \in Short
        /\ k = [alg |-> k.alg, enc |-> k.enc, key |-> k.key] /\ x = SymmetricKeyBytes(k)
    BY Zenon DEF IsSymmetricKey, SymmetricKeyValues
  <1>2. CbcPkcs5 \in Short
    BY SMT DEF Short, CbcPkcs5
  <1>3. Fits(4, k.alg) /\ Fits(2, k.enc) /\ Fits(2, Len(k.key)) /\ k.alg \in AlgMap
    BY <1>1, <1>2, AlgorithmsAre, WordFits
  <1>4. /\ IsNumber(4, k.alg, BigEndian(4, k.alg)) /\ IsNumber(2, k.enc, BigEndian(2, k.enc))
        /\ IsNumber(2, Len(k.key), BigEndian(2, Len(k.key)))
    BY <1>3 DEF IsNumber
  <1>5. IsBytes(k.key) /\ Len(k.key) # 0
    BY <1>1, BlobIs
  <1> QED BY <1>1, <1>3, <1>4, <1>5 DEF SymmetricKeyBytes, Sized, ValidSymmetricKey

\* TPM_SYMMETRIC_KEY is written as bytes, and never fails.
LEMMA SymmetricKeyIsBytes ==
    ASSUME NEW k, NEW x, IsSymmetricKey(k, x)
    PROVE  IsBytes(x) /\ x # <<>> /\ Len(x) = 8 + Len(k.key)
  <1>1. PICK a, b, c, key :
            /\ IsNumber(4, k.alg, a) /\ IsNumber(2, k.enc, b) /\ IsNumber(2, Len(key), c)
            /\ IsBytes(key) /\ x = (a \o b) \o (c \o key) /\ key = k.key
    BY SymmetricKeyParts
  <1>2. /\ IsBytes(a) /\ IsBytes(b) /\ IsBytes(c)
        /\ Len(a) = 4 /\ Len(b) = 2 /\ Len(c) = 2
    BY <1>1, NumberOf
  <1>3. IsBytes(a \o b) /\ Len(a \o b) = Len(a) + Len(b)
    BY <1>2, ConcatIsBytes
  <1>4. IsBytes(c \o key) /\ Len(c \o key) = 2 + Len(key) /\ Len(key) \in Nat
    BY <1>1, <1>2, ConcatIsBytes
  <1>5. IsBytes(x) /\ Len(x) = Len(a \o b) + Len(c \o key)
    BY <1>1, <1>3, <1>4, ConcatIsBytes
  <1>6. PICK n \in Nat : n = Len(key) /\ n = Len(k.key)
    BY <1>1, <1>4
  <1>7. Len(x) = 8 + n /\ 8 + n # 0
    BY <1>2, <1>3, <1>4, <1>5, <1>6
  <1> QED BY <1>5, <1>6, <1>7

\* TPM_SYMMETRIC_KEY in front is read, whatever is behind.
LEMMA SymmetricKeyRead ==
    ASSUME NEW k, NEW x, IsSymmetricKey(k, x), NEW more, NEW all, Joins(x, more, all)
    PROVE  SymmetricKey(all) = Got(k, more)
  <1>1. PICK a, b, c, n, key :
            /\ IsNumber(4, k.alg, a) /\ IsNumber(2, k.enc, b) /\ IsNumber(2, n, c)
            /\ IsBytes(key) /\ x = (a \o b) \o (c \o key) /\ key = k.key
            /\ n = Len(key) /\ n # 0 /\ k.alg \in AlgMap
            /\ k = [alg |-> k.alg, enc |-> k.enc, key |-> key]
    BY SymmetricKeyParts
  <1>2. IsBytes(a) /\ IsBytes(b) /\ IsBytes(c)
    BY <1>1, NumberOf
  <1>3. IsBytes(a \o b) /\ IsBytes(c \o key)
    BY <1>1, <1>2, ConcatIsBytes
  <1>4. PICK t2 : Joins(a \o b, t2, all) /\ Joins(c \o key, more, t2)
    BY <1>1, <1>3, Split
  <1>5. PICK t1 : Joins(a, t1, all) /\ Joins(b, t2, t1)
    BY <1>2, <1>4, Split
  <1>6. PICK t3 : Joins(c, t3, t2) /\ Joins(key, more, t3)
    BY <1>1, <1>2, <1>4, Split
  <1>7. Number(Got(<<>>, all), 4) = Got(k.alg, t1)
    BY <1>1, <1>5, NumberRead
  <1>8. Number(Got(k.alg, t1), 2) = Got(k.enc, t2)
    BY <1>1, <1>5, NumberRead
  <1>9. NonZero(Number(Got(k.enc, t2), 2)) = Got(n, t3)
    <2>1. Number(Got(k.enc, t2), 2) = Got(n, t3)
      BY <1>1, <1>6, NumberRead
    <2> QED BY <1>1, <2>1, GotIs DEF NonZero
  <1>10. Area(Got(n, t3), n) = Got(key, more)
    BY <1>1, <1>6, AreaJoins
  <1>11. PICK r1, r2, r3, r4 :
            /\ r1 = Got(k.alg, t1) /\ r2 = Got(k.enc, t2) /\ r3 = Got(n, t3)
            /\ r4 = Got(key, more)
    OBVIOUS
  <1>12. /\ r1.got = k.alg /\ r2.got = k.enc /\ r3.got = n
         /\ r4.ok /\ r4.got = key /\ r4.rest = more
    BY <1>11 DEF Got
  <1>13. /\ Number(Reader(all), 4) = r1 /\ Number(r1, 2) = r2
         /\ NonZero(Number(r2, 2)) = r3 /\ Area(r3, n) = r4
    BY <1>7, <1>8, <1>9, <1>10, <1>11, Zenon DEF Reader
  <1>14. SymmetricKey(all) = Got([alg |-> k.alg, enc |-> k.enc, key |-> key], more)
    BY <1>1, <1>12, <1>13 DEF SymmetricKey
  <1> QED BY <1>1, <1>14

\* A symmetric key comes back.
LEMMA SymmetricKeySurvives ==
    ASSUME NEW k \in SymmetricKeyValues
    PROVE  /\ SerializeSymmetricKey(k) = SymmetricKeyBytes(k)
           /\ ParseSymmetricKey(SerializeSymmetricKey(k)) = <<k>>
  <1>1. PICK x : IsSymmetricKey(k, x) /\ x = SymmetricKeyBytes(k)
    BY DEF IsSymmetricKey
  <1>2. SerializeSymmetricKey(k) = x
    BY <1>1, SymmetricKeyParts DEF SerializeSymmetricKey
  <1>3. Joins(x, <<>>, x)
    BY <1>1, SymmetricKeyIsBytes, NothingBehind
  <1>4. SymmetricKey(x) = Got(k, <<>>)
    BY <1>1, <1>3, SymmetricKeyRead
  <1>5. ParseSymmetricKey(x) = <<k>>
    BY <1>4 DEF ParseSymmetricKey, Exactly, Got
  <1> QED BY <1>1, <1>2, <1>5

\* TPM_ASYM_CA_CONTENTS is read as it was written.
LEMMA ContentsRead ==
    ASSUME NEW k \in SymmetricKeyValues, NEW digest \in Seq(Byte), Len(digest) = 20
    PROVE  /\ SymmetricKeyBytes(k) \o digest \in Seq(Byte)
           /\ SymmetricKeyBytes(k) # <<>>
           /\ ReadAsymCAContents(SymmetricKeyBytes(k) \o digest)
                = <<[key |-> k, digest |-> digest]>>
  <1>1. PICK x : IsSymmetricKey(k, x) /\ x = SymmetricKeyBytes(k)
    BY DEF IsSymmetricKey
  <1>2. IsBytes(x) /\ x # <<>> /\ IsBytes(digest)
    BY <1>1, SymmetricKeyIsBytes DEF IsBytes
  <1>3. PICK all : all = x \o digest
    OBVIOUS
  <1>4. Joins(x, digest, all) /\ IsBytes(all)
    BY <1>2, <1>3, Joining, Joined
  <1>5. SymmetricKey(all) = Got(k, digest)
    BY <1>1, <1>4, SymmetricKeyRead
  <1>6. ReadAsymCAContents(all) = <<[key |-> k, digest |-> digest]>>
    BY <1>5 DEF ReadAsymCAContents, Got
  <1> QED BY <1>1, <1>2, <1>3, <1>4, <1>6 DEF IsBytes

-----------------------------------------------------------------------------
(* Requests, contents, attestations and proofs.                            *)

\* x is TPM_IDENTITY_REQ as it is written.
IsIdentityRequest(q, x) == q \in IdentityRequestValues /\ x = IdentityRequestBytes(q)

\* What TPM_IDENTITY_REQ is made of.
LEMMA IdentityRequestParts ==
    ASSUME NEW q, NEW x, IsIdentityRequest(q, x)
    PROVE  /\ IsNumber(4, Len(q.asymBlob), BigEndian(4, Len(q.asymBlob)))
           /\ IsNumber(4, Len(q.symBlob), BigEndian(4, Len(q.symBlob)))
           /\ Len(q.asymBlob) # 0 /\ Len(q.symBlob) # 0
           /\ IsKeyParms(q.asym, SerializeKeyParms(q.asym))
           /\ IsKeyParms(q.sym, SerializeKeyParms(q.sym))
           /\ IsBytes(q.asymBlob) /\ IsBytes(q.symBlob)
           /\ q = [asym |-> q.asym, sym |-> q.sym, asymBlob |-> q.asymBlob,
                   symBlob |-> q.symBlob]
           /\ x = ((((BigEndian(4, Len(q.asymBlob)) \o BigEndian(4, Len(q.symBlob)))
                    \o SerializeKeyParms(q.asym)) \o SerializeKeyParms(q.sym))
                    \o q.asymBlob) \o q.symBlob
  <1>1. /\ q.asym \in KeyParmsValues /\ q.sym \in KeyParmsValues
        /\ q.asymBlob \in Filled /\ q.symBlob \in Filled
        /\ q = [asym |-> q.asym, sym |-> q.sym, asymBlob |-> q.asymBlob,
                symBlob |-> q.symBlob]
        /\ x = IdentityRequestBytes(q)
    BY Zenon DEF IsIdentityRequest, IdentityRequestValues
  <1>2. /\ IsBytes(q.asymBlob) /\ Len(q.asymBlob) # 0
        /\ IsNumber(4, Len(q.asymBlob), BigEndian(4, Len(q.asymBlob)))
    BY <1>1, BlobIs
  <1>3. /\ IsBytes(q.symBlob) /\ Len(q.symBlob) # 0
        /\ IsNumber(4, Len(q.symBlob), BigEndian(4, Len(q.symBlob)))
    BY <1>1, BlobIs
  <1>4. /\ IsKeyParms(q.asym, SerializeKeyParms(q.asym))
        /\ IsKeyParms(q.sym, SerializeKeyParms(q.sym))
    BY <1>1 DEF IsKeyParms
  <1> QED BY <1>1, <1>2, <1>3, <1>4, Zenon DEF IdentityRequestBytes

\* The reader that ParseIdentityRequest ends with.
BlobReader(bytes) ==
    LET asymSize == NonZero(Number(Reader(bytes), 4))
        symSize  == NonZero(Number(asymSize, 4))
        asym     == KeyParms(symSize)
        sym      == KeyParms(asym)
        asymBlob == Area(sym, asymSize.got)
    IN Area(asymBlob, symSize.got)

\* TPM_IDENTITY_REQ is read to its end, and accepted if zeros are behind it.
LEMMA RequestRead ==
    ASSUME NEW q, NEW x, IsIdentityRequest(q, x), NEW more, NEW all, Joins(x, more, all)
    PROVE  /\ BlobReader(all) = Got(q.symBlob, more)
           /\ Zeros(more) => ParseIdentityRequest(all) = <<q>>
  <1>0. PICK a, b, c, d, m, n, e, f :
            /\ a = BigEndian(4, Len(q.asymBlob)) /\ b = BigEndian(4, Len(q.symBlob))
            /\ c = SerializeKeyParms(q.asym) /\ d = SerializeKeyParms(q.sym)
            /\ m = Len(q.asymBlob) /\ n = Len(q.symBlob)
            /\ e = q.asymBlob /\ f = q.symBlob
    OBVIOUS
  <1>1.     /\ m = Len(e) /\ n = Len(f)
            /\ IsNumber(4, m, a) /\ IsNumber(4, n, b) /\ m # 0 /\ n # 0
            /\ IsKeyParms(q.asym, c) /\ IsKeyParms(q.sym, d)
            /\ IsBytes(e) /\ IsBytes(f)
            /\ q = [asym |-> q.asym, sym |-> q.sym, asymBlob |-> e, symBlob |-> f]
            /\ x = ((((a \o b) \o c) \o d) \o e) \o f
    BY <1>0, IdentityRequestParts
  <1>2. IsBytes(a) /\ IsBytes(b) /\ IsBytes(c) /\ IsBytes(d)
    BY <1>1, NumberOf, KeyParmsAreBytes
  <1>3. PICK ab, abc, abcd, abcde :
            /\ ab = a \o b /\ abc = ab \o c /\ abcd = abc \o d /\ abcde = abcd \o e
            /\ x = abcde \o f
    BY <1>1, Zenon
  <1>4. IsBytes(ab) /\ IsBytes(abc) /\ IsBytes(abcd) /\ IsBytes(abcde)
    <2>1. IsBytes(ab)
      BY <1>2, <1>3, ConcatIsBytes
    <2>2. IsBytes(abc)
      BY <1>2, <1>3, <2>1, ConcatIsBytes
    <2>3. IsBytes(abcd)
      BY <1>2, <1>3, <2>2, ConcatIsBytes
    <2> QED BY <1>1, <1>3, <2>1, <2>2, <2>3, ConcatIsBytes
  <1>5. PICK t5 : Joins(abcde, t5, all) /\ Joins(f, more, t5)
    BY <1>1, <1>3, <1>4, Split
  <1>6. PICK t4 : Joins(abcd, t4, all) /\ Joins(e, t5, t4)
    BY <1>1, <1>3, <1>4, <1>5, Split
  <1>7. PICK t3 : Joins(abc, t3, all) /\ Joins(d, t4, t3)
    BY <1>2, <1>3, <1>4, <1>6, Split
  <1>8. PICK t2 : Joins(ab, t2, all) /\ Joins(c, t3, t2)
    BY <1>2, <1>3, <1>4, <1>7, Split
  <1>9. PICK t1 : Joins(a, t1, all) /\ Joins(b, t2, t1)
    BY <1>2, <1>3, <1>8, Split
  <1>10. PICK r1, r2, r3, r4, r5, r6 :
            /\ r1 = Got(m, t1) /\ r2 = Got(n, t2) /\ r3 = Got(q.asym, t3)
            /\ r4 = Got(q.sym, t4) /\ r5 = Got(e, t5) /\ r6 = Got(f, more)
    OBVIOUS
  <1>11. /\ r1.got = m /\ r2.got = n /\ r3.got = q.asym /\ r4.got = q.sym
         /\ r5.got = e /\ r6.ok /\ r6.got = f /\ r6.rest = more
    BY <1>10 DEF Got
  <1>12. NonZero(Number(Reader(all), 4)) = r1
    <2>1. NonZero(Number(Got(<<>>, all), 4)) = Got(m, t1)
      BY <1>1, <1>9, NonZeroRead, ZenonT(40)
    <2> QED BY <1>10, <2>1, Zenon DEF Reader
  <1>13. NonZero(Number(r1, 4)) = r2
    BY <1>1, <1>9, <1>10, NonZeroRead
  <1>14. KeyParms(r2) = r3
    BY <1>1, <1>8, <1>10, KeyParmsRead
  <1>15. KeyParms(r3) = r4
    BY <1>1, <1>7, <1>10, KeyParmsRead
  <1>16. Area(r4, m) = r5
    BY <1>1, <1>6, <1>10, AreaJoins
  <1>17. Area(r5, n) = r6
    BY <1>1, <1>5, <1>10, AreaJoins
  <1>18. ASSUME Zeros(more)
         PROVE  ParseIdentityRequest(all)
                  = <<[asym |-> q.asym, sym |-> q.sym, asymBlob |-> e, symBlob |-> f]>>
    BY <1>11, <1>12, <1>13, <1>14, <1>15, <1>16, <1>17, <1>18 DEF ParseIdentityRequest, IdentityRequest
  <1>19. BlobReader(all) = r6
    BY <1>11, <1>12, <1>13, <1>14, <1>15, <1>16, <1>17 DEF BlobReader
  <1> QED BY <1>0, <1>1, <1>10, <1>18, <1>19

\* TPM_IDENTITY_REQ is read as it was written, with zeros behind it.
LEMMA IdentityRequestRead ==
    ASSUME NEW q, NEW x, IsIdentityRequest(q, x), NEW more, NEW all,
           Joins(x, more, all), Zeros(more)
    PROVE  ParseIdentityRequest(all) = <<q>>
  BY RequestRead

\* TPM_IDENTITY_REQ is written as bytes.
LEMMA IdentityRequestIsBytes ==
    ASSUME NEW q, NEW x, IsIdentityRequest(q, x)
    PROVE  IsBytes(x)
  <1>0. PICK a, b, c, d, e, f :
            /\ a = BigEndian(4, Len(q.asymBlob)) /\ b = BigEndian(4, Len(q.symBlob))
            /\ c = SerializeKeyParms(q.asym) /\ d = SerializeKeyParms(q.sym)
            /\ e = q.asymBlob /\ f = q.symBlob
    OBVIOUS
  <1>1.     /\ IsNumber(4, Len(q.asymBlob), a) /\ IsNumber(4, Len(q.symBlob), b)
            /\ IsKeyParms(q.asym, c) /\ IsKeyParms(q.sym, d)
            /\ IsBytes(e) /\ IsBytes(f)
            /\ x = ((((a \o b) \o c) \o d) \o e) \o f
    BY <1>0, IdentityRequestParts
  <1>2. IsBytes(a) /\ IsBytes(b) /\ IsBytes(c) /\ IsBytes(d)
    BY <1>1, NumberOf, KeyParmsAreBytes
  <1>3. IsBytes(a \o b)
    BY <1>2, ConcatIsBytes
  <1>4. IsBytes((a \o b) \o c)
    BY <1>2, <1>3, ConcatIsBytes
  <1>5. IsBytes(((a \o b) \o c) \o d)
    BY <1>2, <1>4, ConcatIsBytes
  <1>6. IsBytes((((a \o b) \o c) \o d) \o e)
    BY <1>1, <1>5, ConcatIsBytes
  <1> QED BY <1>1, <1>6, ConcatIsBytes

\* x is TPM_SYM_CA_ATTESTATION as it is written.
IsAttestation(a, x) ==
    /\ a.parms \in KeyParmsValues /\ a.credential \in Filled
    /\ a = [parms |-> a.parms, credential |-> a.credential]
    /\ x = SerializeSymCAAttestation(a)

\* TPM_SYM_CA_ATTESTATION is read as it was written.
LEMMA AttestationRead ==
    ASSUME NEW a, NEW x, IsAttestation(a, x)
    PROVE  IsBytes(x) /\ x # <<>> /\ ReadAttestation(x) = <<a>>
  <1>1. PICK n, c, s, k :
            /\ c = a.credential /\ n = Len(c) /\ s = BigEndian(4, Len(c))
            /\ k = SerializeKeyParms(a.parms)
    OBVIOUS
  <1>2. /\ IsKeyParms(a.parms, k) /\ IsBytes(c) /\ IsNumber(4, n, s)
        /\ a = [parms |-> a.parms, credential |-> c]
    BY <1>1, BlobIs DEF IsAttestation, IsKeyParms
  <1>3. IsBytes(k) /\ Len(k) >= 12 /\ k # <<>> /\ IsBytes(s)
    BY <1>2, KeyParmsAreBytes, NotEmpty, NumberOf
  <1>4. x = (s \o k) \o c
    BY <1>1, <1>3 DEF IsAttestation, SerializeSymCAAttestation
  <1>5. IsBytes(s \o k) /\ Len(s \o k) = Len(s) + Len(k) /\ Len(s) \in Nat /\ Len(k) \in Nat
    BY <1>3, ConcatIsBytes
  <1>6. /\ IsBytes(x) /\ Len(x) = Len(s \o k) + Len(c) /\ Len(c) \in Nat
        /\ Joins(s \o k, c, x)
    BY <1>2, <1>4, <1>5, ConcatIsBytes, Joining
  <1>7. x # <<>>
    <2>1. Len(x) >= 12
      BY <1>3, <1>5, <1>6
    <2> QED BY <1>6, <2>1, NotEmpty
  <1>8. PICK t : Joins(s, t, x) /\ Joins(k, c, t)
    BY <1>3, <1>6, Split
  <1>9. Joins(c, <<>>, c)
    BY <1>2, NothingBehind
  <1>10. PICK r1, r2, r3 :
            r1 = Got(n, t) /\ r2 = Got(a.parms, c) /\ r3 = Got(c, <<>>)
    OBVIOUS
  <1>11. /\ r1.got = n /\ r2.got = a.parms /\ r3.ok /\ r3.got = c /\ r3.rest = <<>>
    BY <1>10 DEF Got
  <1>12. Number(Reader(x), 4) = r1
    <2>1. Number(Got(<<>>, x), 4) = Got(n, t)
      BY <1>2, <1>8, NumberRead
    <2> QED BY <1>10, <2>1, Zenon DEF Reader
  <1>13. KeyParms(r1) = r2
    BY <1>2, <1>8, <1>10, KeyParmsRead
  <1>14. Area(r2, n) = r3
    BY <1>1, <1>9, <1>10, AreaJoins
  <1>15. ReadAttestation(x) = <<[parms |-> a.parms, credential |-> c]>>
    BY <1>11, <1>12, <1>13, <1>14 DEF ReadAttestation, Exactly
  <1> QED BY <1>2, <1>6, <1>7, <1>15

\* Blobs are areas whose sizes four bytes show.
LEMMA BlobAreas ==
    ASSUME NEW n \in Nat, NEW areas \in Seq(Blob), Len(areas) = n
    PROVE  AreaList(n, areas)
  <1>1. \A i \in 1..n : areas[i] \in Blob
    OBVIOUS
  <1>2. Blob \subseteq Seq(Byte)
    BY Zenon DEF Blob
  <1>3. areas \in Seq(Seq(Byte))
    <2> DEFINE S == Seq(Byte)
    <2>1. Blob \subseteq S
      BY <1>2
    <2> HIDE DEF S
    <2>2. areas \in Seq(S)
      BY <1>1, <2>1
    <2> QED BY <2>2 DEF S
  <1>4. \A i \in 1..n : Fits(4, Len(areas[i]))
    BY <1>1, WordFits
  <1> QED BY <1>3, <1>4 DEF AreaList

\* x is the sizes of areas, or the areas, as they are written.
IsSizes(n, areas, x) == AreaList(n, areas) /\ x = Sizes(areas)

\* As IsSizes, of the areas themselves.
IsAreas(n, areas, x) == AreaList(n, areas) /\ x = FlattenSeq(areas)

\* The sizes of areas.
LengthsOf(n, areas) == [i \in 1..n |-> Len(areas[i])]

\* No bytes are bytes too.
LEMMA NothingIsBytes == <<>> \in Seq(Byte)
  OBVIOUS

\* Sizes in front are read, whatever is behind.
LEMMA SizesRead ==
    ASSUME NEW n, NEW areas, NEW x, IsSizes(n, areas, x)
    PROVE  /\ IsBytes(x)
           /\ \A more, all, v :
                Joins(x, more, all) => Numbers(Got(v, all), n) = Got(LengthsOf(n, areas), more)
  <1>1. AreaList(n, areas) /\ x = Sizes(areas)
    BY DEF IsSizes
  <1>2. IsBytes(x)
    BY <1>1, NothingIsBytes, ReadNumbers DEF IsBytes
  <1>3. ASSUME NEW more, NEW all, NEW v, Joins(x, more, all)
        PROVE  Numbers(Got(v, all), n) = Got(LengthsOf(n, areas), more)
    <2>1. more \in Seq(Byte) /\ all = Sizes(areas) \o more
      BY <1>1, <1>3, Zenon DEF Joins, IsBytes
    <2>2. Numbers(Got(v, Sizes(areas) \o more), n) = Got([i \in 1..n |-> Len(areas[i])], more)
      BY <1>1, <2>1, ReadNumbers, SMTT(30)
    <2> QED BY <2>1, <2>2, Zenon DEF LengthsOf
  <1> QED BY <1>2, <1>3

\* Areas in front are read by their sizes, whatever is behind.
LEMMA AreasRead ==
    ASSUME NEW n, NEW areas, NEW x, IsAreas(n, areas, x)
    PROVE  /\ IsBytes(x)
           /\ \A more, all, v :
                Joins(x, more, all) => Areas(Got(v, all), LengthsOf(n, areas)) = Got(areas, more)
  <1>1. AreaList(n, areas) /\ x = FlattenSeq(areas)
    BY DEF IsAreas
  <1>2. IsBytes(x)
    BY <1>1, NothingIsBytes, ReadAreas DEF IsBytes
  <1>3. ASSUME NEW more, NEW all, NEW v, Joins(x, more, all)
        PROVE  Areas(Got(v, all), LengthsOf(n, areas)) = Got(areas, more)
    <2>1. more \in Seq(Byte) /\ all = FlattenSeq(areas) \o more
      BY <1>1, <1>3, Zenon DEF Joins, IsBytes
    <2>2. Areas(Got(v, FlattenSeq(areas) \o more), [i \in 1..n |-> Len(areas[i])])
            = Got(areas, more)
      BY <1>1, <2>1, ReadAreas, Zenon
    <2> QED BY <2>1, <2>2, Zenon DEF LengthsOf
  <1> QED BY <1>2, <1>3

\* The version has four bytes.
LEMMA VersionIsBytes == IsBytes(Version) /\ Len(Version) = 4
  <1>1. 0 \in Byte /\ 1 \in Byte
    BY DEF Byte
  <1> QED BY <1>1 DEF Version, IsBytes

\* x is TPM_IDENTITY_PROOF as it is written.
IsIdentityProof(p, x) == p \in IdentityProofValues /\ x = IdentityProofBytes(p)

\* What TPM_IDENTITY_PROOF is made of.
LEMMA IdentityProofParts ==
    ASSUME NEW p, NEW x, IsIdentityProof(p, x)
    PROVE  /\ IsSizes(5, p.areas, Sizes(p.areas))
           /\ IsPubKey(p.aik, SerializePubKey(p.aik))
           /\ IsAreas(5, p.areas, FlattenSeq(p.areas))
           /\ LengthsOf(5, p.areas)[2] # 0
           /\ p = [aik |-> p.aik, areas |-> p.areas]
           /\ x = ((Version \o Sizes(p.areas)) \o SerializePubKey(p.aik)) \o FlattenSeq(p.areas)
  <1>1. /\ p.aik \in PubKeyValues /\ p.areas \in Seq(Blob) /\ Len(p.areas) = 5
        /\ p.areas[2] # <<>> /\ p = [aik |-> p.aik, areas |-> p.areas]
        /\ x = IdentityProofBytes(p)
    BY Zenon DEF IsIdentityProof, IdentityProofValues
  <1>2. AreaList(5, p.areas)
    BY <1>1, BlobAreas
  <1>3. LengthsOf(5, p.areas)[2] # 0
    <2>1. 2 \in 1..5 /\ p.areas[2] \in Blob
      BY <1>1
    <2>2. Len(p.areas[2]) # 0
      BY <1>1, <2>1, WordFits, EmptySeq DEF Filled
    <2>3. LengthsOf(5, p.areas)[2] = Len(p.areas[2])
      BY <2>1 DEF LengthsOf
    <2> QED BY <2>2, <2>3
  <1> QED BY <1>1, <1>2, <1>3 DEF IsSizes, IsAreas, IsPubKey, IdentityProofBytes

\* TPM_IDENTITY_PROOF is written as bytes.
LEMMA IdentityProofIsBytes ==
    ASSUME NEW p, NEW x, IsIdentityProof(p, x)
    PROVE  IsBytes(x) /\ Len(x) >= 12
  <1>0. PICK b, c, d :
            b = Sizes(p.areas) /\ c = SerializePubKey(p.aik) /\ d = FlattenSeq(p.areas)
    OBVIOUS
  <1>1. /\ IsSizes(5, p.areas, b) /\ IsPubKey(p.aik, c) /\ IsAreas(5, p.areas, d)
        /\ x = ((Version \o b) \o c) \o d
    BY <1>0, IdentityProofParts
  <1>2. IsBytes(b) /\ IsBytes(c) /\ Len(c) >= 12 /\ IsBytes(d)
    BY <1>1, SizesRead, AreasRead, PubKeyIsBytes
  <1>3. IsBytes(Version \o b) /\ Len(Version \o b) \in Nat
    BY <1>2, VersionIsBytes, ConcatIsBytes DEF IsBytes
  <1>4. /\ IsBytes((Version \o b) \o c)
        /\ Len((Version \o b) \o c) = Len(Version \o b) + Len(c) /\ Len(c) \in Nat
    BY <1>2, <1>3, ConcatIsBytes
  <1>5. /\ IsBytes(x) /\ Len(x) = Len((Version \o b) \o c) + Len(d) /\ Len(d) \in Nat
    BY <1>1, <1>2, <1>4, ConcatIsBytes
  <1> QED BY <1>2, <1>3, <1>4, <1>5

\* TPM_IDENTITY_PROOF is read as it was written.
LEMMA IdentityProofRead ==
    ASSUME NEW p, NEW x, IsIdentityProof(p, x)
    PROVE  ParseIdentityProof(x) = <<p>>
  <1>0. PICK b, c, d :
            b = Sizes(p.areas) /\ c = SerializePubKey(p.aik) /\ d = FlattenSeq(p.areas)
    OBVIOUS
  <1>1. /\ IsSizes(5, p.areas, b) /\ IsPubKey(p.aik, c) /\ IsAreas(5, p.areas, d)
        /\ LengthsOf(5, p.areas)[2] # 0
        /\ p = [aik |-> p.aik, areas |-> p.areas]
        /\ x = ((Version \o b) \o c) \o d
    BY <1>0, IdentityProofParts
  <1>2. IsBytes(b) /\ IsBytes(c) /\ IsBytes(d)
    BY <1>1, SizesRead, AreasRead, PubKeyIsBytes
  <1>3. IsBytes(Version) /\ IsBytes(Version \o b)
    BY <1>2, VersionIsBytes, ConcatIsBytes
  <1>4. IsBytes((Version \o b) \o c)
    BY <1>2, <1>3, ConcatIsBytes
  <1>5. Joins((Version \o b) \o c, d, x) /\ Joins(d, <<>>, d)
    BY <1>1, <1>2, <1>4, Joining, NothingBehind
  <1>6. PICK t2 : Joins(Version \o b, t2, x) /\ Joins(c, d, t2)
    BY <1>2, <1>3, <1>5, Split
  <1>7. PICK t1 : Joins(Version, t1, x) /\ Joins(b, t2, t1)
    BY <1>2, <1>3, <1>6, Split
  <1>8. PICK s : s = LengthsOf(5, p.areas) /\ s[2] # 0
    BY <1>1
  <1>9. PICK r1, r2, r3, r4 :
            /\ r1 = Got(Version, t1) /\ r2 = Got(s, t2) /\ r3 = Got(p.aik, d)
            /\ r4 = Got(p.areas, <<>>)
    OBVIOUS
  <1>10. /\ r1.got = Version /\ r2.got = s /\ r3.got = p.aik
         /\ r4.ok /\ r4.got = p.areas /\ r4.rest = <<>>
    BY <1>9 DEF Got
  <1>11. Area(Reader(x), 4) = r1
    <2>1. Area(Got(<<>>, x), Len(Version)) = Got(Version, t1)
      BY <1>7, AreaJoins
    <2> QED BY <1>9, <2>1, VersionIsBytes DEF Reader
  <1>12. Numbers(r1, 5) = r2
    BY <1>1, <1>7, <1>8, <1>9, SizesRead
  <1>13. PubKey(r2) = r3
    BY <1>1, <1>6, <1>9, PubKeyRead
  <1>14. Areas(r3, s) = r4
    BY <1>1, <1>5, <1>8, <1>9, AreasRead
  <1>15. ParseIdentityProof(x) = <<[aik |-> p.aik, areas |-> p.areas]>>
    BY <1>8, <1>10, <1>11, <1>12, <1>13, <1>14 DEF ParseIdentityProof, Exactly, IdentityProof
  <1> QED BY <1>1, <1>15

-----------------------------------------------------------------------------
(* Digests, padding and the cipher.                                        *)

\* A sum of Sha1: of the bytes j, 20 + j, and so on.
SumOf(bytes, j, n, g) ==
    g = [i \in 0..n |-> IF i = 0 THEN (Len(bytes) + j) % 256
                        ELSE (3 * g[i - 1] + bytes[20 * (i - 1) + j]) % 256]

\* How many bytes Sha1 sums at a place.
Rows(bytes, j) == (Len(bytes) + 20 - j) \div 20

\* The bytes that a byte of the digest depends on are there.
LEMMA RowsAre ==
    ASSUME NEW bytes \in Seq(Byte), NEW j \in 1..20
    PROVE  /\ Rows(bytes, j) \in Nat
           /\ \A i \in 1..Rows(bytes, j) : 20 * (i - 1) + j \in 1..Len(bytes)
  <1>1. PICK l \in Nat : l = Len(bytes)
    OBVIOUS
  <1>2. PICK n : n = (l + 20 - j) \div 20
    OBVIOUS
  <1>3. n \in Nat /\ 20 * n <= l + 20 - j
    BY SMT, <1>2
  <1>4. \A i \in 1..n : 20 * (i - 1) + j \in 1..l
    BY SMT, <1>3
  <1> QED BY <1>1, <1>2, <1>3, <1>4 DEF Rows

\* A number modulo 256 is a byte.
LEMMA Modulo256 == \A n \in Int : n % 256 \in Byte
  <1>1. \A n \in Int : n % 256 \in 0..255
    BY SMT
  <1> QED BY <1>1 DEF Byte

\* A byte of the digest is a byte.
LEMMA SumIsByte ==
    ASSUME NEW bytes \in Seq(Byte), NEW j \in 1..20
    PROVE  (CHOOSE g : SumOf(bytes, j, Rows(bytes, j), g))[Rows(bytes, j)] \in Byte
  <1>1. PICK n : n = Rows(bytes, j)
    OBVIOUS
  <1>2. n \in Nat /\ \A i \in 1..n : 20 * (i - 1) + j \in 1..Len(bytes)
    BY <1>1, RowsAre
  <1>3. PICK start : start = (Len(bytes) + j) % 256
    OBVIOUS
  <1>4. start \in Byte
    <2>1. Len(bytes) + j \in Int
      OBVIOUS
    <2> QED BY <1>3, <2>1, Modulo256
  <1>5. PICK here : here = [i \in Nat |-> IF i \in 1..n THEN bytes[20 * (i - 1) + j] ELSE 0]
    OBVIOUS
  <1>6. here \in [Nat -> Byte] /\ \A i \in 1..n : here[i] = bytes[20 * (i - 1) + j]
    <2>1. 0 \in Byte
      BY DEF Byte
    <2>2. \A i \in 1..n : bytes[20 * (i - 1) + j] \in Byte
      BY <1>2
    <2> QED BY <1>5, <2>1, <2>2
  <1>7. PICK step : step = [p \in Nat \X Byte |-> (3 * p[2] + here[p[1]]) % 256]
    OBVIOUS
  <1>8. step \in [Nat \X Byte -> Byte]
    <2> SUFFICES ASSUME NEW p \in Nat \X Byte
                 PROVE  (3 * p[2] + here[p[1]]) % 256 \in Byte
      BY <1>7
    <2>1. p[2] \in Int /\ here[p[1]] \in Int
      <3>1. p[1] \in Nat /\ p[2] \in Byte
        OBVIOUS
      <3>2. here[p[1]] \in Byte
        BY <1>6, <3>1
      <3> QED BY <3>1, <3>2, ByteIs
    <2>2. 3 * p[2] + here[p[1]] \in Int
      BY <2>1
    <2> QED BY <2>2, Modulo256
  <1>9. \A i \in 1..n, b \in Byte : step[<<i, b>>] = (3 * b + bytes[20 * (i - 1) + j]) % 256
    <2> SUFFICES ASSUME NEW i \in 1..n, NEW b \in Byte
                 PROVE  step[<<i, b>>] = (3 * b + bytes[20 * (i - 1) + j]) % 256
      OBVIOUS
    <2>1. step[<<i, b>>] = (3 * b + here[i]) % 256
      BY <1>7
    <2> QED BY <1>6, <2>1
  <1>10. PICK f : Recursion(Byte, start, step, n, f)
    BY <1>2, <1>4, <1>8, RecursionExists, Zenon
  <1>11. SumOf(bytes, j, n, f)
    <2>1. f = [i \in 0..n |-> f[i]]
      BY <1>10 DEF Recursion
    <2>2. ASSUME NEW i \in 0..n
          PROVE  f[i] = IF i = 0 THEN (Len(bytes) + j) % 256
                        ELSE (3 * f[i - 1] + bytes[20 * (i - 1) + j]) % 256
      <3>1. CASE i = 0
        BY <1>3, <1>10, <3>1 DEF Recursion
      <3>2. CASE i # 0
        <4>1. i \in 1..n /\ i - 1 \in 0..n
          BY <1>2, <3>2
        <4>2. f[i] = step[<<i, f[i - 1]>>] /\ f[i - 1] \in Byte
          BY <1>10, <4>1 DEF Recursion
        <4>3. step[<<i, f[i - 1]>>] = (3 * f[i - 1] + bytes[20 * (i - 1) + j]) % 256
          BY <1>9, <4>1, <4>2, ZenonT(40)
        <4> QED BY <3>2, <4>2, <4>3
      <3> QED BY <3>1, <3>2
    <2>3. f = [i \in 0..n |-> IF i = 0 THEN (Len(bytes) + j) % 256
                              ELSE (3 * f[i - 1] + bytes[20 * (i - 1) + j]) % 256]
      BY <2>1, <2>2, ZenonT(40)
    <2> QED BY <2>3, Zenon DEF SumOf
  <1>12. PICK k : k = CHOOSE g : SumOf(bytes, j, n, g)
    OBVIOUS
  <1>13. SumOf(bytes, j, n, k)
    BY <1>11, <1>12, Zenon
  <1>14. \A i \in 0..n : k[i] = IF i = 0 THEN (Len(bytes) + j) % 256
                                ELSE (3 * k[i - 1] + bytes[20 * (i - 1) + j]) % 256
    BY <1>13, Zenon DEF SumOf
  <1>15. \A i \in 0..n : k[i] \in Byte
    <2> DEFINE S == {i \in 0..n : k[i] \in Byte}
    <2>1. 0 \in S
      <3>1. 0 \in 0..n /\ k[0] = start
        BY <1>2, <1>3, <1>14
      <3> QED BY <1>4, <3>1
    <2>2. ASSUME NEW i \in 1..n, i - 1 \in S
          PROVE  i \in S
      <3>1. i \in 0..n /\ i # 0 /\ k[i - 1] \in Byte
        BY <2>2
      <3>2. k[i] = (3 * k[i - 1] + bytes[20 * (i - 1) + j]) % 256
        BY <1>14, <3>1
      <3>3. k[i] = step[<<i, k[i - 1]>>]
        BY <1>9, <3>1, <3>2, ZenonT(40)
      <3>4. k[i] \in Byte
        BY <1>8, <3>1, <3>3
      <3> QED BY <3>1, <3>4
    <2>3. \A i \in 0..n : i \in S
      <3> HIDE DEF S
      <3> QED BY <1>2, <2>1, <2>2, InductionUpTo
    <2> QED BY <2>3
  <1>16. k[n] \in Byte
    BY <1>2, <1>15
  <1> QED BY <1>1, <1>12, <1>16

\* A digest has twenty bytes.
LEMMA Sha1IsBytes ==
    ASSUME NEW bytes \in Seq(Byte)
    PROVE  Sha1(bytes) \in Seq(Byte) /\ Len(Sha1(bytes)) = 20
  <1> DEFINE sum(j) == (CHOOSE g : SumOf(bytes, j, Rows(bytes, j), g))[Rows(bytes, j)]
  <1>1. Sha1(bytes) = [j \in 1..20 |-> sum(j)]
    BY DEF Sha1, SumOf, Rows
  <1>2. \A j \in 1..20 : sum(j) \in Byte
    BY SumIsByte
  <1> HIDE DEF sum
  <1> QED BY <1>1, <1>2

\* What pads l bytes.
PadOf(l) == BlockSize - (l % BlockSize)

\* The padding fills the last block, or one more.
LEMMA PadIs ==
    ASSUME NEW l \in Nat
    PROVE  /\ PadOf(l) \in 1..16 /\ PadOf(l) \in Byte
           /\ (l + PadOf(l)) % 16 = 0
  <1>1. PICK n : n = PadOf(l)
    OBVIOUS
  <1>2. n = 16 - (l % 16)
    BY <1>1 DEF PadOf, BlockSize
  <1>3. n \in 1..16 /\ (l + n) % 16 = 0 /\ n < 256 /\ n \in Nat
    BY SMT, <1>2
  <1> QED BY <1>1, <1>3, ByteIs

\* Padding fills a block and is taken off again.
LEMMA PaddedIs ==
    ASSUME NEW data \in Seq(Byte)
    PROVE  /\ Padded(data) \in Seq(Byte)
           /\ Len(Padded(data)) = Len(data) + PadOf(Len(data))
           /\ Unpadded(Padded(data)) = <<data>>
  <1>1. PICK l \in Nat : l = Len(data)
    OBVIOUS
  <1>2. PICK n : n = PadOf(l)
    OBVIOUS
  <1>3. n \in 1..16 /\ n \in Byte
    BY <1>2, PadIs
  <1>4. PICK pad : pad = [i \in 1..n |-> n]
    OBVIOUS
  <1>5. pad \in Seq(Byte) /\ Len(pad) = n /\ \A i \in 1..n : pad[i] = n
    BY <1>3, <1>4
  <1>6. PICK text : text = data \o pad
    OBVIOUS
  <1>7. Padded(data) = text
    BY <1>1, <1>2, <1>4, <1>6 DEF Padded, PadOf
  <1>8. /\ text \in Seq(Byte) /\ Len(text) = l + n /\ SubSeq(text, 1, l) = data
    BY <1>1, <1>5, <1>6, FrontOfConcat
  <1>9. \A i \in (l + 1)..(l + n) : text[i] = n
    <2> SUFFICES ASSUME NEW i \in (l + 1)..(l + n) PROVE text[i] = n
      OBVIOUS
    <2>1. i - l \in 1..n /\ i \in 1..(l + n) /\ i > l
      BY <1>3
    <2>2. text[i] = pad[i - l]
      BY <1>1, <1>5, <1>6, <2>1, ConcatProperties
    <2> QED BY <1>5, <2>1, <2>2
  <1>10. Last(text) = n
    <2>1. Last(text) = text[l + n]
      BY <1>8 DEF Last
    <2>2. l + n \in (l + 1)..(l + n)
      BY <1>3
    <2> QED BY <1>9, <2>1, <2>2
  <1>11. Unpadded(text) = <<data>>
    <2>1. n \in 1..Len(text)
      BY <1>3, <1>8
    <2>2. Len(text) - n = l
      BY <1>3, <1>8
    <2>3. (Len(text) - n + 1)..Len(text) = (l + 1)..(l + n)
      BY <1>8, <2>2
    <2> QED BY <1>8, <1>9, <1>10, <2>1, <2>2, <2>3 DEF Unpadded
  <1> QED BY <1>1, <1>2, <1>7, <1>8, <1>11

\* A block.
BlockBytes == [1..16 -> Byte]

\* The block of a byte and its place there, and those of the byte a block before.
LEMMA PlacesAre ==
    ASSUME NEW m \in Nat, NEW p \in 1..(16 * m)
    PROVE  /\ BlockOf(p) \in 1..m /\ PlaceOf(p) \in 1..16
           /\ 16 * (BlockOf(p) - 1) + PlaceOf(p) = p
           /\ p <= 16 => BlockOf(p) = 1 /\ PlaceOf(p) = p
           /\ p > 16 => /\ p - 16 \in 1..(16 * m) /\ BlockOf(p - 16) = BlockOf(p) - 1
                        /\ PlaceOf(p - 16) = PlaceOf(p)
  <1>1. PICK b : b = ((p - 1) \div 16) + 1
    OBVIOUS
  <1>2. PICK c : c = ((p - 1) % 16) + 1
    OBVIOUS
  <1>3. /\ b \in 1..m /\ c \in 1..16 /\ 16 * (b - 1) + c = p
        /\ p <= 16 => b = 1 /\ c = p
    BY SMT, <1>1, <1>2
  <1>4. p > 16 => /\ p - 16 \in 1..(16 * m) /\ ((p - 16 - 1) \div 16) + 1 = b - 1
                  /\ ((p - 16 - 1) % 16) + 1 = c
    BY SMT, <1>1, <1>2
  <1> QED BY <1>1, <1>2, <1>3, <1>4 DEF BlockOf, PlaceOf, BlockSize

\* The block after the last one.
NextBlock(key, bytes, i, last) ==
    [j \in 1..16 |-> (bytes[16 * (i - 1) + j] + last[j] + key[j]) % 256]

\* The blocks of Encrypted.
BlocksOf(key, iv, bytes, m, g) ==
    g = [i \in 0..m |-> IF i = 0 THEN iv
                        ELSE [j \in 1..BlockSize |->
                          (bytes[BlockSize * (i - 1) + j] + g[i - 1][j] + key[j]) % 256]]

\* A block of the ciphertext is a block of bytes.
LEMMA NextBlockIsBytes ==
    ASSUME NEW key \in Seq(Byte), Len(key) >= 16, NEW bytes \in Seq(Byte), NEW m \in Nat,
           Len(bytes) = 16 * m, NEW i \in 1..m, NEW last \in BlockBytes
    PROVE  NextBlock(key, bytes, i, last) \in BlockBytes
  <1> SUFFICES ASSUME NEW j \in 1..16
               PROVE  (bytes[16 * (i - 1) + j] + last[j] + key[j]) % 256 \in Byte
    BY DEF NextBlock, BlockBytes
  <1>1. 16 * (i - 1) + j \in 1..(16 * m)
    BY SMT
  <1>2. bytes[16 * (i - 1) + j] \in Byte
    BY <1>1
  <1>3. key[j] \in Byte
    BY SMT
  <1>4. last[j] \in Byte
    BY DEF BlockBytes
  <1>5. PICK x \in Byte, y \in Byte, z \in Byte :
            x = bytes[16 * (i - 1) + j] /\ y = last[j] /\ z = key[j]
    BY <1>2, <1>3, <1>4
  <1>6. x + y + z \in Int
    BY ByteIs
  <1> QED BY <1>5, <1>6, Modulo256

\* What the blocks are.
Chained(key, iv, bytes, m, f) ==
    /\ f \in [0..m -> BlockBytes]
    /\ f[0] = iv
    /\ \A i \in 1..m : f[i] = NextBlock(key, bytes, i, f[i - 1])

\* Text that fills its blocks, a key and an IV.
IsChain(key, iv, bytes, m) ==
    /\ key \in Seq(Byte) /\ Len(key) >= 16
    /\ iv \in BlockBytes
    /\ m \in Nat
    /\ bytes \in Seq(Byte) /\ Len(bytes) = 16 * m

\* The same in a chain.
LEMMA NextOfChain ==
    ASSUME NEW key, NEW iv, NEW bytes, NEW m, IsChain(key, iv, bytes, m),
           NEW i \in 1..m, NEW last \in BlockBytes
    PROVE  NextBlock(key, bytes, i, last) \in BlockBytes
  BY NextBlockIsBytes DEF IsChain

\* Blocks can be encrypted one by one.
LEMMA ChainExists ==
    ASSUME NEW key, NEW iv, NEW bytes, NEW m, IsChain(key, iv, bytes, m)
    PROVE  \E f : Chained(key, iv, bytes, m, f)
  <1>1. iv \in BlockBytes /\ m \in Nat
    BY DEF IsChain
  <1>2. PICK step : step = [p \in Nat \X BlockBytes |->
                              IF p[1] \in 1..m THEN NextBlock(key, bytes, p[1], p[2]) ELSE p[2]]
    OBVIOUS
  <1>3. step \in [Nat \X BlockBytes -> BlockBytes]
    <2> SUFFICES ASSUME NEW p \in Nat \X BlockBytes
                 PROVE  (IF p[1] \in 1..m THEN NextBlock(key, bytes, p[1], p[2]) ELSE p[2])
                            \in BlockBytes
      BY <1>2, Zenon
    <2>1. p[2] \in BlockBytes
      OBVIOUS
    <2> QED BY <2>1, NextOfChain
  <1>4. \A i \in 1..m, b \in BlockBytes : step[<<i, b>>] = NextBlock(key, bytes, i, b)
    <2> SUFFICES ASSUME NEW i \in 1..m, NEW b \in BlockBytes
                 PROVE  step[<<i, b>>] = NextBlock(key, bytes, i, b)
      OBVIOUS
    <2>1. i \in Nat /\ <<i, b>> \in Nat \X BlockBytes
      BY <1>1
    <2> QED BY <1>2, <2>1
  <1>5. PICK f : Recursion(BlockBytes, iv, step, m, f)
    BY <1>1, <1>3, RecursionExists, Zenon
  <1>6. ASSUME NEW i \in 1..m
        PROVE  f[i] = NextBlock(key, bytes, i, f[i - 1])
    <2>1. i - 1 \in 0..m
      BY <1>1
    <2>2. f[i] = step[<<i, f[i - 1]>>] /\ f[i - 1] \in BlockBytes
      BY <1>5, <2>1 DEF Recursion
    <2> QED BY <1>4, <2>2, Zenon
  <1> QED BY <1>5, <1>6 DEF Chained, Recursion

\* Blocks encrypted one by one are what Encrypted chooses from.
LEMMA ChainedBlocks ==
    ASSUME NEW key, NEW iv, NEW bytes, NEW m \in Nat, NEW f, Chained(key, iv, bytes, m, f)
    PROVE  BlocksOf(key, iv, bytes, m, f)
  <1>1. f = [i \in 0..m |-> f[i]]
    BY DEF Chained
  <1>2. ASSUME NEW i \in 0..m
        PROVE  f[i] = IF i = 0 THEN iv
                      ELSE [j \in 1..BlockSize |->
                          (bytes[BlockSize * (i - 1) + j] + f[i - 1][j] + key[j]) % 256]
    <2>1. CASE i = 0
      BY <2>1 DEF Chained
    <2>2. CASE i # 0
      <3>1. i \in 1..m
        BY <2>2
      <3>2. f[i] = NextBlock(key, bytes, i, f[i - 1])
        BY <3>1 DEF Chained
      <3> QED BY <2>2, <3>2, Zenon DEF NextBlock, BlockSize
    <2> QED BY <2>1, <2>2
  <1>3. f = [i \in 0..m |->
              IF i = 0 THEN iv
              ELSE [j \in 1..BlockSize |->
                          (bytes[BlockSize * (i - 1) + j] + f[i - 1][j] + key[j]) % 256]]
    BY <1>1, <1>2, Zenon
  <1> QED BY <1>3, Zenon DEF BlocksOf

\* Encrypted has nothing else to choose.
LEMMA BlocksChained ==
    ASSUME NEW key, NEW iv, NEW bytes, NEW m, IsChain(key, iv, bytes, m),
           NEW g, BlocksOf(key, iv, bytes, m, g)
    PROVE  Chained(key, iv, bytes, m, g)
  <1>1. m \in Nat /\ iv \in BlockBytes
    BY DEF IsChain
  <1>2. \A i \in 0..m :
            g[i] = IF i = 0 THEN iv
                   ELSE [j \in 1..BlockSize |->
                          (bytes[BlockSize * (i - 1) + j] + g[i - 1][j] + key[j]) % 256]
    BY Zenon DEF BlocksOf
  <1>3. g[0] = iv
    <2>1. 0 \in 0..m
      BY <1>1
    <2> QED BY <1>2, <2>1
  <1>4. \A i \in 1..m : g[i] = NextBlock(key, bytes, i, g[i - 1])
    <2> SUFFICES ASSUME NEW i \in 1..m PROVE g[i] = NextBlock(key, bytes, i, g[i - 1])
      OBVIOUS
    <2>1. i \in 0..m /\ i # 0
      BY <1>1
    <2> QED BY <1>2, <2>1, Zenon DEF NextBlock, BlockSize
  <1>5. \A i \in 0..m : g[i] \in BlockBytes
    <2> DEFINE S == {i \in 0..m : g[i] \in BlockBytes}
    <2>1. 0 \in S
      BY <1>1, <1>3
    <2>2. ASSUME NEW i \in 1..m, i - 1 \in S
          PROVE  i \in S
      <3>1. i \in 0..m /\ g[i - 1] \in BlockBytes
        BY <1>1, <2>2
      <3>2. g[i] \in BlockBytes
        BY <1>4, <3>1, NextOfChain
      <3> QED BY <3>1, <3>2
    <2>3. \A i \in 0..m : i \in S
      <3> HIDE DEF S
      <3> QED BY <1>1, <2>1, <2>2, InductionUpTo
    <2> QED BY <2>3
  <1>6. g = [i \in 0..m |-> g[i]]
    <2>1. g = [i \in 0..m |->
              IF i = 0 THEN iv
              ELSE [j \in 1..BlockSize |->
                          (bytes[BlockSize * (i - 1) + j] + g[i - 1][j] + key[j]) % 256]]
      BY Zenon DEF BlocksOf
    <2> QED BY <1>2, <2>1, Zenon
  <1>7. g \in [0..m -> BlockBytes]
    BY <1>5, <1>6, Zenon
  <1> QED BY <1>3, <1>4, <1>7 DEF Chained

\* Encrypted is the blocks of a chain, side by side.
LEMMA EncryptedIs ==
    ASSUME NEW key, NEW iv, NEW bytes, NEW m, IsChain(key, iv, bytes, m)
    PROVE  \E f : /\ Chained(key, iv, bytes, m, f)
                  /\ Encrypted(key, iv, bytes)
                        = [p \in 1..(16 * m) |-> f[BlockOf(p)][PlaceOf(p)]]
  <1>1. PICK k : k = CHOOSE g : BlocksOf(key, iv, bytes, m, g)
    OBVIOUS
  <1>2. m \in Nat /\ Len(bytes) = 16 * m
    BY DEF IsChain
  <1>3. \E g : BlocksOf(key, iv, bytes, m, g)
    BY <1>2, ChainExists, ChainedBlocks
  <1>4. BlocksOf(key, iv, bytes, m, k)
    BY <1>1, <1>3, Zenon
  <1>5. Chained(key, iv, bytes, m, k)
    BY <1>4, BlocksChained
  <1>6. Len(bytes) \div BlockSize = m
    <2>1. (16 * m) \div 16 = m
      BY SMT, <1>2
    <2> QED BY <1>2, <2>1 DEF BlockSize
  <1>7. Encrypted(key, iv, bytes) = [p \in 1..(16 * m) |-> k[BlockOf(p)][PlaceOf(p)]]
    <2>1. PICK n : n = Len(bytes) \div BlockSize
      OBVIOUS
    <2>2. n = m
      BY <1>6, <2>1
    <2>3. PICK h : h = CHOOSE g : BlocksOf(key, iv, bytes, n, g)
      OBVIOUS
    <2>4. Encrypted(key, iv, bytes) = [p \in 1..Len(bytes) |-> h[BlockOf(p)][PlaceOf(p)]]
      BY <2>1, <2>3 DEF Encrypted, BlocksOf
    <2>5. h = k
      BY <1>1, <2>2, <2>3
    <2> QED BY <1>2, <2>4, <2>5
  <1> QED BY <1>5, <1>7

\* What is added to a byte is taken off again.
LEMMA Unshifted ==
    ASSUME NEW b \in Byte, NEW c \in Byte, NEW k \in Byte
    PROVE  (((b + c + k) % 256) - c - k) % 256 = b
  <1>1. b \in Nat /\ b < 256 /\ c \in Nat /\ k \in Nat
    BY ByteIs
  <1> QED BY SMT, <1>1

\* Decryption gives back what was encrypted, under any key and IV.
LEMMA EncryptedBytes ==
    ASSUME NEW key, NEW iv, NEW bytes, NEW m, IsChain(key, iv, bytes, m)
    PROVE  /\ Encrypted(key, iv, bytes) \in Seq(Byte)
           /\ Len(Encrypted(key, iv, bytes)) = 16 * m
           /\ Decrypted(key, iv, Encrypted(key, iv, bytes)) = bytes
  <1>1. PICK f : /\ Chained(key, iv, bytes, m, f)
                 /\ Encrypted(key, iv, bytes)
                        = [p \in 1..(16 * m) |-> f[BlockOf(p)][PlaceOf(p)]]
    BY EncryptedIs
  <1>2. PICK e : e = Encrypted(key, iv, bytes)
    OBVIOUS
  <1>3. /\ m \in Nat /\ iv \in BlockBytes /\ bytes \in Seq(Byte) /\ Len(bytes) = 16 * m
        /\ key \in Seq(Byte) /\ Len(key) >= 16
    BY DEF IsChain
  <1>4. PICK n \in Nat : n = 16 * m
    BY <1>3
  <1>5. e = [p \in 1..n |-> f[BlockOf(p)][PlaceOf(p)]]
    BY <1>1, <1>2, <1>4, Zenon
  <1>6. \A i \in 0..m : f[i] \in BlockBytes
    BY <1>1 DEF Chained
  <1>7. \A p \in 1..n :
            /\ BlockOf(p) \in 1..m /\ BlockOf(p) \in 0..m /\ BlockOf(p) - 1 \in 0..m
            /\ PlaceOf(p) \in 1..16
            /\ 16 * (BlockOf(p) - 1) + PlaceOf(p) = p
            /\ p <= 16 => BlockOf(p) = 1 /\ PlaceOf(p) = p
            /\ p > 16 => /\ p - 16 \in 1..n /\ BlockOf(p - 16) = BlockOf(p) - 1
                         /\ PlaceOf(p - 16) = PlaceOf(p)
    <2> SUFFICES ASSUME NEW p \in 1..n
        PROVE
            /\ BlockOf(p) \in 1..m /\ BlockOf(p) \in 0..m /\ BlockOf(p) - 1 \in 0..m
            /\ PlaceOf(p) \in 1..16
            /\ 16 * (BlockOf(p) - 1) + PlaceOf(p) = p
            /\ p <= 16 => BlockOf(p) = 1 /\ PlaceOf(p) = p
            /\ p > 16 => /\ p - 16 \in 1..n /\ BlockOf(p - 16) = BlockOf(p) - 1
                         /\ PlaceOf(p - 16) = PlaceOf(p)
      OBVIOUS
    <2>1. p \in 1..(16 * m)
      BY <1>4
    <2>2. /\ BlockOf(p) \in 1..m /\ PlaceOf(p) \in 1..16
          /\ 16 * (BlockOf(p) - 1) + PlaceOf(p) = p
          /\ p <= 16 => BlockOf(p) = 1 /\ PlaceOf(p) = p
          /\ p > 16 => /\ p - 16 \in 1..(16 * m) /\ BlockOf(p - 16) = BlockOf(p) - 1
                       /\ PlaceOf(p - 16) = PlaceOf(p)
      BY <1>3, <2>1, PlacesAre
    <2>3. BlockOf(p) \in 0..m /\ BlockOf(p) - 1 \in 0..m
      BY <1>3, <2>2
    <2> QED BY <1>4, <2>2, <2>3
  <1>8. \A p \in 1..n : e[p] = f[BlockOf(p)][PlaceOf(p)]
    BY <1>5
  <1>9. \A p \in 1..n : e[p] \in Byte
    <2> SUFFICES ASSUME NEW p \in 1..n PROVE e[p] \in Byte
      OBVIOUS
    <2>1. f[BlockOf(p)] \in BlockBytes /\ PlaceOf(p) \in 1..16
      BY <1>6, <1>7
    <2>2. f[BlockOf(p)][PlaceOf(p)] \in Byte
      BY <2>1 DEF BlockBytes
    <2> QED BY <1>8, <2>2
  <1>10. e \in Seq(Byte) /\ Len(e) = n
    BY <1>5, <1>9
  <1>11. ASSUME NEW p \in 1..n
         PROVE  (e[p] - Before(iv, e, p) - key[PlaceOf(p)]) % 256 = bytes[p]
    <2>1. PICK i, c : i = BlockOf(p) /\ c = PlaceOf(p)
      OBVIOUS
    <2>2. /\ i \in 1..m /\ i \in 0..m /\ i - 1 \in 0..m /\ c \in 1..16
          /\ 16 * (i - 1) + c = p
          /\ p <= 16 => i = 1 /\ c = p
          /\ p > 16 => /\ p - 16 \in 1..n /\ BlockOf(p - 16) = i - 1
                       /\ PlaceOf(p - 16) = c
      BY <1>7, <2>1
    <2>3. f[i] = NextBlock(key, bytes, i, f[i - 1])
      BY <1>1, <2>2 DEF Chained
    <2>4. NextBlock(key, bytes, i, f[i - 1])[c]
            = (bytes[16 * (i - 1) + c] + f[i - 1][c] + key[c]) % 256
      BY <2>2 DEF NextBlock
    <2>5. e[p] = f[i][c]
      BY <1>8, <2>1
    <2>6. e[p] = (bytes[p] + f[i - 1][c] + key[c]) % 256
      BY <2>2, <2>3, <2>4, <2>5, Zenon
    <2>7. Before(iv, e, p) = f[i - 1][c]
      <3>1. CASE p <= 16
        <4>1. i - 1 = 0 /\ c = p
          BY <2>2, <3>1
        <4>2. f[0] = iv
          BY <1>1 DEF Chained
        <4> QED BY <3>1, <4>1, <4>2 DEF Before, BlockSize
      <3>2. CASE ~(p <= 16)
        <4>1. p > 16
          BY <3>2
        <4>2. p - 16 \in 1..n /\ BlockOf(p - 16) = i - 1 /\ PlaceOf(p - 16) = c
          BY <2>2, <4>1
        <4>3. e[p - 16] = f[i - 1][c]
          BY <1>8, <4>2
        <4> QED BY <3>2, <4>3 DEF Before, BlockSize
      <3> QED BY <3>1, <3>2
    <2>8. bytes[p] \in Byte /\ key[c] \in Byte /\ f[i - 1][c] \in Byte
      <3>1. bytes[p] \in Byte
        BY <1>3, <1>4
      <3>2. c \in 1..Len(key)
        BY <1>3, <2>2
      <3>3. key[c] \in Byte
        BY <1>3, <3>2
      <3>4. f[i - 1] \in BlockBytes
        BY <1>6, <2>2
      <3>5. f[i - 1][c] \in Byte
        BY <2>2, <3>4 DEF BlockBytes
      <3> QED BY <3>1, <3>3, <3>5
    <2>9. (((bytes[p] + f[i - 1][c] + key[c]) % 256) - f[i - 1][c] - key[c]) % 256 = bytes[p]
      <3>1. PICK x, y, z : x = bytes[p] /\ y = f[i - 1][c] /\ z = key[c]
        OBVIOUS
      <3>2. x \in Byte /\ y \in Byte /\ z \in Byte
        BY <2>8, <3>1
      <3>3. (((x + y + z) % 256) - y - z) % 256 = x
        BY <3>2, Unshifted
      <3> QED BY <3>1, <3>3, ZenonT(40)
    <2> QED BY <2>1, <2>6, <2>7, <2>9, ZenonT(40)
  <1>12. Decrypted(key, iv, e) = bytes
    <2>1. Decrypted(key, iv, e)
            = [p \in 1..n |-> (e[p] - Before(iv, e, p) - key[PlaceOf(p)]) % 256]
      BY <1>10, Zenon DEF Decrypted
    <2>2. Decrypted(key, iv, e) = [p \in 1..n |-> bytes[p]]
      BY <1>11, <2>1, ZenonT(40)
    <2>3. bytes = [p \in 1..n |-> bytes[p]]
      BY <1>3, <1>4
    <2> QED BY <2>2, <2>3, Zenon
  <1> QED BY <1>2, <1>4, <1>10, <1>12

\* A text that is padded and encrypted, and its bytes.
IsCipher(key, iv, data, c) ==
    /\ key \in Seq(Byte) /\ Len(key) \in KeySizes
    /\ iv \in Seq(Byte) /\ Len(iv) = 16
    /\ data \in Seq(Byte)
    /\ c = Encrypted(key, iv, Padded(data))

\* A ciphertext fills its blocks, is not empty, and gives back the text.
LEMMA CipherIs ==
    ASSUME NEW key, NEW iv, NEW data, NEW c, IsCipher(key, iv, data, c)
    PROVE  /\ c \in Seq(Byte) /\ Len(c) = Len(data) + PadOf(Len(data))
           /\ Len(c) > 0 /\ Len(c) % 16 = 0
           /\ Unpadded(Decrypted(key, iv, c)) = <<data>>
  <1>1. /\ key \in Seq(Byte) /\ iv \in Seq(Byte) /\ Len(iv) = 16 /\ data \in Seq(Byte)
        /\ Len(key) \in KeySizes
    BY Zenon DEF IsCipher
  <1>1a. Len(key) >= 16
    <2>1. \A n \in KeySizes : n >= 16
      BY SMT DEF KeySizes
    <2> QED BY <1>1, <2>1
  <1>2. PICK text : text = Padded(data)
    OBVIOUS
  <1>3. PICK l \in Nat : l = Len(data)
    BY <1>1
  <1>4. text \in Seq(Byte) /\ Len(text) = l + PadOf(l) /\ Unpadded(text) = <<data>>
    BY <1>1, <1>2, <1>3, PaddedIs
  <1>5. PadOf(l) \in 1..16 /\ (l + PadOf(l)) % 16 = 0
    BY PadIs
  <1>6. PICK k \in Nat : k = l + PadOf(l) /\ k % 16 = 0 /\ k > 0
    BY <1>5
  <1>7. PICK m \in Nat : k = 16 * m
    <2>1. k = 16 * (k \div 16) /\ k \div 16 \in Nat
      BY SMT, <1>6
    <2> QED BY <2>1
  <1>8. iv \in BlockBytes
    <2>1. iv \in [1..Len(iv) -> Byte]
      BY <1>1, LenProperties
    <2> QED BY <1>1, <2>1, Zenon DEF BlockBytes
  <1>9. IsChain(key, iv, text, m)
    BY <1>1, <1>1a, <1>4, <1>6, <1>7, <1>8 DEF IsChain
  <1>10. c = Encrypted(key, iv, text)
    BY <1>2 DEF IsCipher
  <1>11. c \in Seq(Byte) /\ Len(c) = 16 * m /\ Decrypted(key, iv, c) = text
    BY <1>9, <1>10, EncryptedBytes, Zenon
  <1>12. Len(c) = k
    BY <1>7, <1>11
  <1> QED BY <1>3, <1>4, <1>6, <1>11, <1>12

\* The IV is in the parameters, or else in front.
Carries(parms, iv, c, bytes) ==
    /\ parms.enc = CbcPkcs5
    /\ \E s : /\ parms.sym = <<s>>
              /\ \/ s.iv = iv /\ bytes = c
                 \/ s.iv = <<>> /\ bytes = iv \o c

\* A key of these bytes.
HasKey(key, k) == key.key = k

\* A ciphertext is decrypted with the IV in the parameters or in front of it.
LEMMA Decrypting ==
    ASSUME NEW key, NEW k, HasKey(key, k), NEW iv, NEW data, NEW c, IsCipher(k, iv, data, c),
           NEW parms, NEW bytes, Carries(parms, iv, c, bytes)
    PROVE  DecryptWithSymmetricKey(key, parms, bytes) = <<data>>
  <1>0. PICK s : /\ parms.sym = <<s>>
                 /\ \/ s.iv = iv /\ bytes = c
                    \/ s.iv = <<>> /\ bytes = iv \o c
    BY DEF Carries
  <1>0a. key.key = k /\ parms.enc = CbcPkcs5
    BY DEF HasKey, Carries
  <1>1. /\ c \in Seq(Byte) /\ Len(c) > 0 /\ Len(c) % 16 = 0
        /\ Unpadded(Decrypted(k, iv, c)) = <<data>>
    BY CipherIs
  <1>2. iv \in Seq(Byte) /\ Len(iv) = 16 /\ Len(k) \in KeySizes /\ iv # <<>>
    <2>1. iv \in Seq(Byte) /\ Len(iv) = 16 /\ Len(k) \in KeySizes
      BY Zenon DEF IsCipher
    <2>2. Len(<<>>) = 0 /\ 16 # 0
      OBVIOUS
    <2> QED BY <2>1, <2>2, Zenon
  <1>3. parms.sym # <<>> /\ parms.sym[1].iv = s.iv
    BY <1>0
  <1>4. CASE s.iv = iv /\ bytes = c
    <2>1. SubSeq(bytes, 0 + 1, Len(bytes)) = c
      BY <1>1, <1>4, SubSeqFull
    <2>2. ~(Len(bytes) <= 0)
      BY <1>1, <1>4
    <2> QED BY <1>0a, <1>1, <1>2, <1>3, <1>4, <2>1, <2>2 DEF DecryptWithSymmetricKey, BlockSize
  <1>5. CASE s.iv = <<>> /\ bytes = iv \o c
    <2>1. /\ Len(bytes) = 16 + Len(c) /\ SubSeq(bytes, 1, 16) = iv
          /\ Behind(bytes, 16) = c
      BY <1>1, <1>2, <1>5, FrontOfConcat
    <2>2. SubSeq(bytes, 16 + 1, Len(bytes)) = c
      BY <2>1 DEF Behind
    <2>3. ~(Len(bytes) <= 16)
      BY <1>1, <2>1
    <2> QED BY <1>0a, <1>1, <1>2, <1>3, <1>5, <2>1, <2>2, <2>3 DEF DecryptWithSymmetricKey, BlockSize
  <1> QED BY <1>0, <1>4, <1>5

\* The parameters of an AES key.
AesParms(alg, sig, length, iv) ==
    [alg |-> alg, enc |-> CbcPkcs5, sig |-> sig, rsa |-> <<>>,
     sym |-> <<[keyLength |-> length, blockSize |-> BlockSize, iv |-> iv]>>]

\* The parameters of an encryption with AES can be written.
LEMMA AesParmsAreValues ==
    ASSUME NEW alg \in Aes, NEW length \in Word \ {0}, NEW iv \in Blob
    PROVE  /\ AesParms(alg, SsNone, length, iv) \in KeyParmsValues
           /\ AesParms(alg, SsNone, length, iv).enc = CbcPkcs5
           /\ \E s : s.iv = iv /\ AesParms(alg, SsNone, length, iv).sym = <<s>>
  <1>1. BlockSize \in Word \ {0}
    BY SMT DEF Word, MaxNumber, BlockSize
  <1>2. CbcPkcs5 \in Short /\ SsNone \in Short
    BY SMT DEF Short, CbcPkcs5, SsNone
  <1>3. alg \in AlgMap /\ alg # Rsa
    BY AlgorithmsAre
  <1>4. PICK s : s = [keyLength |-> length, blockSize |-> BlockSize, iv |-> iv]
    OBVIOUS
  <1>5. s \in SymmetricKeyParmsValues /\ s.iv = iv
    BY <1>1, <1>4 DEF SymmetricKeyParmsValues
  <1>6. PICK r : r = <<s>>
    OBVIOUS
  <1>7. r \in Seq(SymmetricKeyParmsValues) /\ Len(r) = 1
    BY <1>5, <1>6
  <1>8. PICK e : e = <<>>
    OBVIOUS
  <1>9. e \in Seq(RSAKeyParmsValues) /\ Len(e) = 0
    BY <1>8
  <1>10. PICK p : p = AesParms(alg, SsNone, length, iv)
    OBVIOUS
  <1>11. p = [alg |-> alg, enc |-> CbcPkcs5, sig |-> SsNone, rsa |-> e, sym |-> r]
    BY <1>4, <1>6, <1>8, <1>10 DEF AesParms
  <1>12. p.alg = alg /\ p.enc = CbcPkcs5 /\ p.rsa = e /\ p.sym = r
    BY <1>11
  <1>13. p \in [alg : AlgMap, enc : Short, sig : Short,
                rsa : Seq(RSAKeyParmsValues), sym : Seq(SymmetricKeyParmsValues)]
    BY <1>2, <1>3, <1>7, <1>9, <1>11
  <1>14. p \in KeyParmsValues
    BY <1>3, <1>7, <1>9, <1>12, <1>13 DEF KeyParmsValues
  <1> QED BY <1>5, <1>6, <1>10, <1>12, <1>14

-----------------------------------------------------------------------------
(* What is encrypted: certificates, keys and identity exchanges.           *)

\* The sizes of AES keys.
LEMMA KeySizeIs ==
    /\ \A alg \in Aes : KeySize(alg) \in KeySizes
    /\ \A n \in KeySizes : n \in Nat /\ n \in Word \ {0} /\ 8 * n \in Word \ {0} /\ n <= 32
  <1>1. \A alg \in Aes : KeySize(alg) \in KeySizes
    BY DEF Aes, KeySize, KeySizes
  <1>2. \A n \in KeySizes : n \in Nat /\ n > 0 /\ n <= 32
    BY SMT DEF KeySizes
  <1>3. \A n \in Nat : n > 0 /\ n <= 32 => n \in Word \ {0} /\ 8 * n \in Word \ {0}
    BY SMT DEF Word, MaxNumber
  <1> QED BY <1>1, <1>2, <1>3

\* An AIK certificate reaches the TPM as the service encrypted it.
LEMMA CertSurvives ==
    ASSUME NEW v \in CertValues
    PROVE  /\ IsBytes(AikCertBlob(v)) /\ AikCertBlob(v) # <<>>
           /\ ReadAikCertBlob(NewAESCBCKey(v.alg, v.random)[1], AikCertBlob(v)) = <<v.cert>>
  <1>1. /\ v.alg \in Aes /\ v.random \in Blob /\ v.iv \in Blob /\ v.cert \in Filled
        /\ Len(v.random) >= KeySize(v.alg) /\ Len(v.iv) = BlockSize
        /\ Len(v.cert) + BlockSize <= MaxSize
    BY Zenon DEF CertValues
  <1>2. PICK n \in KeySizes : n = KeySize(v.alg)
    BY <1>1, KeySizeIs
  <1>3. n \in Nat /\ n \in Word \ {0}
    BY KeySizeIs
  <1>4. PICK k : k = SubSeq(v.random, 1, n)
    OBVIOUS
  <1>5. k \in Seq(Byte) /\ Len(k) = n
    <2>1. v.random \in Seq(Byte)
      BY <1>1, WordFits
    <2> QED BY <1>1, <1>2, <1>3, <1>4, <2>1, FrontOfBytes
  <1>6. PICK key : key = [alg |-> v.alg, enc |-> CbcPkcs5, key |-> k]
    OBVIOUS
  <1>7. key.alg = v.alg /\ key.enc = CbcPkcs5 /\ key.key = k
    BY <1>6
  <1>8. NewAESCBCKey(v.alg, v.random)[1] = key
    BY <1>1, <1>2, <1>4, <1>6 DEF NewAESCBCKey
  <1>9. PICK c : c = Encrypted(k, v.iv, Padded(v.cert))
    OBVIOUS
  <1>10. v.cert \in Seq(Byte) /\ v.cert # <<>> /\ v.iv \in Seq(Byte) /\ Len(v.iv) = 16
    BY <1>1, WordFits DEF Filled, BlockSize
  <1>11. IsCipher(key.key, v.iv, v.cert, c)
    BY <1>5, <1>7, <1>9, <1>10 DEF IsCipher
  <1>12. /\ c \in Seq(Byte) /\ Len(c) > 0 /\ Len(c) = Len(v.cert) + PadOf(Len(v.cert))
    BY <1>11, CipherIs, Zenon
  <1>13. c \in Filled
    <2>1. PadOf(Len(v.cert)) \in 1..16 /\ Len(v.cert) \in Nat
      BY <1>10, PadIs
    <2>2. Len(c) <= MaxSize
      <3>1. Len(v.cert) + 16 <= MaxSize
        BY <1>1 DEF BlockSize
      <3>2. PICK l \in Nat, p \in 1..16 : l = Len(v.cert) /\ p = PadOf(Len(v.cert))
        BY <2>1
      <3>3. PICK x \in Nat : x = MaxSize
        BY SMT DEF MaxSize
      <3>4. Len(c) = l + p
        BY <1>12, <3>2, ZenonT(40)
      <3>5. l + 16 <= x
        BY <3>1, <3>2, <3>3, ZenonT(40)
      <3>6. l + p <= x
        BY <3>5
      <3> QED BY <3>3, <3>4, <3>6, ZenonT(40)
    <2>3. c # <<>>
      BY <1>12
    <2> QED BY <1>12, <2>2, <2>3 DEF Filled, Blob
  <1>14. PICK parms : parms = AesParms(v.alg, SsNone, n, v.iv)
    OBVIOUS
  <1>15. parms \in KeyParmsValues /\ parms.enc = CbcPkcs5
    BY <1>1, <1>3, <1>14, AesParmsAreValues
  <1>16. PICK s : s.iv = v.iv /\ parms.sym = <<s>>
    BY <1>1, <1>3, <1>14, AesParmsAreValues
  <1>17. PICK a : a = [credential |-> c, parms |-> parms]
    OBVIOUS
  <1>18. EncryptWithAES(key, v.iv, v.cert) = <<a>>
    <2>1. ValidSymmetricKey(key)
      BY <1>1, <1>7 DEF ValidSymmetricKey
    <2>2. a = [credential |-> c,
               parms |-> [alg |-> key.alg, enc |-> key.enc, sig |-> SsNone, rsa |-> <<>>,
                          sym |-> <<[keyLength |-> Len(key.key),
                                     blockSize |-> BlockSize, iv |-> v.iv]>>]]
      BY <1>5, <1>7, <1>14, <1>17 DEF AesParms
    <2> QED BY <1>5, <1>7, <1>9, <1>10, <2>1, <2>2 DEF EncryptWithAES
  <1>19. PICK x : x = SerializeSymCAAttestation(a)
    OBVIOUS
  <1>20. AikCertBlob(v) = x
    BY <1>8, <1>18, <1>19 DEF AikCertBlob, CertBlob
  <1>21. a.parms = parms /\ a.credential = c /\ a = [parms |-> parms, credential |-> c]
    BY <1>17
  <1>22. IsAttestation(a, x)
    BY <1>13, <1>15, <1>19, <1>21 DEF IsAttestation
  <1>23. IsBytes(x) /\ x # <<>> /\ ReadAttestation(x) = <<a>>
    BY <1>22, AttestationRead
  <1>24. DecryptWithSymmetricKey(key, parms, c) = <<v.cert>>
    <2>1. Carries(parms, v.iv, c, c)
      BY <1>15, <1>16 DEF Carries
    <2>2. HasKey(key, k) /\ IsCipher(k, v.iv, v.cert, c)
      BY <1>7, <1>11 DEF HasKey
    <2> QED BY <2>1, <2>2, Decrypting
  <1>25. ReadAikCertBlob(key, x) = <<v.cert>>
    BY <1>21, <1>23, <1>24 DEF ReadAikCertBlob, CertIn
  <1> QED BY <1>8, <1>20, <1>23, <1>25

\* The AES key and the digest of the AIK reach the TPM.
LEMMA ContentsSurvive ==
    ASSUME NEW v \in ContentsValues
    PROVE  /\ IsBytes(AsymContentsBlob(v))
           /\ ReadAsymCAContents(AsymContentsBlob(v))
                = <<[key |-> v.key, digest |-> Sha1(SerializePubKey(v.aik))]>>
  <1>1. v.key \in SymmetricKeyValues /\ v.aik \in PubKeyValues
    BY Zenon DEF ContentsValues
  <1>2. PICK p : p = SerializePubKey(v.aik) /\ IsPubKey(v.aik, p)
    BY <1>1 DEF IsPubKey
  <1>3. IsBytes(p) /\ p # <<>>
    BY <1>2, PubKeyIsBytes
  <1>4. PICK d : d = Sha1(p)
    OBVIOUS
  <1>5. d \in Seq(Byte) /\ Len(d) = 20
    BY <1>3, <1>4, Sha1IsBytes DEF IsBytes
  <1>6. PICK k : k = SymmetricKeyBytes(v.key) /\ IsSymmetricKey(v.key, k)
    BY <1>1 DEF IsSymmetricKey
  <1>7. ValidSymmetricKey(v.key)
    BY <1>6, SymmetricKeyParts
  <1>8. /\ k \o d \in Seq(Byte) /\ k # <<>>
        /\ ReadAsymCAContents(k \o d) = <<[key |-> v.key, digest |-> d]>>
    BY <1>1, <1>5, <1>6, ContentsRead
  <1>9. AsymContentsBlob(v) = k \o d
    <2>1. PICK c : c = [key |-> v.key, digest |-> d]
      OBVIOUS
    <2>2. ConstructAsymCAContents(v.key, v.aik) = <<c>>
      BY <1>2, <1>3, <1>4, <1>7, <2>1 DEF ConstructAsymCAContents
    <2>3. SerializeSymmetricKey(v.key) = k
      BY <1>1, <1>6, SymmetricKeySurvives
    <2>4. SerializeAsymCAContents(<<c>>) = k \o d
      BY <1>8, <2>1, <2>3 DEF SerializeAsymCAContents, Then
    <2> QED BY <2>2, <2>4 DEF AsymContentsBlob, EncryptWithPublicKey
  <1> QED BY <1>2, <1>4, <1>8, <1>9 DEF IsBytes

\* A key whose exponent four bytes show and whose size two.
IsRsaKey(k) == k.n \in Filled /\ Len(k.n) \in Short /\ k.e \in Word

\* The length of a signature.
LEMMA SignatureIs ==
    ASSUME NEW k, IsRsaKey(k), NEW scheme \in {Pkcs1Sha, Pkcs1Der},
           NEW digest, IsBytes(digest), Len(digest) = 20
    PROVE  /\ IsBytes(Signature(k, scheme, digest))
           /\ Len(Signature(k, scheme, digest)) = 29 + Len(k.n)
  <1>1. PICK a, b, c, d : /\ a = BigEndian(4, k.e) /\ b = <<scheme>>
                          /\ c = BigEndian(4, Len(k.n)) /\ d = k.n
    OBVIOUS
  <1>2. IsBytes(a) /\ Len(a) = 4
    BY <1>1, WordFits, NumberIsBytes DEF IsRsaKey
  <1>3. IsBytes(b) /\ Len(b) = 1
    <2>1. scheme \in Byte
      BY ByteIs DEF Pkcs1Sha, Pkcs1Der
    <2> QED BY <1>1, <2>1 DEF IsBytes
  <1>4. IsBytes(c) /\ Len(c) = 4
    BY <1>1, WordFits, NumberIsBytes DEF IsRsaKey
  <1>5. IsBytes(d) /\ Len(d) \in Nat
    BY <1>1, WordFits DEF IsRsaKey, IsBytes
  <1>6. IsBytes(a \o b) /\ Len(a \o b) = Len(a) + Len(b)
    BY <1>2, <1>3, ConcatIsBytes
  <1>7. IsBytes(c \o d) /\ Len(c \o d) = Len(c) + Len(d)
    BY <1>4, <1>5, ConcatIsBytes
  <1>8. /\ IsBytes((a \o b) \o (c \o d))
        /\ Len((a \o b) \o (c \o d)) = Len(a \o b) + Len(c \o d)
    BY <1>6, <1>7, ConcatIsBytes
  <1>9. /\ IsBytes(((a \o b) \o (c \o d)) \o digest)
        /\ Len(((a \o b) \o (c \o d)) \o digest) = Len((a \o b) \o (c \o d)) + Len(digest)
    BY <1>8, ConcatIsBytes
  <1>10. Signature(k, scheme, digest) = ((a \o b) \o (c \o d)) \o digest
    BY <1>1, Zenon DEF Signature, Sized
  <1>11. Len(Signature(k, scheme, digest)) = ((4 + 1) + (4 + Len(d))) + 20
    BY <1>2, <1>3, <1>4, <1>6, <1>7, <1>8, <1>9, <1>10
  <1>12. IsBytes(Signature(k, scheme, digest))
    BY <1>9, <1>10
  <1>13. ((4 + 1) + (4 + Len(d))) + 20 = 29 + Len(d)
    BY <1>5
  <1>14. Len(Signature(k, scheme, digest)) = 29 + Len(d)
    BY <1>11, <1>13
  <1> QED BY <1>1, <1>12, <1>14

\* The length of the digest of identity contents.
LEMMA IdentityDigestIs ==
    ASSUME NEW issuer, ConstructPubKey(issuer) \in PubKeyValues, NEW aik \in PubKeyValues
    PROVE  IsBytes(IdentityDigest(issuer, aik)) /\ Len(IdentityDigest(issuer, aik)) = 20
  <1>1. PICK p, q : p = SerializePubKey(ConstructPubKey(issuer)) /\ q = SerializePubKey(aik)
    OBVIOUS
  <1>2. IsBytes(p) /\ IsBytes(q)
    <2>1. IsPubKey(ConstructPubKey(issuer), p) /\ IsPubKey(aik, q)
      BY <1>1 DEF IsPubKey
    <2> QED BY <2>1, PubKeyIsBytes
  <1>3. IsBytes(IdentityLabel)
    <2>1. 73 \in Byte /\ 100 \in Byte
      BY ByteIs
    <2> QED BY <2>1 DEF IsBytes, IdentityLabel
  <1>4. IsBytes(IdentityLabel \o p)
    BY <1>2, <1>3, ConcatIsBytes
  <1>5. PICK d : d = Sha1(IdentityLabel \o p) /\ IsBytes(d)
    BY <1>4, Sha1IsBytes DEF IsBytes
  <1>6. PICK o : o = BigEndian(4, Ordinal)
    OBVIOUS
  <1>7. IsBytes(o)
    <2>1. Ordinal \in Short
      BY SMT DEF Ordinal, Short
    <2> QED BY <1>6, <2>1, WordFits, NumberIsBytes
  <1>8. IsBytes(Version \o o)
    BY <1>7, VersionIsBytes, ConcatIsBytes
  <1>9. IsBytes((Version \o o) \o d)
    BY <1>5, <1>8, ConcatIsBytes
  <1>10. IsBytes(((Version \o o) \o d) \o q)
    BY <1>2, <1>9, ConcatIsBytes
  <1>11. IdentityDigest(issuer, aik) = Sha1(((Version \o o) \o d) \o q)
    BY <1>1, <1>5, <1>6 DEF IdentityDigest, SerializeIdentityContents, ConstructIdentityContents
  <1> QED BY <1>10, <1>11, Sha1IsBytes DEF IsBytes

\* What an identity exchange is made of.
LEMMA ExchangeIs ==
    ASSUME NEW v \in ExchangeValues
    PROVE  /\ v.key \in SymmetricKeyValues /\ Len(v.key.key) \in KeySizes
           /\ v.iv \in Blob /\ Len(v.iv) = 16 /\ v.inline \in BOOLEAN
           /\ IsRsaKey(v.k) /\ TpmPubKeyToRSAPubKey(v.aik) = <<v.k>>
           /\ ValidRSAKey(v.issuer)
           /\ v.aik \in PubKeyValues /\ v.aik.parms.sig \in {Pkcs1Sha, Pkcs1Der}
           /\ v.areas \in Seq(Blob) /\ Len(v.areas) = 5
           /\ ConstructPubKey(v.issuer) \in PubKeyValues
           /\ ConstructPubKey(v.signedFor) \in PubKeyValues
           /\ Len(TpmRequest(v).symBlob) <= MaxSize
  <1>1. /\ v.key \in SymmetricKeyValues /\ v.iv \in Blob /\ v.inline \in BOOLEAN
        /\ v.k \in RSAKeyValues /\ v.issuer \in RSAKeyValues
        /\ v.aik \in PubKeyValues /\ v.areas \in Seq(Blob)
    BY Zenon DEF ExchangeValues
  <1>2. /\ Len(v.key.key) \in KeySizes /\ Len(v.iv) = BlockSize /\ Len(v.areas) = 5
        /\ TpmPubKeyToRSAPubKey(v.aik) = <<v.k>>
        /\ v.aik.parms.sig \in {Pkcs1Sha, Pkcs1Der}
        /\ {ConstructPubKey(v.issuer), ConstructPubKey(v.signedFor)} \subseteq PubKeyValues
        /\ Len(TpmRequest(v).symBlob) <= MaxSize
    BY Zenon DEF ExchangeValues
  <1>3. IsRsaKey(v.k) /\ ValidRSAKey(v.issuer)
    <2>1. \A k \in RSAKeyValues :
             k.n \in Filled /\ Len(k.n) \in Short /\ k.e \in Word \ {0}
      BY Zenon DEF RSAKeyValues
    <2> QED BY <1>1, <2>1 DEF IsRsaKey, ValidRSAKey
  <1>4. /\ ConstructPubKey(v.issuer) \in PubKeyValues
        /\ ConstructPubKey(v.signedFor) \in PubKeyValues
    BY <1>2, Zenon
  <1> QED BY <1>1, <1>2, <1>3, <1>4, Zenon DEF BlockSize

\* The signature of the TPM.
BindingOf(v) == Signature(v.k, v.aik.parms.sig, IdentityDigest(v.signedFor, v.aik))

\* The proof of a TPM can be written, and has its AIK and binding.
LEMMA TpmProofIs ==
    ASSUME NEW v \in ExchangeValues
    PROVE  /\ TpmProof(v) \in IdentityProofValues
           /\ TpmProof(v).aik = v.aik
           /\ TpmProof(v).areas[2] = BindingOf(v)
  <1>1. PICK b : b = BindingOf(v)
    OBVIOUS
  <1>2. IsBytes(b) /\ Len(b) = 29 + Len(v.k.n) /\ Len(v.k.n) \in Short
    <2>1. PICK k, scheme, d : /\ k = v.k /\ scheme = v.aik.parms.sig
                              /\ d = IdentityDigest(v.signedFor, v.aik)
      OBVIOUS
    <2>2. IsRsaKey(k) /\ scheme \in {Pkcs1Sha, Pkcs1Der}
      BY <2>1, ExchangeIs
    <2>3. IsBytes(d) /\ Len(d) = 20
      BY <2>1, ExchangeIs, IdentityDigestIs
    <2>4. b = Signature(k, scheme, d)
      BY <1>1, <2>1, Zenon DEF BindingOf
    <2> QED BY <2>1, <2>2, <2>3, <2>4, SignatureIs DEF IsRsaKey
  <1>3. b \in Blob /\ b # <<>>
    <2>1. \A n \in Short : 29 + n <= MaxSize /\ 29 + n # 0
      BY SMT DEF MaxSize, Short
    <2>2. b \in Seq(Byte) /\ Len(b) <= MaxSize /\ Len(b) # 0
      BY <1>2, <2>1 DEF IsBytes
    <2> QED BY <2>2 DEF Blob
  <1>4. PICK areas : areas = [v.areas EXCEPT ![2] = b]
    OBVIOUS
  <1>5. areas \in Seq(Blob) /\ Len(areas) = 5 /\ areas[2] = b
    <2>1. v.areas \in Seq(Blob) /\ Len(v.areas) = 5
      BY ExchangeIs
    <2>2. b \in Blob
      BY <1>3
    <2> QED BY <1>4, <2>1, <2>2
  <1>6. TpmProof(v) = [aik |-> v.aik, areas |-> areas]
    BY <1>1, <1>4, Zenon DEF TpmProof, BindingOf
  <1>7. PICK p : p = [aik |-> v.aik, areas |-> areas]
    OBVIOUS
  <1>8. p.aik = v.aik /\ p.areas = areas
    BY <1>7
  <1>9. v.aik \in PubKeyValues
    BY ExchangeIs
  <1>10. p \in [aik : PubKeyValues, areas : Seq(Blob)]
    BY <1>5, <1>7, <1>9
  <1>11. p \in IdentityProofValues
    BY <1>3, <1>5, <1>8, <1>10 DEF IdentityProofValues
  <1> QED BY <1>1, <1>5, <1>6, <1>7, <1>8, <1>11

\* The key of the service is one that OAEP is used with.
LEMMA ConstructedAlgorithm ==
    ASSUME NEW k
    PROVE  /\ ConstructPubKey(k).parms.alg = Rsa
           /\ ConstructPubKey(k).parms.enc = Oaep
  BY DEF ConstructPubKey

\* What the TPM encrypts, and the parameters it encrypts under.
CipherOf(v) ==
    Encrypted(v.key.key, v.iv, Padded(IdentityProofBytes(TpmProof(v))))

\* The IV of an exchange, where it is in the parameters, and the parameters.
IvOf(v) == IF v.inline THEN <<>> ELSE v.iv

RequestParms(v) == AesParms(v.key.alg, SsNone, 8 * Len(v.key.key), IvOf(v))

\* What the identity request of a TPM is made of.
LEMMA TpmRequestParts ==
    ASSUME NEW v \in ExchangeValues
    PROVE  /\ TpmRequest(v).asym = ConstructPubKey(v.issuer).parms
           /\ TpmRequest(v).sym = RequestParms(v)
           /\ TpmRequest(v).asymBlob = SymmetricKeyBytes(v.key)
           /\ TpmRequest(v).symBlob
                = (IF v.inline THEN v.iv ELSE <<>>) \o CipherOf(v)
           /\ TpmRequest(v) = [asym |-> TpmRequest(v).asym, sym |-> TpmRequest(v).sym,
                               asymBlob |-> TpmRequest(v).asymBlob,
                               symBlob |-> TpmRequest(v).symBlob]
  BY DEF TpmRequest, RequestParms, AesParms, CipherOf, IvOf

\* The ciphertext in it is one of the written proof.
LEMMA ExchangeCipher ==
    ASSUME NEW v \in ExchangeValues
    PROVE  /\ IsCipher(v.key.key, v.iv, IdentityProofBytes(TpmProof(v)), CipherOf(v))
           /\ IsBytes(CipherOf(v)) /\ CipherOf(v) # <<>>
  <1>1. PICK p, x : p = TpmProof(v) /\ x = IdentityProofBytes(p)
    OBVIOUS
  <1>2. IsIdentityProof(p, x)
    BY <1>1, TpmProofIs DEF IsIdentityProof
  <1>3. x \in Seq(Byte)
    BY <1>2, IdentityProofIsBytes DEF IsBytes
  <1>4. v.key \in SymmetricKeyValues /\ Len(v.key.key) \in KeySizes /\ v.iv \in Blob
        /\ Len(v.iv) = 16
    BY ExchangeIs
  <1>5. v.key.key \in Seq(Byte) /\ v.iv \in Seq(Byte)
    <2>1. IsSymmetricKey(v.key, SymmetricKeyBytes(v.key))
      BY <1>4 DEF IsSymmetricKey
    <2> QED BY <1>4, <2>1, SymmetricKeyParts, WordFits DEF IsBytes
  <1>6. PICK k, iv, c : k = v.key.key /\ iv = v.iv /\ c = CipherOf(v)
    OBVIOUS
  <1>7. IsCipher(k, iv, x, c)
    BY <1>1, <1>3, <1>4, <1>5, <1>6, Zenon DEF IsCipher, CipherOf
  <1>8. c \in Seq(Byte) /\ Len(c) > 0
    BY <1>7, CipherIs
  <1>9. IsBytes(c) /\ c # <<>>
    BY <1>8 DEF IsBytes
  <1> QED BY <1>1, <1>6, <1>7, <1>9

\* The parameters in it can be written.
LEMMA RequestParmsAre ==
    ASSUME NEW v \in ExchangeValues
    PROVE  /\ RequestParms(v) \in KeyParmsValues
           /\ RequestParms(v).enc = CbcPkcs5
           /\ \E s : s.iv = IvOf(v) /\ RequestParms(v).sym = <<s>>
  <1>1. /\ v.key \in SymmetricKeyValues /\ Len(v.key.key) \in KeySizes
        /\ v.iv \in Blob /\ v.inline \in BOOLEAN
    BY ExchangeIs
  <1>2. PICK alg \in Aes : alg = v.key.alg
    BY <1>1 DEF SymmetricKeyValues
  <1>3. PICK l \in Word \ {0} : l = 8 * Len(v.key.key)
    BY <1>1, KeySizeIs
  <1>4. <<>> \in Blob
    <2>1. 0 <= MaxSize
      BY SMT DEF MaxSize
    <2> QED BY <2>1 DEF Blob
  <1>5. PICK iv \in Blob : iv = IvOf(v)
    BY <1>1, <1>4 DEF IvOf
  <1>6. RequestParms(v) = AesParms(alg, SsNone, l, iv)
    BY <1>2, <1>3, <1>5, Zenon DEF RequestParms
  <1>7. /\ AesParms(alg, SsNone, l, iv) \in KeyParmsValues
        /\ AesParms(alg, SsNone, l, iv).enc = CbcPkcs5
        /\ \E s : s.iv = iv /\ AesParms(alg, SsNone, l, iv).sym = <<s>>
    BY AesParmsAreValues
  <1> QED BY <1>5, <1>6, <1>7

\* The identity request of a TPM can be written.
LEMMA TpmRequestIs ==
    ASSUME NEW v \in ExchangeValues
    PROVE  TpmRequest(v) \in IdentityRequestValues
  <1>1. PICK q : q = TpmRequest(v)
    OBVIOUS
  <1>2. /\ q.asym = ConstructPubKey(v.issuer).parms /\ q.sym = RequestParms(v)
        /\ q.asymBlob = SymmetricKeyBytes(v.key)
        /\ q.symBlob = (IF v.inline THEN v.iv ELSE <<>>) \o CipherOf(v)
        /\ q = [asym |-> q.asym, sym |-> q.sym, asymBlob |-> q.asymBlob,
                symBlob |-> q.symBlob]
    BY <1>1, TpmRequestParts
  <1>3. q.asym \in KeyParmsValues
    <2>1. ConstructPubKey(v.issuer) \in PubKeyValues
      BY ExchangeIs
    <2>2. ConstructPubKey(v.issuer).parms \in KeyParmsValues
      BY <2>1, Zenon DEF PubKeyValues
    <2> QED BY <1>2, <2>2
  <1>4. q.sym \in KeyParmsValues
    BY <1>2, RequestParmsAre
  <1>5. q.asymBlob \in Filled
    <2>1. IsSymmetricKey(v.key, q.asymBlob)
      BY <1>2, ExchangeIs DEF IsSymmetricKey
    <2>2. IsBytes(q.asymBlob) /\ q.asymBlob # <<>> /\ Len(q.asymBlob) = 8 + Len(v.key.key)
      BY <2>1, SymmetricKeyIsBytes
    <2>3. PICK n : n = Len(v.key.key) /\ n \in Nat /\ n <= 32
      BY ExchangeIs, KeySizeIs
    <2>4. 8 + n <= MaxSize
      BY SMT, <2>3 DEF MaxSize
    <2> QED BY <2>2, <2>3, <2>4 DEF Filled, Blob, IsBytes
  <1>6. q.symBlob \in Filled
    <2>1. IsBytes(CipherOf(v)) /\ CipherOf(v) # <<>>
      BY ExchangeCipher
    <2>2. PICK f : f = IF v.inline THEN v.iv ELSE <<>>
      OBVIOUS
    <2>3. IsBytes(f)
      <3>1. v.iv \in Seq(Byte) /\ <<>> \in Seq(Byte)
        BY ExchangeIs, WordFits
      <3> QED BY <2>2, <3>1 DEF IsBytes
    <2>4. /\ IsBytes(q.symBlob) /\ Len(q.symBlob) = Len(f) + Len(CipherOf(v))
          /\ Len(f) \in Nat /\ Len(CipherOf(v)) \in Nat
      BY <1>2, <2>1, <2>2, <2>3, ConcatIsBytes
    <2>5. q.symBlob # <<>>
      <3>1. Len(CipherOf(v)) # 0
        BY <2>1 DEF IsBytes
      <3>2. Len(q.symBlob) # 0
        BY <2>4, <3>1
      <3> QED BY <3>2
    <2>6. Len(q.symBlob) <= MaxSize
      BY <1>1, ExchangeIs
    <2> QED BY <2>4, <2>5, <2>6 DEF Filled, Blob, IsBytes
  <1> QED BY <1>1, <1>2, <1>3, <1>4, <1>5, <1>6 DEF IdentityRequestValues

\* The service decrypts the proof the TPM has written.
LEMMA ProofTextIs ==
    ASSUME NEW v \in ExchangeValues
    PROVE  ProofText(<<TpmRequest(v)>>) = <<IdentityProofBytes(TpmProof(v))>>
  <1>1. PICK q : q = TpmRequest(v)
    OBVIOUS
  <1>2. /\ q.asym = ConstructPubKey(v.issuer).parms /\ q.sym = RequestParms(v)
        /\ q.asymBlob = SymmetricKeyBytes(v.key)
        /\ q.symBlob = (IF v.inline THEN v.iv ELSE <<>>) \o CipherOf(v)
    BY <1>1, TpmRequestParts
  <1>3. PICK k : k = v.key /\ k \in SymmetricKeyValues
    BY ExchangeIs
  <1>4. DecryptWithPrivateKey(q.asymBlob, q.asym.alg, q.asym.enc) = q.asymBlob
    BY <1>2, ConstructedAlgorithm DEF DecryptWithPrivateKey
  <1>5. ParseSymmetricKey(q.asymBlob) = <<k>>
    BY <1>2, <1>3, SymmetricKeySurvives
  <1>6. PICK parms, iv, c, x, key, bytes :
            /\ parms = q.sym /\ iv = v.iv /\ c = CipherOf(v) /\ bytes = q.symBlob
            /\ x = IdentityProofBytes(TpmProof(v)) /\ key = k.key
    OBVIOUS
  <1>7. IsCipher(key, iv, x, c) /\ HasKey(k, key)
    BY <1>3, <1>6, ExchangeCipher DEF HasKey
  <1>8. Carries(parms, iv, c, bytes)
    <2>1. PICK s : s.iv = IvOf(v) /\ parms.sym = <<s>> /\ parms.enc = CbcPkcs5
      BY <1>2, <1>6, RequestParmsAre
    <2>2. v.inline \in BOOLEAN /\ IsBytes(c)
      BY <1>6, ExchangeIs, ExchangeCipher
    <2>3. CASE v.inline
      <3>1. s.iv = <<>> /\ bytes = iv \o c
        BY <1>2, <1>6, <2>1, <2>3 DEF IvOf
      <3> QED BY <2>1, <3>1 DEF Carries
    <2>4. CASE ~v.inline
      <3>1. <<>> \o c = c
        BY <2>2, ConcatEmptySeq DEF IsBytes
      <3>2. s.iv = iv /\ bytes = c
        BY <1>2, <1>6, <2>1, <2>4, <3>1 DEF IvOf
      <3> QED BY <2>1, <3>2 DEF Carries
    <2> QED BY <2>2, <2>3, <2>4
  <1>9. DecryptWithSymmetricKey(k, parms, bytes) = <<x>>
    BY <1>7, <1>8, Decrypting
  <1>10. ProofUnder(<<k>>, q) = <<x>>
    BY <1>6, <1>9 DEF ProofUnder
  <1>11. ProofText(<<q>>) = <<x>>
    BY <1>4, <1>5, <1>10 DEF ProofText
  <1> QED BY <1>1, <1>6, <1>11

\* The proof made for an issuer reaches it, with zeros behind the request.
LEMMA ExchangeSurvives ==
    ASSUME NEW v \in ExchangeValues, v.signedFor = v.issuer, NEW more, NEW all,
           Joins(IdentityRequestBytes(TpmRequest(v)), more, all), Zeros(more)
    PROVE  ReadTpmRequest(v.issuer, all) = <<TpmProof(v)>>
  <1>1. PICK q, x : q = TpmRequest(v) /\ x = IdentityRequestBytes(q)
    OBVIOUS
  <1>2. IsIdentityRequest(q, x)
    BY <1>1, TpmRequestIs DEF IsIdentityRequest
  <1>3. Joins(x, more, all)
    BY <1>1
  <1>4. ParseIdentityRequest(all) = <<q>>
    BY <1>2, <1>3, IdentityRequestRead
  <1>5. PICK p, y : p = TpmProof(v) /\ y = IdentityProofBytes(p)
    OBVIOUS
  <1>6. ProofText(<<q>>) = <<y>>
    BY <1>1, <1>5, ProofTextIs
  <1>7. IsIdentityProof(p, y)
    BY <1>5, TpmProofIs DEF IsIdentityProof
  <1>8. ParseIdentityProof(y) = <<p>>
    BY <1>7, IdentityProofRead
  <1>9. ProofIn(<<y>>) = <<p>>
    BY <1>8 DEF ProofIn
  <1>10. VerifySignatureWithRSAKey(p.aik, p.areas[2], IdentityDigest(v.issuer, p.aik))
    <2>1. p.aik = v.aik /\ p.areas[2] = BindingOf(v)
      BY <1>5, TpmProofIs
    <2>2. /\ TpmPubKeyToRSAPubKey(v.aik) = <<v.k>>
          /\ v.aik.parms.sig \in {Pkcs1Sha, Pkcs1Der}
      BY ExchangeIs
    <2>3. TpmPubKeyToRSAPubKey(v.aik)[1] = v.k /\ TpmPubKeyToRSAPubKey(v.aik) # <<>>
      BY <2>2
    <2> QED BY <2>1, <2>2, <2>3, Zenon DEF VerifySignatureWithRSAKey, BindingOf
  <1>11. p \in ToSet(<<p>>)
    BY DEF ToSet
  <1>12. BoundProof(v.issuer, <<p>>) = <<p>>
    <2>1. ValidRSAKey(v.issuer)
      BY ExchangeIs
    <2> QED BY <1>10, <1>11, <2>1, Zenon DEF BoundProof
  <1> QED BY <1>4, <1>5, <1>6, <1>9, <1>12 DEF ReadTpmRequest

-----------------------------------------------------------------------------
(* The content of a CSR.                                                   *)

\* Tags are bytes, and certificates have another than public areas.
LEMMA TagsAre ==
    /\ Public \subseteq Byte /\ Attest \subseteq Byte /\ Signatures \subseteq Byte
    /\ {Certificate, RsaPublic, EccPublic} \subseteq Byte
    /\ RsaPublic \in Public /\ EccPublic \in Public
    /\ Certificate \notin Public /\ RsaPublic # OtherPublic /\ EccPublic # OtherPublic
  <1>1. \A n \in {1, 8, 20, 22, 24, 35, 48, 255} : n \in Byte
    BY ByteIs
  <1> QED BY <1>1 DEF Public, Attest, Signatures, Certificate, RsaPublic, EccPublic, OtherPublic

\* A structure in an area: tag, length and body.
LEMMA MarshalIs ==
    ASSUME NEW tags, tags \subseteq Byte, NEW s \in Parts(tags)
    PROVE  /\ s.tag \in tags /\ s.tag \in Byte /\ s.body \in Seq(Byte)
           /\ Marshal(s) \in Seq(Byte) /\ Len(Marshal(s)) = 2 + Len(s.body)
           /\ Marshal(s)[1] = s.tag /\ Marshal(s)[2] = Len(s.body)
           /\ SubSeq(Marshal(s), 3, 2 + Len(s.body)) = s.body
           /\ s = [tag |-> s.tag, body |-> s.body]
           /\ Len(s.body) \in Nat /\ Len(s.body) < 256
  <1>1. /\ s.tag \in tags /\ s.body \in Seq(Byte) /\ Len(s.body) \in Byte
        /\ s = [tag |-> s.tag, body |-> s.body]
    BY Zenon DEF Parts
  <1>2. s.tag \in Byte
    BY <1>1
  <1>3. PICK b, l, t : b = s.body /\ l = Len(b) /\ t = s.tag
    OBVIOUS
  <1>4. b \in Seq(Byte) /\ l \in Byte /\ t \in Byte /\ l = Len(b)
    BY <1>1, <1>2, <1>3
  <1>5. PICK h : h = <<t, l>>
    OBVIOUS
  <1>6. h \in Seq(Byte) /\ Len(h) = 2 /\ h[1] = t /\ h[2] = l
    BY <1>4, <1>5
  <1>7. PICK m : m = h \o b
    OBVIOUS
  <1>8. Marshal(s) = m
    BY <1>3, <1>5, <1>7, Zenon DEF Marshal
  <1>9. /\ m \in Seq(Byte) /\ Len(m) = 2 + l /\ Behind(m, 2) = b
    BY <1>4, <1>6, <1>7, FrontOfConcat
  <1>10. m[1] = t /\ m[2] = l
    <2>1. \A i \in 1..2 : m[i] = h[i]
      <3> SUFFICES ASSUME NEW i \in 1..2 PROVE m[i] = h[i]
        OBVIOUS
      <3>1. i \in 1..Len(h) + Len(b) /\ i <= Len(h)
        BY <1>4, <1>6
      <3> QED BY <1>4, <1>6, <1>7, <3>1, ConcatProperties
    <2> QED BY <1>6, <2>1
  <1>11. SubSeq(m, 3, 2 + l) = b
    BY <1>9 DEF Behind
  <1>12. l \in Nat /\ l < 256
    BY <1>4, ByteIs
  <1> QED BY <1>1, <1>2, <1>3, <1>8, <1>9, <1>10, <1>11, <1>12

\* Four bytes show its size.
LEMMA MarshalIsBlob ==
    ASSUME NEW tags, tags \subseteq Byte, NEW s \in Parts(tags)
    PROVE  Marshal(s) \in Filled
  <1>1. PICK n \in Nat : n = Len(s.body) /\ n < 256
    BY MarshalIs
  <1>2. Marshal(s) \in Seq(Byte) /\ Len(Marshal(s)) = 2 + n
    BY <1>1, MarshalIs
  <1>3. 2 + n <= MaxSize /\ 2 + n # 0
    BY SMT, <1>1 DEF MaxSize
  <1> QED BY <1>2, <1>3 DEF Filled, Blob

\* A structure is read as it was written.
LEMMA UnmarshalMarshal ==
    ASSUME NEW tags, tags \subseteq Byte, NEW s \in Parts(tags)
    PROVE  Unmarshal(tags, Marshal(s)) = <<s>>
  <1>1. PICK b, l, t, m :
            /\ b = s.body /\ l = Len(s.body) /\ t = s.tag /\ m = Marshal(s)
            /\ t \in tags /\ Len(m) = 2 + l /\ m[1] = t /\ m[2] = l
            /\ SubSeq(m, 3, 2 + l) = b /\ s = [tag |-> t, body |-> b] /\ l \in Nat
    BY MarshalIs
  <1>2. Len(m) >= 2 /\ Len(m) >= 2 + m[2]
    BY <1>1
  <1> QED BY <1>1, <1>2 DEF Unmarshal

\* So is an EK, as a certificate or as a public area.
LEMMA EKCertSurvives ==
    ASSUME NEW s \in Parts({Certificate, RsaPublic, EccPublic})
    PROVE  EKCert(Marshal(s)) = <<s>>
  <1>1. /\ s.tag \in {Certificate, RsaPublic, EccPublic}
        /\ s.body \in Seq(Byte)
        /\ s = [tag |-> s.tag, body |-> s.body]
        /\ Len(s.body) \in Byte
    BY Zenon DEF Parts
  <1>2. PICK m : m = Marshal(s)
    OBVIOUS
  <1>3. Len(m) = 2 + Len(s.body) /\ m[1] = s.tag /\ m[2] = Len(s.body) /\ Len(s.body) \in Nat
    BY <1>2, TagsAre, MarshalIs
  <1>4. CASE s.tag = Certificate
    <2>1. s \in Parts({Certificate}) /\ {Certificate} \subseteq Byte
      BY <1>1, <1>4, TagsAre DEF Parts
    <2>2. Unmarshal({Certificate}, m) = <<s>>
      BY <1>2, <2>1, UnmarshalMarshal
    <2>3. CertificateDerToPem(m) = <<s>>
      <3>1. PICK l \in Nat : l = Len(s.body) /\ Len(m) = 2 + l /\ m[2] = l
        BY <1>3
      <3>2. Len(m) >= 2 /\ Len(m) = 2 + m[2]
        BY <3>1
      <3> QED BY <2>2, <3>2, Zenon DEF CertificateDerToPem
    <2> QED BY <1>2, <2>3 DEF EKCert
  <1>5. CASE s.tag # Certificate
    <2>1. s.tag \in Public /\ s.tag # OtherPublic
      BY <1>1, <1>5, TagsAre
    <2>2. s \in Parts(Public)
      BY <1>1, <2>1 DEF Parts
    <2>3. Unmarshal(Public, m) = <<s>>
      BY <1>2, <2>2, UnmarshalMarshal, TagsAre
    <2>4. CertificateDerToPem(m) = <<>>
      BY <1>3, <1>5 DEF CertificateDerToPem, Unmarshal
    <2>5. TPMTPublicToPEM(<<s>>) = <<s>>
      BY <2>1 DEF TPMTPublicToPEM
    <2> QED BY <1>2, <2>3, <2>4, <2>5 DEF EKCert
  <1> QED BY <1>4, <1>5

\* What the content of a CSR is made of.
LEMMA CsrIs ==
    ASSUME NEW v \in CsrValues
    PROVE  /\ v.csr.structVer \in Word \ {0} /\ v.csr.hashAlgoID \in Word \ {0}
           /\ v.csr.hash \in Filled /\ v.csr.prodModel \in Filled
           /\ v.csr.prodSerial \in Filled
           /\ v.csr.ekCert \in Parts({Certificate, RsaPublic, EccPublic})
           /\ v.csr.iakPub \in Parts(Public) /\ v.csr.idevidPub \in Parts(Public)
           /\ v.csr.signCertifyInfo \in Parts(Attest)
           /\ v.csr.signature \in Parts(Signatures)
           /\ v.csr = [structVer |-> v.csr.structVer, hashAlgoID |-> v.csr.hashAlgoID,
                       hash |-> v.csr.hash, prodModel |-> v.csr.prodModel,
                       prodSerial |-> v.csr.prodSerial, ekCert |-> v.csr.ekCert,
                       iakPub |-> v.csr.iakPub, idevidPub |-> v.csr.idevidPub,
                       signCertifyInfo |-> v.csr.signCertifyInfo,
                       signature |-> v.csr.signature]
           /\ v.other \in Seq(Blob) /\ Len(v.other) = 6
  BY Zenon DEF CsrValues

\* The areas of a CSR, and the structures in them.
LEMMA CsrAreasAre ==
    ASSUME NEW v \in CsrValues
    PROVE  /\ AreaList(13, CsrAreasOf(v.csr, v.other))
           /\ \A i \in Needed : LengthsOf(13, CsrAreasOf(v.csr, v.other))[i] # 0
           /\ CsrParts(CsrAreasOf(v.csr, v.other))
                = <<<<v.csr.ekCert>>, <<v.csr.iakPub>>, <<v.csr.idevidPub>>,
                    <<v.csr.signCertifyInfo>>, <<v.csr.signature>>>>
           /\ CsrAreasOf(v.csr, v.other)[1] = v.csr.prodModel
           /\ CsrAreasOf(v.csr, v.other)[2] = v.csr.prodSerial
  <1>1. PICK a1, a2, a5, a6, a10, a11, a12 :
            /\ a1 = v.csr.prodModel /\ a2 = v.csr.prodSerial
            /\ a5 = Marshal(v.csr.ekCert) /\ a6 = Marshal(v.csr.iakPub)
            /\ a10 = Marshal(v.csr.idevidPub) /\ a11 = Marshal(v.csr.signCertifyInfo)
            /\ a12 = Marshal(v.csr.signature)
    OBVIOUS
  <1>2. /\ a1 \in Filled /\ a2 \in Filled /\ a5 \in Filled /\ a6 \in Filled
        /\ a10 \in Filled /\ a11 \in Filled /\ a12 \in Filled
    BY <1>1, CsrIs, TagsAre, MarshalIsBlob
  <1>3. PICK a3, a4, a7, a8, a9, a13 :
            /\ a3 = v.other[1] /\ a4 = v.other[2] /\ a7 = v.other[3] /\ a8 = v.other[4]
            /\ a9 = v.other[5] /\ a13 = v.other[6]
    OBVIOUS
  <1>4. /\ a3 \in Blob /\ a4 \in Blob /\ a7 \in Blob /\ a8 \in Blob /\ a9 \in Blob
        /\ a13 \in Blob
    <2>1. v.other \in Seq(Blob) /\ Len(v.other) = 6
      BY CsrIs
    <2>2. \A i \in 1..6 : v.other[i] \in Blob
      BY <2>1
    <2> QED BY <1>3, <2>2
  <1>5. PICK areas : areas = <<a1, a2, a3, a4, a5, a6, a7, a8, a9, a10, a11, a12, a13>>
    OBVIOUS
  <1>6. CsrAreasOf(v.csr, v.other) = areas
    BY <1>1, <1>3, <1>5, Zenon DEF CsrAreasOf
  <1>7. /\ areas[1] = a1 /\ areas[2] = a2 /\ areas[5] = a5 /\ areas[6] = a6
        /\ areas[10] = a10 /\ areas[11] = a11 /\ areas[12] = a12
    BY <1>5
  <1>8. areas \in Seq(Blob) /\ Len(areas) = 13
    <2>1. /\ a1 \in Blob /\ a2 \in Blob /\ a5 \in Blob /\ a6 \in Blob
          /\ a10 \in Blob /\ a11 \in Blob /\ a12 \in Blob
      BY <1>2, WordFits
    <2> QED BY <1>4, <1>5, <2>1
  <1>9. AreaList(13, areas)
    BY <1>8, BlobAreas
  <1>10. \A i \in Needed : LengthsOf(13, areas)[i] # 0
    <2>1. \A i \in Needed : i \in 1..13 /\ areas[i] \in Filled
      BY <1>2, <1>7 DEF Needed
    <2>2. \A i \in Needed : LengthsOf(13, areas)[i] = Len(areas[i])
      BY <2>1 DEF LengthsOf
    <2> QED BY <2>1, <2>2, WordFits
  <1>11. CsrParts(areas)
            = <<<<v.csr.ekCert>>, <<v.csr.iakPub>>, <<v.csr.idevidPub>>,
                <<v.csr.signCertifyInfo>>, <<v.csr.signature>>>>
    <2>1. EKCert(a5) = <<v.csr.ekCert>>
      BY <1>1, CsrIs, EKCertSurvives
    <2>2. Unmarshal(Public, a6) = <<v.csr.iakPub>> /\ Unmarshal(Public, a10) = <<v.csr.idevidPub>>
      BY <1>1, CsrIs, TagsAre, UnmarshalMarshal
    <2>3. Unmarshal(Attest, a11) = <<v.csr.signCertifyInfo>>
      BY <1>1, CsrIs, TagsAre, UnmarshalMarshal
    <2>4. Unmarshal(Signatures, a12) = <<v.csr.signature>>
      BY <1>1, CsrIs, TagsAre, UnmarshalMarshal
    <2> QED BY <1>7, <2>1, <2>2, <2>3, <2>4, Zenon DEF CsrParts
  <1> QED BY <1>1, <1>6, <1>7, <1>9, <1>10, <1>11

\* The CSR that is made of them.
LEMMA CsrOfParts ==
    ASSUME NEW v \in CsrValues, NEW areas, areas = CsrAreasOf(v.csr, v.other)
    PROVE  CsrOf(v.csr.structVer, v.csr.hashAlgoID, v.csr.hash, areas, CsrParts(areas))
                = <<v.csr>>
  <1>1. PICK parts : parts = <<<<v.csr.ekCert>>, <<v.csr.iakPub>>, <<v.csr.idevidPub>>,
                               <<v.csr.signCertifyInfo>>, <<v.csr.signature>>>>
    OBVIOUS
  <1>2. /\ CsrParts(areas) = parts /\ areas[1] = v.csr.prodModel
        /\ areas[2] = v.csr.prodSerial
    BY <1>1, CsrAreasAre
  <1>3. /\ parts[1] = <<v.csr.ekCert>> /\ parts[2] = <<v.csr.iakPub>>
        /\ parts[3] = <<v.csr.idevidPub>> /\ parts[4] = <<v.csr.signCertifyInfo>>
        /\ parts[5] = <<v.csr.signature>>
    BY <1>1
  <1>4. \A i \in 1..5 : parts[i] # <<>>
    <2>1. /\ parts[1] # <<>> /\ parts[2] # <<>> /\ parts[3] # <<>> /\ parts[4] # <<>>
          /\ parts[5] # <<>>
      BY <1>3
    <2>2. \A i \in 1..5 : i \in {1, 2, 3, 4, 5}
      OBVIOUS
    <2> QED BY <2>1, <2>2, Zenon
  <1>5. /\ parts[1][1] = v.csr.ekCert /\ parts[2][1] = v.csr.iakPub
        /\ parts[3][1] = v.csr.idevidPub /\ parts[4][1] = v.csr.signCertifyInfo
        /\ parts[5][1] = v.csr.signature
    BY <1>3
  <1>6. v.csr = [structVer |-> v.csr.structVer, hashAlgoID |-> v.csr.hashAlgoID,
                 hash |-> v.csr.hash, prodModel |-> areas[1],
                 prodSerial |-> areas[2], ekCert |-> parts[1][1],
                 iakPub |-> parts[2][1], idevidPub |-> parts[3][1],
                 signCertifyInfo |-> parts[4][1], signature |-> parts[5][1]]
    BY <1>2, <1>5, CsrIs
  <1> QED BY <1>2, <1>4, <1>6 DEF CsrOf

\* The content of a CSR is read as the card wrote it.
LEMMA CsrSurvives ==
    ASSUME NEW v \in CsrValues
    PROVE  IsBytes(CsrBytes(v)) /\ ParseTCGCSRIDevIDContent(CsrBytes(v)) = <<v.csr>>
  <1>0. PICK a, b, c, h, n, s, d, areas :
            /\ areas = CsrAreasOf(v.csr, v.other) /\ h = v.csr.hash /\ n = Len(h)
            /\ a = BigEndian(4, v.csr.structVer) /\ b = BigEndian(4, v.csr.hashAlgoID)
            /\ c = BigEndian(4, Len(h)) /\ s = Sizes(areas) /\ d = FlattenSeq(areas)
    OBVIOUS
  <1>1. /\ areas = CsrAreasOf(v.csr, v.other) /\ h = v.csr.hash /\ n = Len(h) /\ n # 0
        /\ IsNumber(4, v.csr.structVer, a) /\ v.csr.structVer # 0
        /\ IsNumber(4, v.csr.hashAlgoID, b) /\ v.csr.hashAlgoID # 0
        /\ IsNumber(4, n, c) /\ IsBytes(h)
        /\ IsSizes(13, areas, s) /\ IsAreas(13, areas, d)
        /\ CsrBytes(v) = (((a \o b) \o (c \o h)) \o s) \o d
    <2>1. IsBytes(h) /\ n # 0 /\ IsNumber(4, n, c)
      BY <1>0, CsrIs, BlobIs
    <2>2. IsNumber(4, v.csr.structVer, a) /\ IsNumber(4, v.csr.hashAlgoID, b)
      BY <1>0, CsrIs, WordFits DEF IsNumber
    <2>3. IsSizes(13, areas, s) /\ IsAreas(13, areas, d)
      BY <1>0, CsrAreasAre DEF IsSizes, IsAreas
    <2>4. CsrBytes(v) = (((a \o b) \o (c \o h)) \o s) \o d
      BY <1>0 DEF CsrBytes, CsrOfAreas, Sized
    <2>5. v.csr.structVer # 0 /\ v.csr.hashAlgoID # 0
      BY CsrIs
    <2> QED BY <1>0, <2>1, <2>2, <2>3, <2>4, <2>5
  <1>2. PICK ver, alg : ver = v.csr.structVer /\ alg = v.csr.hashAlgoID
    OBVIOUS
  <1>3. PICK all : all = CsrBytes(v)
    OBVIOUS
  <1>4. IsBytes(a) /\ IsBytes(b) /\ IsBytes(c) /\ IsBytes(s) /\ IsBytes(d)
    BY <1>1, NumberOf, SizesRead, AreasRead
  <1>5. PICK ab, ch, abch, abchs :
            ab = a \o b /\ ch = c \o h /\ abch = ab \o ch /\ abchs = abch \o s
    OBVIOUS
  <1>6. IsBytes(ab) /\ IsBytes(ch) /\ IsBytes(abch) /\ IsBytes(abchs)
    <2>1. IsBytes(ab) /\ IsBytes(ch)
      BY <1>1, <1>4, <1>5, ConcatIsBytes
    <2>2. IsBytes(abch)
      BY <1>5, <2>1, ConcatIsBytes
    <2> QED BY <1>4, <1>5, <2>1, <2>2, ConcatIsBytes
  <1>7. Joins(abchs, d, all) /\ Joins(d, <<>>, d)
    <2>1. all = abchs \o d
      BY <1>1, <1>3, <1>5
    <2> QED BY <1>4, <1>6, <2>1, Joining, NothingBehind
  <1>8. PICK t5 : Joins(abch, t5, all) /\ Joins(s, d, t5)
    BY <1>4, <1>5, <1>6, <1>7, Split
  <1>9. PICK t4 : Joins(ab, t4, all) /\ Joins(ch, t5, t4)
    BY <1>5, <1>6, <1>8, Split
  <1>10. PICK t3 : Joins(c, t3, t4) /\ Joins(h, t5, t3)
    BY <1>1, <1>4, <1>5, <1>9, Split
  <1>11. PICK t1 : Joins(a, t1, all) /\ Joins(b, t4, t1)
    BY <1>4, <1>5, <1>9, Split
  <1>12. PICK sizes : sizes = LengthsOf(13, areas)
    OBVIOUS
  <1>13. \A i \in Needed : sizes[i] # 0
    BY <1>1, <1>12, CsrAreasAre
  <1>14. PICK r1, r2, r3, r4, r5, r6 :
            /\ r1 = Got(ver, t1) /\ r2 = Got(alg, t4) /\ r3 = Got(n, t3)
            /\ r4 = Got(h, t5) /\ r5 = Got(sizes, d) /\ r6 = Got(areas, <<>>)
    OBVIOUS
  <1>15. /\ r1.got = ver /\ r2.got = alg /\ r3.got = n /\ r4.got = h /\ r5.got = sizes
         /\ r6.ok /\ r6.got = areas /\ r6.rest = <<>>
    BY <1>14 DEF Got
  <1>16. NonZero(Number(Reader(all), 4)) = r1
    <2>1. IsNumber(4, ver, a) /\ ver # 0
      BY <1>1, <1>2
    <2>2. NonZero(Number(Got(<<>>, all), 4)) = Got(ver, t1)
      BY <1>11, <2>1, NonZeroRead
    <2> QED BY <1>14, <2>2, Zenon DEF Reader
  <1>17. NonZero(Number(r1, 4)) = r2
    <2>1. IsNumber(4, alg, b) /\ alg # 0
      BY <1>1, <1>2
    <2> QED BY <1>11, <1>14, <2>1, NonZeroRead
  <1>18. NonZero(Number(r2, 4)) = r3
    BY <1>1, <1>10, <1>14, NonZeroRead
  <1>19. Area(r3, n) = r4
    BY <1>1, <1>10, <1>14, AreaJoins
  <1>20. Numbers(r4, 13) = r5
    BY <1>1, <1>8, <1>12, <1>14, SizesRead
  <1>21. Areas(r5, sizes) = r6
    BY <1>1, <1>7, <1>12, <1>14, AreasRead
  <1>22. ParseTCGCSRIDevIDContent(all) = CsrOf(ver, alg, h, areas, CsrParts(areas))
    BY <1>13, <1>15, <1>16, <1>17, <1>18, <1>19, <1>20, <1>21
       DEF ParseTCGCSRIDevIDContent, Exactly
  <1>23. CsrOf(ver, alg, h, areas, CsrParts(areas)) = <<v.csr>>
    BY <1>1, <1>2, CsrOfParts
  <1>24. IsBytes(all)
    BY <1>7, Joined
  <1> QED BY <1>3, <1>22, <1>23, <1>24

-----------------------------------------------------------------------------
(* Messages of any form.                                                   *)

\* The messages that are assumed.
LEMMA FormsAre ==
    ASSUME NEW m \in Messages
    PROVE  /\ m.form \in Forms /\ m.value \in Values(m.form) /\ m.faults \in Nat
           /\ m.form = "request"  => m.value \in IdentityRequestValues
           /\ m.form = "proof"    => m.value \in IdentityProofValues
           /\ m.form = "key"      => m.value \in SymmetricKeyValues
           /\ m.form = "contents" => m.value \in ContentsValues
           /\ m.form = "exchange" => m.value \in ExchangeValues
           /\ m.form = "cert"     => m.value \in CertValues
           /\ m.form = "csr"      => m.value \in CsrValues
  <1>1. m.form \in Forms /\ m.value \in Values(m.form) /\ m.faults \in Nat
    BY MessageAssumption
  <1> QED BY <1>1 DEF Values

\* What the other side is to get of a message.
Meant(m) ==
    CASE m.form = "exchange" -> TpmProof(m.value)
      [] m.form = "contents" ->
            [key |-> m.value.key, digest |-> Sha1(SerializePubKey(m.value.aik))]
      [] m.form = "cert"     -> m.value.cert
      [] m.form = "csr"      -> m.value.csr
      [] OTHER               -> m.value

\* Bytes may follow a request, and only zeros.
Follow(m, more) ==
    /\ IsBytes(more)
    /\ \/ more = <<>>
       \/ m.form \in {"request", "exchange"} /\ Zeros(more)

\* A proof that reaches the issuer it was made for.
Intended(m) == m.form = "exchange" => m.value.signedFor = m.value.issuer

\* Every message is read as it was meant.
LEMMA FormSurvives ==
    ASSUME NEW m \in Messages, NEW x, x = Write(m.form, m.value)
    PROVE  /\ IsBytes(x)
           /\ \A more, all :
                Intended(m) /\ Follow(m, more) /\ Joins(x, more, all)
                    => Read(m, all) = <<Meant(m)>>
  <1> DEFINE Back ==
        \A more, all :
            Intended(m) /\ Follow(m, more) /\ Joins(x, more, all)
                => Read(m, all) = <<Meant(m)>>
  <1> SUFFICES IsBytes(x) /\ Back
    OBVIOUS
  <1> USE DEF Back
  <1>1. \A more : Zeros(<<>>) /\ (Follow(m, more) => IsBytes(more) /\ Zeros(more))
    BY DEF Follow, Zeros
  <1>2. ASSUME m.form \notin {"request", "exchange"}, NEW more, NEW all,
               Follow(m, more), Joins(x, more, all)
        PROVE  all = x
    <2>1. more = <<>> /\ x \in Seq(Byte) /\ all = x \o more
      BY <1>2, Zenon DEF Follow, Joins, IsBytes
    <2> QED BY <2>1, ConcatEmptySeq
  <1>3. CASE m.form = "request"
    <2>1. IsIdentityRequest(m.value, x)
      BY <1>3, FormsAre DEF Write, IsIdentityRequest
    <2>2. ASSUME NEW more, NEW all, Follow(m, more), Joins(x, more, all)
          PROVE  Read(m, all) = <<Meant(m)>>
      <3>1. ParseIdentityRequest(all) = <<m.value>>
        BY <1>1, <2>1, <2>2, IdentityRequestRead
      <3> QED BY <1>3, <3>1 DEF Read, Meant
    <2> QED BY <2>1, <2>2, IdentityRequestIsBytes
  <1>4. CASE m.form = "proof"
    <2>1. IsIdentityProof(m.value, x)
      BY <1>4, FormsAre DEF Write, IsIdentityProof
    <2>2. ParseIdentityProof(x) = <<m.value>>
      BY <2>1, IdentityProofRead
    <2>3. Read(m, x) = <<Meant(m)>>
      BY <1>4, <2>2 DEF Read, Meant
    <2> QED BY <1>2, <1>4, <2>1, <2>3, IdentityProofIsBytes
  <1>5. CASE m.form = "key"
    <2>1. m.value \in SymmetricKeyValues /\ x = SerializeSymmetricKey(m.value)
      BY <1>5, FormsAre DEF Write
    <2>2. x = SymmetricKeyBytes(m.value) /\ ParseSymmetricKey(x) = <<m.value>>
      BY <2>1, SymmetricKeySurvives
    <2>3. Read(m, x) = <<Meant(m)>>
      BY <1>5, <2>2 DEF Read, Meant
    <2>4. IsBytes(x)
      BY <2>1, <2>2, SymmetricKeyIsBytes DEF IsSymmetricKey
    <2> QED BY <1>2, <1>5, <2>3, <2>4
  <1>6. CASE m.form = "contents"
    <2>1. m.value \in ContentsValues /\ x = AsymContentsBlob(m.value)
      BY <1>6, FormsAre DEF Write
    <2>2. /\ IsBytes(x)
          /\ ReadAsymCAContents(x)
                = <<[key |-> m.value.key, digest |-> Sha1(SerializePubKey(m.value.aik))]>>
      BY <2>1, ContentsSurvive
    <2>3. Read(m, x) = <<Meant(m)>>
      BY <1>6, <2>2 DEF Read, Meant
    <2> QED BY <1>2, <1>6, <2>2, <2>3
  <1>7. CASE m.form = "exchange"
    <2>1. m.value \in ExchangeValues /\ x = IdentityRequestBytes(TpmRequest(m.value))
      BY <1>7, FormsAre DEF Write
    <2>2. IsBytes(x)
      BY <2>1, TpmRequestIs, IdentityRequestIsBytes DEF IsIdentityRequest
    <2>3. ASSUME NEW more, NEW all, Intended(m), Follow(m, more), Joins(x, more, all)
          PROVE  Read(m, all) = <<Meant(m)>>
      <3>1. m.value.signedFor = m.value.issuer
        BY <1>7, <2>3 DEF Intended
      <3>2. Joins(IdentityRequestBytes(TpmRequest(m.value)), more, all) /\ Zeros(more)
        BY <1>1, <2>1, <2>3, Zenon
      <3>3. ReadTpmRequest(m.value.issuer, all) = <<TpmProof(m.value)>>
        BY <2>1, <3>1, <3>2, ExchangeSurvives
      <3> QED BY <1>7, <3>3 DEF Read, Meant
    <2> QED BY <2>2, <2>3
  <1>8. CASE m.form = "cert"
    <2>1. m.value \in CertValues /\ x = AikCertBlob(m.value)
      BY <1>8, FormsAre DEF Write
    <2>2. /\ IsBytes(x)
          /\ ReadAikCertBlob(NewAESCBCKey(m.value.alg, m.value.random)[1], x)
                = <<m.value.cert>>
      BY <2>1, CertSurvives
    <2>3. Read(m, x) = <<Meant(m)>>
      BY <1>8, <2>2 DEF Read, Meant
    <2> QED BY <1>2, <1>8, <2>2, <2>3
  <1>9. CASE m.form = "csr"
    <2>1. m.value \in CsrValues /\ x = CsrBytes(m.value)
      BY <1>9, FormsAre DEF Write
    <2>2. IsBytes(x) /\ ParseTCGCSRIDevIDContent(x) = <<m.value.csr>>
      BY <2>1, CsrSurvives
    <2>3. Read(m, x) = <<Meant(m)>>
      BY <1>9, <2>2 DEF Read, Meant
    <2> QED BY <1>2, <1>9, <2>2, <2>3
  <1>10. m.form \in Forms
    BY FormsAre
  <1> QED BY <1>3, <1>4, <1>5, <1>6, <1>7, <1>8, <1>9, <1>10 DEF Forms

-----------------------------------------------------------------------------
(* Bytes that are cut: a reader that goes on gets the same from more bytes.*)

\* What a reader gets, another gets that has more bytes behind.
Ahead(r, s, more) ==
    r.ok => s.ok /\ s.got = r.got /\ Joins(r.rest, more, s.rest)

\* A front is the same with more bytes behind.
LEMMA FrontStays ==
    ASSUME NEW rest, NEW more, NEW longer, Joins(rest, more, longer),
           NEW n \in Nat, n <= Len(rest)
    PROVE  /\ n <= Len(longer) /\ n \in 0..Len(longer)
           /\ SubSeq(longer, 1, n) = SubSeq(rest, 1, n)
           /\ IsBytes(SubSeq(rest, 1, n))
           /\ Joins(Behind(rest, n), more, Behind(longer, n))
  <1>1. /\ rest \in Seq(Byte) /\ more \in Seq(Byte) /\ longer = rest \o more
        /\ longer \in Seq(Byte) /\ Len(longer) = Len(rest) + Len(more)
        /\ Len(rest) \in Nat /\ Len(more) \in Nat
    BY Joined DEF IsBytes
  <1>2. n <= Len(longer) /\ n \in 0..Len(longer)
    BY <1>1
  <1>3. PICK front, behind : front = SubSeq(rest, 1, n) /\ behind = Behind(rest, n)
    OBVIOUS
  <1>4. /\ front \in Seq(Byte) /\ Len(front) = n /\ behind \in Seq(Byte)
        /\ rest = front \o behind
    BY <1>1, <1>3, FrontOfBytes
  <1>5. longer = front \o (behind \o more) /\ behind \o more \in Seq(Byte)
    <2>1. (front \o behind) \o more = front \o (behind \o more)
      BY <1>1, <1>4, ConcatBytes
    <2>2. behind \o more \in Seq(Byte)
      BY <1>1, <1>4
    <2> QED BY <1>1, <1>4, <2>1, <2>2
  <1>6. SubSeq(longer, 1, n) = front /\ Behind(longer, n) = behind \o more
    BY <1>4, <1>5, FrontOfConcat
  <1>7. Joins(behind, more, behind \o more)
    BY <1>1, <1>4, Joining DEF IsBytes
  <1> QED BY <1>2, <1>3, <1>4, <1>6, <1>7 DEF IsBytes

\* It gets the same number.
LEMMA NumberAhead ==
    ASSUME NEW r, NEW s, NEW more, Ahead(r, s, more), NEW w \in Nat
    PROVE  Ahead(Number(r, w), Number(s, w), more)
  <1>1. CASE r.ok /\ w <= Len(r.rest)
    <2>1. s.ok /\ Joins(r.rest, more, s.rest)
      BY <1>1 DEF Ahead
    <2>2. /\ w <= Len(s.rest) /\ SubSeq(s.rest, 1, w) = SubSeq(r.rest, 1, w)
          /\ Joins(Behind(r.rest, w), more, Behind(s.rest, w))
      BY <1>1, <2>1, FrontStays
    <2>3. /\ Number(r, w) = Got(Value(SubSeq(r.rest, 1, w)), Behind(r.rest, w))
          /\ Number(s, w) = Got(Value(SubSeq(r.rest, 1, w)), Behind(s.rest, w))
      BY <1>1, <2>1, <2>2, Zenon DEF Number
    <2> QED BY <2>2, <2>3, GotIs DEF Ahead
  <1>2. CASE ~(r.ok /\ w <= Len(r.rest))
    <2>1. Number(r, w) = Stuck
      BY <1>2, Zenon DEF Number
    <2> QED BY <2>1 DEF Ahead, Stuck
  <1> QED BY <1>1, <1>2

\* And the same if that is not zero.
LEMMA NonZeroAhead ==
    ASSUME NEW r, NEW s, NEW more, Ahead(r, s, more)
    PROVE  Ahead(NonZero(r), NonZero(s), more)
  <1>1. CASE r.ok /\ r.got # 0
    <2>1. NonZero(r) = r /\ NonZero(s) = s
      BY <1>1 DEF NonZero, Ahead
    <2> QED BY <2>1
  <1>2. CASE ~(r.ok /\ r.got # 0)
    <2>1. NonZero(r) = Stuck
      BY <1>2, Zenon DEF NonZero
    <2> QED BY <2>1 DEF Ahead, Stuck
  <1> QED BY <1>1, <1>2

\* It gets the same area of the same size.
LEMMA AreaAhead ==
    ASSUME NEW r, NEW s, NEW more, Ahead(r, s, more), NEW n, NEW k, r.ok => n = k
    PROVE  Ahead(Area(r, n), Area(s, k), more)
  <1>1. CASE r.ok /\ n \in 0..Len(r.rest)
    <2>1. s.ok /\ Joins(r.rest, more, s.rest) /\ k = n
      BY <1>1 DEF Ahead
    <2>2. n \in Nat /\ n <= Len(r.rest)
      <3>1. Len(r.rest) \in Nat
        BY <2>1, Joined
      <3> QED BY <1>1, <3>1
    <2>3. /\ n \in 0..Len(s.rest) /\ SubSeq(s.rest, 1, n) = SubSeq(r.rest, 1, n)
          /\ Joins(Behind(r.rest, n), more, Behind(s.rest, n))
      BY <2>1, <2>2, FrontStays
    <2>4. /\ Area(r, n) = Got(SubSeq(r.rest, 1, n), Behind(r.rest, n))
          /\ Area(s, k) = Got(SubSeq(r.rest, 1, n), Behind(s.rest, n))
      BY <1>1, <2>1, <2>3 DEF Area
    <2> QED BY <2>3, <2>4, GotIs DEF Ahead
  <1>2. CASE ~(r.ok /\ n \in 0..Len(r.rest))
    <2>1. Area(r, n) = Stuck
      BY <1>2, Zenon DEF Area
    <2> QED BY <2>1 DEF Ahead, Stuck
  <1> QED BY <1>1, <1>2

\* It gets the same sizes.
LEMMA NumbersAhead ==
    ASSUME NEW r, NEW s, NEW more, Ahead(r, s, more), NEW n \in Nat
    PROVE  Ahead(Numbers(r, n), Numbers(s, n), more)
  <1>1. PICK k \in Nat : k = 4 * n
    OBVIOUS
  <1>2. CASE r.ok /\ k <= Len(r.rest)
    <2>1. s.ok /\ Joins(r.rest, more, s.rest)
      BY <1>2 DEF Ahead
    <2>2. /\ k <= Len(s.rest) /\ SubSeq(s.rest, 1, k) = SubSeq(r.rest, 1, k)
          /\ Joins(Behind(r.rest, k), more, Behind(s.rest, k))
      BY <1>2, <2>1, FrontStays
    <2>3. \A i \in 1..n : SubSeq(s.rest, 4 * i - 3, 4 * i) = SubSeq(r.rest, 4 * i - 3, 4 * i)
      <3> SUFFICES ASSUME NEW i \in 1..n
                   PROVE  SubSeq(s.rest, 4 * i - 3, 4 * i) = SubSeq(r.rest, 4 * i - 3, 4 * i)
        OBVIOUS
      <3>1. PICK a \in Nat, b \in Nat : a = 4 * i - 3 /\ b = 4 * i /\ a >= 1 /\ b <= k
        BY <1>1
      <3>2. /\ r.rest \in Seq(Byte) /\ more \in Seq(Byte) /\ s.rest = r.rest \o more
        BY <2>1 DEF Joins, IsBytes
      <3>3. PICK l \in Nat : l = Len(r.rest) /\ b <= l
        BY <1>2, <3>1, <3>2
      <3>4. SubSeq(r.rest \o more, a, b) = SubSeq(r.rest, a, b)
        BY <3>1, <3>2, <3>3
      <3> QED BY <3>1, <3>2, <3>4
    <2>4. PICK got : got = [i \in 1..n |-> Value(SubSeq(r.rest, 4 * i - 3, 4 * i))]
      OBVIOUS
    <2>5. Numbers(r, n) = Got(got, Behind(r.rest, k))
      BY <1>1, <1>2, <2>4, Zenon DEF Numbers
    <2>6. Numbers(s, n) = Got(got, Behind(s.rest, k))
      <3>1. Numbers(s, n) = Got([i \in 1..n |-> Value(SubSeq(s.rest, 4 * i - 3, 4 * i))],
                                Behind(s.rest, k))
        BY <1>1, <2>1, <2>2, Zenon DEF Numbers
      <3>2. [i \in 1..n |-> Value(SubSeq(s.rest, 4 * i - 3, 4 * i))] = got
        BY <2>3, <2>4, Zenon
      <3> QED BY <3>1, <3>2, Zenon
    <2> QED BY <2>2, <2>5, <2>6, GotIs DEF Ahead
  <1>3. CASE ~(r.ok /\ k <= Len(r.rest))
    <2>1. Numbers(r, n) = Stuck
      BY <1>1, <1>3, Zenon DEF Numbers
    <2> QED BY <2>1 DEF Ahead, Stuck
  <1> QED BY <1>2, <1>3

\* A reader that is stuck says nothing about others.
LEMMA StuckAhead ==
    ASSUME NEW s, NEW more
    PROVE  Ahead(Stuck, s, more)
  BY DEF Ahead, Stuck

\* It gets the same TPM_KEY_PARMS.
LEMMA KeyParmsAhead ==
    ASSUME NEW r, NEW s, NEW more, Ahead(r, s, more)
    PROVE  Ahead(KeyParms(r), KeyParms(s), more)
  <1>1. PICK ra, rb, rc, rd, re :
            /\ ra = Number(r, 4) /\ rb = Number(ra, 2) /\ rc = Number(rb, 2)
            /\ rd = Number(rc, 4) /\ re = Area(rd, rd.got)
    OBVIOUS
  <1>2. PICK sa, sb, sc, sd, se :
            /\ sa = Number(s, 4) /\ sb = Number(sa, 2) /\ sc = Number(sb, 2)
            /\ sd = Number(sc, 4) /\ se = Area(sd, sd.got)
    OBVIOUS
  <1>3. Ahead(ra, sa, more)
    BY <1>1, <1>2, NumberAhead
  <1>4. Ahead(rb, sb, more)
    BY <1>1, <1>2, <1>3, NumberAhead
  <1>5. Ahead(rc, sc, more)
    BY <1>1, <1>2, <1>4, NumberAhead
  <1>6. Ahead(rd, sd, more)
    BY <1>1, <1>2, <1>5, NumberAhead
  <1>7. Ahead(re, se, more)
    <2>1. rd.ok => rd.got = sd.got
      BY <1>6 DEF Ahead
    <2> QED BY <1>1, <1>2, <1>6, <2>1, AreaAhead
  <1>8. re.ok => ra.ok /\ rb.ok /\ rc.ok
    <2>1. re.ok => rd.ok
      BY <1>1 DEF Area, Stuck
    <2>2. (rd.ok => rc.ok) /\ (rc.ok => rb.ok) /\ (rb.ok => ra.ok)
      BY <1>1 DEF Number, Stuck
    <2> QED BY <2>1, <2>2
  <1>9. CASE re.ok /\ ra.got \in AlgMap /\ ParmsFit(ra.got, re.got)
    <2>1. /\ sa.got = ra.got /\ sb.got = rb.got /\ sc.got = rc.got /\ se.got = re.got
          /\ se.ok /\ Joins(re.rest, more, se.rest)
      BY <1>3, <1>4, <1>5, <1>7, <1>8, <1>9 DEF Ahead
    <2>2. PICK k :
            k = [alg |-> ra.got, enc |-> rb.got, sig |-> rc.got,
                 rsa |-> IF ra.got = Rsa THEN ParseRSAKeyParms(re.got) ELSE <<>>,
                 sym |-> IF ra.got \in Aes THEN ParseSymmetricKeyParms(re.got) ELSE <<>>]
      OBVIOUS
    <2>3. KeyParms(r) = Got(k, re.rest)
      BY <1>1, <1>9, <2>2, Zenon DEF KeyParms, KeyParmsOf
    <2>4. KeyParms(s) = Got(k, se.rest)
      BY <1>2, <1>9, <2>1, <2>2, Zenon DEF KeyParms, KeyParmsOf
    <2> QED BY <2>1, <2>3, <2>4, GotIs DEF Ahead
  <1>10. CASE ~(re.ok /\ ra.got \in AlgMap /\ ParmsFit(ra.got, re.got))
    <2>1. KeyParms(r) = Stuck
      BY <1>1, <1>10, Zenon DEF KeyParms, KeyParmsOf
    <2> QED BY <2>1, StuckAhead
  <1> QED BY <1>9, <1>10

\* It gets the same TPM_PUBKEY.
LEMMA PubKeyAhead ==
    ASSUME NEW r, NEW s, NEW more, Ahead(r, s, more)
    PROVE  Ahead(PubKey(r), PubKey(s), more)
  <1>1. PICK ra, rb, rc :
            ra = KeyParms(r) /\ rb = NonZero(Number(ra, 4)) /\ rc = Area(rb, rb.got)
    OBVIOUS
  <1>2. PICK sa, sb, sc :
            sa = KeyParms(s) /\ sb = NonZero(Number(sa, 4)) /\ sc = Area(sb, sb.got)
    OBVIOUS
  <1>3. Ahead(ra, sa, more)
    BY <1>1, <1>2, KeyParmsAhead
  <1>4. Ahead(rb, sb, more)
    BY <1>1, <1>2, <1>3, NumberAhead, NonZeroAhead
  <1>5. Ahead(rc, sc, more)
    <2>1. rb.ok => rb.got = sb.got
      BY <1>4 DEF Ahead
    <2> QED BY <1>1, <1>2, <1>4, <2>1, AreaAhead
  <1>6. rc.ok => ra.ok /\ rb.ok
    <2>1. rc.ok => rb.ok
      BY <1>1 DEF Area, Stuck
    <2>2. rb.ok => ra.ok
      <3>1. PICK t : t = Number(ra, 4) /\ rb = NonZero(t)
        BY <1>1
      <3>2. rb.ok => t.ok
        BY <3>1 DEF NonZero, Stuck
      <3>3. t.ok => ra.ok
        BY <3>1 DEF Number, Stuck
      <3> QED BY <3>2, <3>3
    <2> QED BY <2>1, <2>2
  <1>7. CASE rc.ok
    <2>1. /\ sa.got = ra.got /\ sb.got = rb.got /\ sc.got = rc.got
          /\ sc.ok /\ Joins(rc.rest, more, sc.rest)
      BY <1>3, <1>4, <1>5, <1>6, <1>7 DEF Ahead
    <2>2. PICK k : k = [parms |-> ra.got, keyLength |-> rb.got, key |-> rc.got]
      OBVIOUS
    <2>3. PubKey(r) = Got(k, rc.rest)
      BY <1>1, <1>7, <2>2, Zenon DEF PubKey, PubKeyOf
    <2>4. PubKey(s) = Got(k, sc.rest)
      BY <1>2, <2>1, <2>2, Zenon DEF PubKey, PubKeyOf
    <2> QED BY <2>1, <2>3, <2>4, GotIs DEF Ahead
  <1>8. CASE ~rc.ok
    <2>1. PubKey(r) = Stuck
      BY <1>1, <1>8, Zenon DEF PubKey, PubKeyOf
    <2> QED BY <2>1, StuckAhead
  <1> QED BY <1>7, <1>8

\* n sizes.
AreSizes(n, sizes) == n \in Nat /\ sizes \in [1..n -> Int] /\ Len(sizes) = n

\* Numbers gets sizes.
LEMMA NumbersAreSizes ==
    ASSUME NEW r, NEW n \in Nat, IsBytes(r.rest), Numbers(r, n).ok
    PROVE  AreSizes(n, Numbers(r, n).got)
  <1>1. PICK k \in Nat : k = 4 * n
    OBVIOUS
  <1>2. r.ok /\ k <= Len(r.rest)
    BY <1>1 DEF Numbers, Stuck
  <1>3. PICK got : got = [i \in 1..n |-> Value(SubSeq(r.rest, 4 * i - 3, 4 * i))]
    OBVIOUS
  <1>4. Numbers(r, n).got = got
    BY <1>1, <1>2, <1>3 DEF Numbers, Got
  <1>5. \A i \in 1..n : Value(SubSeq(r.rest, 4 * i - 3, 4 * i)) \in Int
    <2> SUFFICES ASSUME NEW i \in 1..n
                 PROVE  Value(SubSeq(r.rest, 4 * i - 3, 4 * i)) \in Int
      OBVIOUS
    <2>1. PICK a \in Nat, b \in Nat :
            a = 4 * i - 3 /\ b = 4 * i /\ a >= 1 /\ b <= k /\ b = a + 3
      BY <1>1
    <2>2. r.rest \in Seq(Byte) /\ b <= Len(r.rest) /\ Len(r.rest) \in Nat
      BY <1>2, <2>1 DEF IsBytes
    <2>3. SubSeq(r.rest, a, b) \in Seq(Byte) /\ Len(SubSeq(r.rest, a, b)) = 4
      BY <2>1, <2>2
    <2>4. Fits(4, Value(SubSeq(r.rest, a, b)))
      BY <2>3, ValueIsBytes
    <2> QED BY <2>1, <2>4, FitsIs
  <1>6. got \in [1..n -> Int] /\ Len(got) = n
    BY <1>3, <1>5
  <1> QED BY <1>4, <1>6 DEF AreSizes

\* It gets the same area after the same areas.
LEMMA NextAreaAhead ==
    ASSUME NEW r, NEW s, NEW more, Ahead(r, s, more), NEW n
    PROVE  Ahead(NextArea(r, n), NextArea(s, n), more)
  <1>1. PICK ra, sa : ra = Area(r, n) /\ sa = Area(s, n)
    OBVIOUS
  <1>2. Ahead(ra, sa, more)
    BY <1>1, AreaAhead
  <1>3. CASE ra.ok
    <2>1. r.ok
      BY <1>1, <1>3 DEF Area, Stuck
    <2>2. /\ sa.ok /\ sa.got = ra.got /\ Joins(ra.rest, more, sa.rest)
          /\ s.got = r.got
      BY <1>2, <1>3, <2>1 DEF Ahead
    <2>3. /\ NextArea(r, n) = Got(Append(r.got, ra.got), ra.rest)
          /\ NextArea(s, n) = Got(Append(r.got, ra.got), sa.rest)
      BY <1>1, <1>3, <2>2, Zenon DEF NextArea, Longer
    <2> QED BY <2>2, <2>3, GotIs DEF Ahead
  <1>4. CASE ~ra.ok
    <2>1. NextArea(r, n) = Stuck
      BY <1>1, <1>4, Zenon DEF NextArea, Longer
    <2> QED BY <2>1, StuckAhead
  <1> QED BY <1>3, <1>4

\* It gets the same areas of the same sizes.
LEMMA AreasAhead ==
    ASSUME NEW r, NEW s, NEW more, Ahead(r, s, more), NEW n, NEW sizes,
           r.ok => AreSizes(n, sizes) /\ r = Got(r.got, r.rest) /\ s = Got(s.got, s.rest)
    PROVE  Ahead(Areas(r, sizes), Areas(s, sizes), more)
  <1>1. CASE ~r.ok
    <2>1. Areas(r, sizes) = Stuck
      BY <1>1, Zenon DEF Areas
    <2> QED BY <2>1, StuckAhead
  <1>2. CASE r.ok
    <2>1. s.ok /\ Joins(r.rest, more, s.rest) /\ AreSizes(n, sizes)
      BY <1>2 DEF Ahead
    <2>2. /\ n \in Nat /\ sizes \in [1..n -> Int] /\ Len(sizes) = n
          /\ r.rest \in Seq(Byte) /\ s.rest \in Seq(Byte)
      BY <2>1, Joined DEF AreSizes, Joins, IsBytes
    <2>3. PICK f : Reads(r.rest, n, sizes, f)
      BY <2>2, ReadsExists
    <2>4. PICK g : Reads(s.rest, n, sizes, g)
      BY <2>2, ReadsExists
    <2>5. Areas(r, sizes) = f[n]
      BY <1>2, <2>2, <2>3, AreasReads
    <2>6. Areas(s, sizes) = g[n]
      BY <1>2, <2>2, <2>4, AreasReads
    <2> DEFINE S == {i \in 0..n : Ahead(f[i], g[i], more)}
    <2>7. 0 \in S
      <3>1. f[0] = Reader(r.rest) /\ g[0] = Reader(s.rest) /\ 0 \in 0..n
        BY <2>2, <2>3, <2>4 DEF Reads
      <3>2. Ahead(Reader(r.rest), Reader(s.rest), more)
        BY <2>1, GotIs DEF Reader, Ahead
      <3> QED BY <3>1, <3>2
    <2>8. ASSUME NEW i \in 1..n, i - 1 \in S
          PROVE  i \in S
      <3>1. Ahead(f[i - 1], g[i - 1], more) /\ i \in 0..n
        BY <2>2, <2>8
      <3>2. f[i] = NextArea(f[i - 1], sizes[i]) /\ g[i] = NextArea(g[i - 1], sizes[i])
        BY <2>3, <2>4 DEF Reads
      <3>3. Ahead(f[i], g[i], more)
        BY <3>1, <3>2, NextAreaAhead
      <3> QED BY <3>1, <3>3
    <2>9. \A i \in 0..n : i \in S
      <3> HIDE DEF S
      <3> QED BY <2>2, <2>7, <2>8, InductionUpTo
    <2>10. Ahead(f[n], g[n], more)
      <3>1. n \in 0..n
        BY <2>2
      <3> QED BY <2>9, <3>1
    <2> QED BY <2>5, <2>6, <2>10
  <1> QED BY <1>1, <1>2

\* A reader that is stuck stays so.
Leads(r, s) == s.ok => r.ok

\* A reader that is stuck gets nowhere.
LEMMA StuckLeads ==
    ASSUME NEW r
    PROVE  Leads(r, Stuck)
  BY DEF Leads, Stuck

\* No reader gets on from where another is stuck.
LEMMA ReadersLead ==
    /\ \A r, n : Leads(r, Number(r, n))
    /\ \A r, n : Leads(r, Numbers(r, n))
    /\ \A r, n : Leads(r, Area(r, n))
    /\ \A r, n : Leads(r, Areas(r, n))
    /\ \A r : Leads(r, NonZero(r))
  <1>1. \A r, s : r.ok => Leads(r, s)
    BY Zenon DEF Leads
  <1>2. \A r, n : Leads(r, Number(r, n))
    BY <1>1, StuckLeads, Zenon DEF Number
  <1>3. \A r, n : Leads(r, Numbers(r, n))
    BY <1>1, StuckLeads, Zenon DEF Numbers
  <1>4. \A r, n : Leads(r, Area(r, n))
    BY <1>1, StuckLeads, Zenon DEF Area
  <1>5. \A r, n : Leads(r, Areas(r, n))
    BY <1>1, StuckLeads, Zenon DEF Areas
  <1>6. \A r : Leads(r, NonZero(r))
    BY <1>1, StuckLeads, Zenon DEF NonZero
  <1> QED BY <1>2, <1>3, <1>4, <1>5, <1>6

\* Nor after several steps.
LEMMA LeadsOn ==
    ASSUME NEW r, NEW s, NEW t, Leads(r, s), Leads(s, t)
    PROVE  Leads(r, t)
  BY DEF Leads

\* Nor over the structures of keys.
LEMMA KeysLead ==
    ASSUME NEW r
    PROVE  Leads(r, KeyParms(r)) /\ Leads(r, PubKey(r))
  <1>1. \A x, y, z : Leads(x, y) /\ Leads(y, z) => Leads(x, z)
    BY LeadsOn
  <1>2. Leads(r, KeyParms(r))
    <2>1. PICK a, b, c, d, e :
            /\ a = Number(r, 4) /\ b = Number(a, 2) /\ c = Number(b, 2)
            /\ d = Number(c, 4) /\ e = Area(d, d.got)
      OBVIOUS
    <2>2. Leads(r, a) /\ Leads(a, b) /\ Leads(b, c) /\ Leads(c, d) /\ Leads(d, e)
      BY <2>1, ReadersLead, Zenon
    <2>3. e.ok \/ KeyParms(r) = Stuck
      BY <2>1, Zenon DEF KeyParms, KeyParmsOf
    <2>4. Leads(r, e)
      BY <1>1, <2>2, Zenon
    <2> QED BY <2>3, <2>4, StuckLeads, Zenon DEF Leads
  <1>3. Leads(r, PubKey(r))
    <2>1. PICK a, b, c, d :
            a = KeyParms(r) /\ b = Number(a, 4) /\ c = NonZero(b) /\ d = Area(c, c.got)
      OBVIOUS
    <2>2. Leads(r, a) /\ Leads(a, b) /\ Leads(b, c) /\ Leads(c, d)
      BY <1>2, <2>1, ReadersLead, Zenon
    <2>3. d.ok \/ PubKey(r) = Stuck
      BY <2>1, Zenon DEF PubKey, PubKeyOf
    <2>4. Leads(r, d)
      BY <1>1, <2>2, Zenon
    <2> QED BY <2>3, <2>4, StuckLeads, Zenon DEF Leads
  <1> QED BY <1>2, <1>3

\* So it starts.
LEMMA ReaderAhead ==
    ASSUME NEW bytes, NEW more, NEW all, Joins(bytes, more, all)
    PROVE  Ahead(Reader(bytes), Reader(all), more)
  BY GotIs DEF Ahead, Reader

\* Nothing is left, and of more bytes as many as there are more.
LEMMA NothingLeft ==
    ASSUME NEW r, NEW s, NEW more, Ahead(r, s, more), Exactly(r), Exactly(s)
    PROVE  more = <<>>
  <1>1. r.rest = <<>> /\ s.rest = <<>> /\ Joins(<<>>, more, <<>>)
    BY DEF Exactly, Ahead
  <1>2. more \in Seq(Byte) /\ <<>> = <<>> \o more
    BY <1>1 DEF Joins, IsBytes
  <1>3. <<>> \o more = more
    BY <1>2, ConcatEmptySeq
  <1> QED BY <1>2, <1>3

\* It gets the same TPM_SYMMETRIC_KEY.
LEMMA SymmetricKeyAhead ==
    ASSUME NEW bytes, NEW more, NEW all, Joins(bytes, more, all)
    PROVE  Ahead(SymmetricKey(bytes), SymmetricKey(all), more)
  <1>1. PICK ra, rb, rc, rd :
            /\ ra = Number(Reader(bytes), 4) /\ rb = Number(ra, 2)
            /\ rc = NonZero(Number(rb, 2)) /\ rd = Area(rc, rc.got)
    OBVIOUS
  <1>2. PICK sa, sb, sc, sd :
            /\ sa = Number(Reader(all), 4) /\ sb = Number(sa, 2)
            /\ sc = NonZero(Number(sb, 2)) /\ sd = Area(sc, sc.got)
    OBVIOUS
  <1>3. Ahead(ra, sa, more)
    BY <1>1, <1>2, ReaderAhead, NumberAhead
  <1>4. Ahead(rb, sb, more)
    BY <1>1, <1>2, <1>3, NumberAhead
  <1>5. Ahead(rc, sc, more)
    BY <1>1, <1>2, <1>4, NumberAhead, NonZeroAhead
  <1>6. Ahead(rd, sd, more)
    <2>1. rc.ok => rc.got = sc.got
      BY <1>5 DEF Ahead
    <2> QED BY <1>1, <1>2, <1>5, <2>1, AreaAhead
  <1>7. rd.ok => ra.ok /\ rb.ok /\ rc.ok
    <2>1. PICK t : t = Number(rb, 2) /\ rc = NonZero(t)
      BY <1>1
    <2>2. Leads(rc, rd) /\ Leads(t, rc) /\ Leads(rb, t) /\ Leads(ra, rb)
      BY <1>1, <2>1, ReadersLead, Zenon
    <2> QED BY <2>2, Zenon DEF Leads
  <1>8. CASE rd.ok /\ ra.got \in AlgMap
    <2>1. /\ sa.got = ra.got /\ sb.got = rb.got /\ sd.got = rd.got
          /\ sd.ok /\ Joins(rd.rest, more, sd.rest)
      BY <1>3, <1>4, <1>6, <1>7, <1>8 DEF Ahead
    <2>2. PICK k : k = [alg |-> ra.got, enc |-> rb.got, key |-> rd.got]
      OBVIOUS
    <2>3. SymmetricKey(bytes) = Got(k, rd.rest)
      BY <1>1, <1>8, <2>2, Zenon DEF SymmetricKey
    <2>4. SymmetricKey(all) = Got(k, sd.rest)
      BY <1>2, <1>8, <2>1, <2>2, Zenon DEF SymmetricKey
    <2> QED BY <2>1, <2>3, <2>4, GotIs DEF Ahead
  <1>9. CASE ~(rd.ok /\ ra.got \in AlgMap)
    <2>1. SymmetricKey(bytes) = Stuck
      BY <1>1, <1>9, Zenon DEF SymmetricKey
    <2> QED BY <2>1, StuckAhead
  <1> QED BY <1>8, <1>9

\* Of bytes and longer ones, one at most is a symmetric key.
LEMMA KeyNotLonger ==
    ASSUME NEW bytes, NEW more, NEW all, Joins(bytes, more, all),
           ParseSymmetricKey(bytes) # <<>>, ParseSymmetricKey(all) # <<>>
    PROVE  more = <<>>
  <1>1. Exactly(SymmetricKey(bytes)) /\ Exactly(SymmetricKey(all))
    BY Zenon DEF ParseSymmetricKey
  <1>2. Ahead(SymmetricKey(bytes), SymmetricKey(all), more)
    BY SymmetricKeyAhead
  <1> QED BY <1>1, <1>2, NothingLeft

\* Of bytes and longer ones, one at most is TPM_ASYM_CA_CONTENTS.
LEMMA ContentsNotLonger ==
    ASSUME NEW bytes, NEW more, NEW all, Joins(bytes, more, all),
           ReadAsymCAContents(bytes) # <<>>, ReadAsymCAContents(all) # <<>>
    PROVE  more = <<>>
  <1>1. PICK r, s : r = SymmetricKey(bytes) /\ s = SymmetricKey(all)
    OBVIOUS
  <1>2. r.ok /\ Len(r.rest) = 20 /\ s.ok /\ Len(s.rest) = 20
    BY <1>1, Zenon DEF ReadAsymCAContents
  <1>3. Joins(r.rest, more, s.rest)
    BY <1>1, <1>2, SymmetricKeyAhead DEF Ahead
  <1>4. /\ r.rest \in Seq(Byte) /\ more \in Seq(Byte) /\ s.rest = r.rest \o more
    BY <1>3 DEF Joins, IsBytes
  <1>5. Len(s.rest) = Len(r.rest) + Len(more) /\ Len(more) \in Nat
    BY <1>4, FrontOfConcat
  <1>6. Len(more) = 0
    <2>1. PICK n \in Nat : n = Len(more)
      BY <1>5
    <2>2. 20 = 20 + n
      BY <1>2, <1>5, <2>1
    <2> QED BY <2>1, <2>2
  <1> QED BY <1>4, <1>6, EmptySeq

\* Of bytes and longer ones, one at most is TPM_SYM_CA_ATTESTATION.
LEMMA AttestationNotLonger ==
    ASSUME NEW bytes, NEW more, NEW all, Joins(bytes, more, all),
           ReadAttestation(bytes) # <<>>, ReadAttestation(all) # <<>>
    PROVE  more = <<>>
  <1>1. PICK ra, rb, rc :
            ra = Number(Reader(bytes), 4) /\ rb = KeyParms(ra) /\ rc = Area(rb, ra.got)
    OBVIOUS
  <1>2. PICK sa, sb, sc :
            sa = Number(Reader(all), 4) /\ sb = KeyParms(sa) /\ sc = Area(sb, sa.got)
    OBVIOUS
  <1>3. Exactly(rc)
    BY <1>1, Zenon DEF ReadAttestation
  <1>4. Exactly(sc)
    BY <1>2, Zenon DEF ReadAttestation
  <1>5. Ahead(ra, sa, more)
    BY <1>1, <1>2, ReaderAhead, NumberAhead
  <1>6. Ahead(rb, sb, more)
    BY <1>1, <1>2, <1>5, KeyParmsAhead
  <1>7. ra.ok /\ rb.ok
    <2>1. Leads(rb, rc) /\ Leads(ra, rb)
      BY <1>1, ReadersLead, KeysLead, Zenon
    <2> QED BY <1>3, <2>1, Zenon DEF Exactly, Leads
  <1>8. Ahead(rc, sc, more)
    <2>1. sa.got = ra.got
      BY <1>5, <1>7 DEF Ahead
    <2> QED BY <1>1, <1>2, <1>6, <2>1, AreaAhead
  <1> QED BY <1>3, <1>4, <1>8, NothingLeft

\* A reader that is not stuck got something.
LEMMA GotOfReaders ==
    ASSUME NEW r, NEW n
    PROVE  /\ Number(r, n).ok => Number(r, n) = Got(Number(r, n).got, Number(r, n).rest)
           /\ Numbers(r, n).ok => Numbers(r, n) = Got(Numbers(r, n).got, Numbers(r, n).rest)
           /\ Area(r, n).ok => Area(r, n) = Got(Area(r, n).got, Area(r, n).rest)
           /\ PubKey(r).ok => PubKey(r) = Got(PubKey(r).got, PubKey(r).rest)
  <1>1. \A v, rest : Got(v, rest).got = v /\ Got(v, rest).rest = rest /\ Got(v, rest).ok
    BY DEF Got
  <1>2. ~Stuck.ok
    BY DEF Stuck
  <1>3. \A x : (x = Stuck \/ \E v, rest : x = Got(v, rest)) => (x.ok => x = Got(x.got, x.rest))
    BY <1>1, <1>2
  <1>4. Number(r, n) = Stuck \/ \E v, rest : Number(r, n) = Got(v, rest)
    BY Zenon DEF Number
  <1>5. Numbers(r, n) = Stuck \/ \E v, rest : Numbers(r, n) = Got(v, rest)
    BY Zenon DEF Numbers
  <1>6. Area(r, n) = Stuck \/ \E v, rest : Area(r, n) = Got(v, rest)
    BY Zenon DEF Area
  <1>7. PubKey(r) = Stuck \/ \E v, rest : PubKey(r) = Got(v, rest)
    BY Zenon DEF PubKey, PubKeyOf
  <1> QED BY <1>3, <1>4, <1>5, <1>6, <1>7, Zenon

\* Of bytes and longer ones, one at most is TPM_IDENTITY_PROOF.
LEMMA ProofNotLonger ==
    ASSUME NEW bytes, NEW more, NEW all, Joins(bytes, more, all),
           ParseIdentityProof(bytes) # <<>>, ParseIdentityProof(all) # <<>>
    PROVE  more = <<>>
  <1>1. PICK ra, rb, rc, rd :
            /\ ra = Area(Reader(bytes), 4) /\ rb = Numbers(ra, 5) /\ rc = PubKey(rb)
            /\ rd = Areas(rc, rb.got)
    OBVIOUS
  <1>2. PICK sa, sb, sc, sd :
            /\ sa = Area(Reader(all), 4) /\ sb = Numbers(sa, 5) /\ sc = PubKey(sb)
            /\ sd = Areas(sc, sb.got)
    OBVIOUS
  <1>3. Exactly(rd)
    BY <1>1, Zenon DEF ParseIdentityProof, IdentityProof
  <1>4. Exactly(sd)
    BY <1>2, Zenon DEF ParseIdentityProof, IdentityProof
  <1>5. Ahead(ra, sa, more)
    BY <1>1, <1>2, ReaderAhead, AreaAhead
  <1>6. Ahead(rb, sb, more)
    BY <1>1, <1>2, <1>5, NumbersAhead
  <1>7. Ahead(rc, sc, more)
    BY <1>1, <1>2, <1>6, PubKeyAhead
  <1>8. ra.ok /\ rb.ok /\ rc.ok
    <2>1. Leads(rc, rd) /\ Leads(rb, rc) /\ Leads(ra, rb)
      BY <1>1, ReadersLead, KeysLead, Zenon
    <2> QED BY <1>3, <2>1, Zenon DEF Exactly, Leads
  <1>9. sb.got = rb.got /\ sc.ok /\ IsBytes(ra.rest)
    BY <1>5, <1>6, <1>7, <1>8 DEF Ahead, Joins
  <1>10. AreSizes(5, rb.got)
    BY <1>1, <1>8, <1>9, NumbersAreSizes
  <1>11. rc = Got(rc.got, rc.rest) /\ sc = Got(sc.got, sc.rest)
    BY <1>1, <1>2, <1>8, <1>9, GotOfReaders
  <1>12. Ahead(rd, sd, more)
    BY <1>1, <1>2, <1>7, <1>9, <1>10, <1>11, AreasAhead
  <1> QED BY <1>3, <1>4, <1>12, NothingLeft

\* Of bytes and longer ones, one at most is the content of a CSR.
LEMMA CsrNotLonger ==
    ASSUME NEW bytes, NEW more, NEW all, Joins(bytes, more, all),
           ParseTCGCSRIDevIDContent(bytes) # <<>>, ParseTCGCSRIDevIDContent(all) # <<>>
    PROVE  more = <<>>
  <1>1. PICK ra, rb, rc, rd, re, rf :
            /\ ra = NonZero(Number(Reader(bytes), 4)) /\ rb = NonZero(Number(ra, 4))
            /\ rc = NonZero(Number(rb, 4)) /\ rd = Area(rc, rc.got)
            /\ re = Numbers(rd, 13) /\ rf = Areas(re, re.got)
    OBVIOUS
  <1>2. PICK sa, sb, sc, sd, se, sf :
            /\ sa = NonZero(Number(Reader(all), 4)) /\ sb = NonZero(Number(sa, 4))
            /\ sc = NonZero(Number(sb, 4)) /\ sd = Area(sc, sc.got)
            /\ se = Numbers(sd, 13) /\ sf = Areas(se, se.got)
    OBVIOUS
  <1>3. Exactly(rf)
    BY <1>1, Zenon DEF ParseTCGCSRIDevIDContent
  <1>4. Exactly(sf)
    BY <1>2, Zenon DEF ParseTCGCSRIDevIDContent
  <1>5. Ahead(ra, sa, more)
    BY <1>1, <1>2, ReaderAhead, NumberAhead, NonZeroAhead
  <1>6. Ahead(rb, sb, more)
    BY <1>1, <1>2, <1>5, NumberAhead, NonZeroAhead
  <1>7. Ahead(rc, sc, more)
    BY <1>1, <1>2, <1>6, NumberAhead, NonZeroAhead
  <1>8. re.ok /\ rd.ok /\ rc.ok
    <2>1. Leads(re, rf) /\ Leads(rd, re) /\ Leads(rc, rd)
      BY <1>1, ReadersLead, Zenon
    <2> QED BY <1>3, <2>1, Zenon DEF Exactly, Leads
  <1>9. Ahead(rd, sd, more)
    <2>1. sc.got = rc.got
      BY <1>7, <1>8 DEF Ahead
    <2> QED BY <1>1, <1>2, <1>7, <2>1, AreaAhead
  <1>10. Ahead(re, se, more)
    BY <1>1, <1>2, <1>9, NumbersAhead
  <1>11. se.got = re.got /\ se.ok /\ IsBytes(rd.rest)
    BY <1>8, <1>9, <1>10 DEF Ahead, Joins
  <1>12. AreSizes(13, re.got)
    BY <1>1, <1>8, <1>11, NumbersAreSizes
  <1>13. re = Got(re.got, re.rest) /\ se = Got(se.got, se.rest)
    BY <1>1, <1>2, <1>8, <1>11, GotOfReaders
  <1>14. Ahead(rf, sf, more)
    BY <1>1, <1>2, <1>10, <1>11, <1>12, <1>13, AreasAhead
  <1> QED BY <1>3, <1>4, <1>14, NothingLeft

\* The reader of a request gets the same from longer bytes.
LEMMA BlobReaderAhead ==
    ASSUME NEW bytes, NEW more, NEW all, Joins(bytes, more, all)
    PROVE  Ahead(BlobReader(bytes), BlobReader(all), more)
  <1>1. PICK ra, rb, rc, rd, re, rf :
            /\ ra = NonZero(Number(Reader(bytes), 4)) /\ rb = NonZero(Number(ra, 4))
            /\ rc = KeyParms(rb) /\ rd = KeyParms(rc)
            /\ re = Area(rd, ra.got) /\ rf = Area(re, rb.got)
    OBVIOUS
  <1>2. PICK sa, sb, sc, sd, se, sf :
            /\ sa = NonZero(Number(Reader(all), 4)) /\ sb = NonZero(Number(sa, 4))
            /\ sc = KeyParms(sb) /\ sd = KeyParms(sc)
            /\ se = Area(sd, sa.got) /\ sf = Area(se, sb.got)
    OBVIOUS
  <1>3. Ahead(ra, sa, more)
    BY <1>1, <1>2, ReaderAhead, NumberAhead, NonZeroAhead
  <1>4. Ahead(rb, sb, more)
    BY <1>1, <1>2, <1>3, NumberAhead, NonZeroAhead
  <1>5. Ahead(rc, sc, more)
    BY <1>1, <1>2, <1>4, KeyParmsAhead
  <1>6. Ahead(rd, sd, more)
    BY <1>1, <1>2, <1>5, KeyParmsAhead
  <1>7. (re.ok => rb.ok) /\ (rd.ok => ra.ok)
    <2>1. PICK t : t = Number(ra, 4) /\ rb = NonZero(t)
      BY <1>1
    <2>2. /\ Leads(ra, t) /\ Leads(t, rb) /\ Leads(rb, rc) /\ Leads(rc, rd)
          /\ Leads(rd, re)
      BY <1>1, <2>1, ReadersLead, KeysLead, Zenon
    <2> QED BY <2>2, Zenon DEF Leads
  <1>8. Ahead(re, se, more)
    <2>1. rd.ok => ra.got = sa.got
      BY <1>3, <1>7 DEF Ahead
    <2> QED BY <1>1, <1>2, <1>6, <2>1, AreaAhead
  <1>9. Ahead(rf, sf, more)
    <2>1. re.ok => rb.got = sb.got
      BY <1>4, <1>7 DEF Ahead
    <2> QED BY <1>1, <1>2, <1>8, <2>1, AreaAhead
  <1>10. BlobReader(bytes) = rf /\ BlobReader(all) = sf
    BY <1>1, <1>2, Zenon DEF BlobReader
  <1> QED BY <1>9, <1>10

\* What is in front of a written TPM_IDENTITY_REQ is none, or all of it.
LEMMA RequestNotLonger ==
    ASSUME NEW q, NEW x, IsIdentityRequest(q, x), NEW bytes, NEW more,
           Joins(bytes, more, x), ParseIdentityRequest(bytes) # <<>>
    PROVE  more = <<>>
  <1>1. BlobReader(bytes).ok
    BY Zenon DEF ParseIdentityRequest, BlobReader, IdentityRequest
  <1>2. Joins(x, <<>>, x)
    BY IdentityRequestIsBytes, NothingBehind
  <1>3. BlobReader(x) = Got(q.symBlob, <<>>)
    BY <1>2, RequestRead
  <1>4. PICK rest : Joins(rest, more, <<>>)
    BY <1>1, <1>3, BlobReaderAhead, GotIs DEF Ahead
  <1>5. rest \in Seq(Byte) /\ more \in Seq(Byte) /\ <<>> = rest \o more
    BY <1>4 DEF Joins, IsBytes
  <1>6. Len(<<>>) = Len(rest) + Len(more) /\ Len(rest) \in Nat /\ Len(more) \in Nat
    BY <1>5, FrontOfConcat
  <1>7. Len(more) = 0
    BY <1>6
  <1> QED BY <1>5, <1>7, EmptySeq

\* Nothing in front of a written message is read, but all of it.
LEMMA FormNotLonger ==
    ASSUME NEW m \in Messages, NEW x, x = Write(m.form, m.value),
           NEW bytes, NEW more, Joins(bytes, more, x), Read(m, bytes) # <<>>
    PROVE  more = <<>>
  <1>1. ASSUME m.form # "exchange"
        PROVE  Read(m, x) # <<>>
    <2>1. IsBytes(x)
      BY FormSurvives
    <2>2. Intended(m) /\ Follow(m, <<>>) /\ Joins(x, <<>>, x)
      BY <1>1, <2>1, NothingBehind, NothingIsBytes DEF Intended, Follow, IsBytes
    <2>3. Read(m, x) = <<Meant(m)>>
      BY <2>2, FormSurvives
    <2> QED BY <2>3
  <1>2. CASE m.form = "request"
    <2>1. IsIdentityRequest(m.value, x)
      BY <1>2, FormsAre DEF Write, IsIdentityRequest
    <2>2. ParseIdentityRequest(bytes) # <<>>
      BY <1>2 DEF Read
    <2> QED BY <2>1, <2>2, RequestNotLonger
  <1>3. CASE m.form = "exchange"
    <2>1. m.value \in ExchangeValues /\ x = IdentityRequestBytes(TpmRequest(m.value))
      BY <1>3, FormsAre DEF Write
    <2>2. IsIdentityRequest(TpmRequest(m.value), x)
      BY <2>1, TpmRequestIs DEF IsIdentityRequest
    <2>3. ReadTpmRequest(m.value.issuer, bytes) # <<>>
      BY <1>3 DEF Read
    <2>4. ParseIdentityRequest(bytes) # <<>>
      <3>1. ProofIn(ProofText(<<>>)) = <<>>
        BY DEF ProofIn, ProofText
      <3>2. \A issuer : BoundProof(issuer, <<>>) = <<>>
        BY Zenon DEF BoundProof
      <3> QED BY <2>3, <3>1, <3>2, Zenon DEF ReadTpmRequest
    <2> QED BY <2>2, <2>4, RequestNotLonger
  <1>4. CASE m.form = "proof"
    BY <1>1, <1>4, ProofNotLonger DEF Read
  <1>5. CASE m.form = "key"
    BY <1>1, <1>5, KeyNotLonger DEF Read
  <1>6. CASE m.form = "contents"
    BY <1>1, <1>6, ContentsNotLonger DEF Read
  <1>7. CASE m.form = "cert"
    <2>1. \A key, b : ReadAikCertBlob(key, b) # <<>> => ReadAttestation(b) # <<>>
      BY Zenon DEF ReadAikCertBlob, CertIn
    <2>2. ReadAttestation(bytes) # <<>>
      BY <1>7, <2>1 DEF Read
    <2>3. ReadAttestation(x) # <<>>
      BY <1>1, <1>7, <2>1 DEF Read
    <2> QED BY <2>2, <2>3, AttestationNotLonger
  <1>8. CASE m.form = "csr"
    BY <1>1, <1>8, CsrNotLonger DEF Read
  <1>9. m.form \in Forms
    BY FormsAre
  <1> QED BY <1>2, <1>3, <1>4, <1>5, <1>6, <1>7, <1>8, <1>9 DEF Forms

-----------------------------------------------------------------------------
(* What is accepted is complete.                                           *)

\* A reader leaves bytes.
Leaves(r) == r.ok => IsBytes(r.rest)

\* A reader got something, or is stuck.
LEMMA StuckLeaves == ~Stuck.ok /\ Leaves(Stuck)
  BY DEF Stuck, Leaves

\* Bytes that are all there to read.
LEMMA ReaderLeaves ==
    ASSUME NEW bytes, IsBytes(bytes)
    PROVE  Leaves(Reader(bytes)) /\ Reader(bytes).ok /\ Reader(bytes).rest = bytes
  BY GotIs DEF Leaves, Reader

\* A number is read and leaves bytes.
LEMMA NumberLeaves ==
    ASSUME NEW r, Leaves(r), NEW w \in Nat
    PROVE  Leaves(Number(r, w))
  <1>1. CASE r.ok /\ w <= Len(r.rest)
    <2>1. Number(r, w) = Got(Value(SubSeq(r.rest, 1, w)), Behind(r.rest, w))
      BY <1>1, Zenon DEF Number
    <2>2. IsBytes(Behind(r.rest, w))
      BY <1>1, FrontOfBytes DEF Leaves, IsBytes
    <2> QED BY <2>1, <2>2, GotIs DEF Leaves
  <1>2. CASE ~(r.ok /\ w <= Len(r.rest))
    BY <1>2, StuckLeaves, Zenon DEF Number
  <1> QED BY <1>1, <1>2

\* One that is not zero is not zero.
LEMMA NonZeroLeaves ==
    ASSUME NEW r, Leaves(r)
    PROVE  Leaves(NonZero(r)) /\ (NonZero(r).ok => NonZero(r).got # 0)
  <1>1. CASE r.ok /\ r.got # 0
    <2>1. NonZero(r) = r
      BY <1>1, Zenon DEF NonZero
    <2> QED BY <1>1, <2>1
  <1>2. CASE ~(r.ok /\ r.got # 0)
    BY <1>2, StuckLeaves, Zenon DEF NonZero
  <1> QED BY <1>1, <1>2

\* Numbers are read and leave bytes.
LEMMA NumbersLeave ==
    ASSUME NEW r, Leaves(r), NEW n \in Nat
    PROVE  /\ Leaves(Numbers(r, n))
           /\ Numbers(r, n).ok => /\ AreSizes(n, Numbers(r, n).got)
                                  /\ Numbers(r, n) = Got(Numbers(r, n).got, Numbers(r, n).rest)
  <1>1. PICK k \in Nat : k = 4 * n
    OBVIOUS
  <1>2. CASE r.ok /\ k <= Len(r.rest)
    <2>1. Numbers(r, n) = Got([i \in 1..n |-> Value(SubSeq(r.rest, 4 * i - 3, 4 * i))],
                              Behind(r.rest, k))
      BY <1>1, <1>2, Zenon DEF Numbers
    <2>2. IsBytes(Behind(r.rest, k)) /\ IsBytes(r.rest)
      BY <1>2, FrontOfBytes DEF Leaves, IsBytes
    <2>3. Leaves(Numbers(r, n))
      BY <2>1, <2>2, GotIs DEF Leaves
    <2> QED BY <2>2, <2>3, NumbersAreSizes, GotOfReaders
  <1>3. CASE ~(r.ok /\ k <= Len(r.rest))
    <2>1. Numbers(r, n) = Stuck
      BY <1>1, <1>3, Zenon DEF Numbers
    <2>2. Leaves(Numbers(r, n)) /\ ~Numbers(r, n).ok
      BY <2>1, StuckLeaves, Zenon
    <2> QED BY <2>2, Zenon
  <1> QED BY <1>2, <1>3

\* An area is bytes, as many as it has to have.
LEMMA AreaLeaves ==
    ASSUME NEW r, Leaves(r), NEW n
    PROVE  /\ Leaves(Area(r, n))
           /\ Area(r, n).ok => IsBytes(Area(r, n).got) /\ Len(Area(r, n).got) = n
  <1>1. CASE r.ok /\ n \in 0..Len(r.rest)
    <2>1. PICK front, behind : front = SubSeq(r.rest, 1, n) /\ behind = Behind(r.rest, n)
      OBVIOUS
    <2>2. Area(r, n) = Got(front, behind)
      BY <1>1, <2>1, Zenon DEF Area
    <2>3. r.rest \in Seq(Byte) /\ n \in Nat /\ n <= Len(r.rest)
      BY <1>1 DEF Leaves, IsBytes
    <2>4. IsBytes(front) /\ Len(front) = n /\ IsBytes(behind)
      BY <2>1, <2>3, FrontOfBytes DEF IsBytes
    <2> QED BY <2>2, <2>4, GotIs DEF Leaves
  <1>2. CASE ~(r.ok /\ n \in 0..Len(r.rest))
    <2>1. Area(r, n) = Stuck
      BY <1>2, Zenon DEF Area
    <2> QED BY <2>1, StuckLeaves
  <1> QED BY <1>1, <1>2

\* An area whose size is not zero is not empty.
LEMMA AreaNotEmpty ==
    ASSUME NEW r, Leaves(r), NEW n, n # 0, Area(r, n).ok
    PROVE  Area(r, n).got # <<>>
  <1>1. Len(Area(r, n).got) = n
    BY AreaLeaves
  <1>2. Len(<<>>) = 0
    OBVIOUS
  <1> QED BY <1>1, <1>2

\* Two numbers that are not zero, and an area behind its size.
FramedReader(bytes) ==
    LET first  == NonZero(Number(Reader(bytes), 4))
        second == NonZero(Number(first, 4))
        size   == Number(second, 4)
    IN [first |-> first, second |-> second, area |-> Area(size, size.got)]

\* If the area is read the numbers are.
LEMMA FramedIsComplete ==
    ASSUME NEW bytes, IsBytes(bytes), FramedReader(bytes).area.ok
    PROVE  /\ FramedReader(bytes).first.got # 0 /\ FramedReader(bytes).second.got # 0
           /\ IsBytes(FramedReader(bytes).area.got)
  <1>1. PICK a, b, c, d, e, f :
            /\ a = Number(Reader(bytes), 4) /\ b = NonZero(a)
            /\ c = Number(b, 4) /\ d = NonZero(c) /\ e = Number(d, 4)
            /\ f = Area(e, e.got)
    OBVIOUS
  <1>2. /\ FramedReader(bytes).first = b /\ FramedReader(bytes).second = d
        /\ FramedReader(bytes).area = f
    BY <1>1 DEF FramedReader
  <1>3. Leaves(a) /\ Leaves(b)
    BY <1>1, ReaderLeaves, NumberLeaves, NonZeroLeaves
  <1>4. Leaves(c) /\ Leaves(d)
    BY <1>1, <1>3, NumberLeaves, NonZeroLeaves
  <1>5. Leaves(e)
    BY <1>1, <1>4, NumberLeaves
  <1>6. e.ok /\ d.ok /\ b.ok
    <2>1. Leads(e, f) /\ Leads(d, e) /\ Leads(c, d) /\ Leads(b, c)
      BY <1>1, ReadersLead, Zenon
    <2> QED BY <1>2, <2>1, Zenon DEF Leads
  <1>7. b.got # 0 /\ d.got # 0
    BY <1>1, <1>3, <1>4, <1>6, NonZeroLeaves
  <1>8. IsBytes(f.got)
    BY <1>1, <1>2, <1>5, AreaLeaves
  <1> QED BY <1>2, <1>7, <1>8

\* TPM_RSA_KEY_PARMS and TPM_SYMMETRIC_KEY_PARMS have their numbers.
LEMMA FramedParms ==
    ASSUME NEW bytes, IsBytes(bytes)
    PROVE  /\ ParseRSAKeyParms(bytes) # <<>> =>
                \E p : /\ ParseRSAKeyParms(bytes) = <<p>>
                       /\ p.keyLength # 0 /\ p.numPrimes # 0
           /\ ParseSymmetricKeyParms(bytes) # <<>> =>
                \E p : /\ ParseSymmetricKeyParms(bytes) = <<p>>
                       /\ p.keyLength # 0 /\ p.blockSize # 0 /\ IsBytes(p.iv)
  <1>1. PICK a, b, c :
            /\ a = FramedReader(bytes).first /\ b = FramedReader(bytes).second
            /\ c = FramedReader(bytes).area
    OBVIOUS
  <1>2. c.ok => a.got # 0 /\ b.got # 0 /\ IsBytes(c.got)
    BY <1>1, FramedIsComplete
  <1>3. ParseRSAKeyParms(bytes) = RSAKeyParms(a, b, c)
    BY <1>1 DEF ParseRSAKeyParms, FramedReader
  <1>4. ParseSymmetricKeyParms(bytes) = SymmetricKeyParms(a, b, c)
    BY <1>1 DEF ParseSymmetricKeyParms, FramedReader
  <1>5. ASSUME ParseRSAKeyParms(bytes) # <<>>
        PROVE  \E p : /\ ParseRSAKeyParms(bytes) = <<p>>
                      /\ p.keyLength # 0 /\ p.numPrimes # 0
    <2>1. PICK p : p = [keyLength |-> a.got, numPrimes |-> b.got, exponent |-> c.got]
      OBVIOUS
    <2>2. ParseRSAKeyParms(bytes) = <<p>> /\ Exactly(c)
      BY <1>3, <1>5, <2>1, Zenon DEF RSAKeyParms
    <2>3. p.keyLength # 0 /\ p.numPrimes # 0
      BY <1>2, <2>1, <2>2 DEF Exactly
    <2> QED BY <2>2, <2>3
  <1>6. ASSUME ParseSymmetricKeyParms(bytes) # <<>>
        PROVE  \E p : /\ ParseSymmetricKeyParms(bytes) = <<p>>
                      /\ p.keyLength # 0 /\ p.blockSize # 0 /\ IsBytes(p.iv)
    <2>1. PICK p : p = [keyLength |-> a.got, blockSize |-> b.got, iv |-> c.got]
      OBVIOUS
    <2>2. ParseSymmetricKeyParms(bytes) = <<p>> /\ Exactly(c)
      BY <1>4, <1>6, <2>1, Zenon DEF SymmetricKeyParms
    <2>3. p.keyLength # 0 /\ p.blockSize # 0 /\ IsBytes(p.iv)
      BY <1>2, <2>1, <2>2 DEF Exactly
    <2> QED BY <2>2, <2>3
  <1> QED BY <1>5, <1>6

\* A sequence of one thing has no other.
LEMMA OnlyThing ==
    ASSUME NEW p, NEW s, s = <<p>>
    PROVE  Len(s) = 1 /\ s[1] = p /\ ToSet(s) = {p} /\ s # <<>>
  BY DEF ToSet

\* Nor has an empty one any.
LEMMA NoThing == Len(<<>>) = 0 /\ ToSet(<<>>) = {}
  BY DEF ToSet

\* Parameters as DecryptWithSymmetricKey takes them.
AesParmsAre(k) == k.sym = <<>> \/ \E p : k.sym = <<p>> /\ IsBytes(p.iv)

\* TPM_KEY_PARMS is complete.
LEMMA KeyParmsComplete ==
    ASSUME NEW r, Leaves(r)
    PROVE  /\ Leaves(KeyParms(r))
           /\ KeyParms(r).ok => /\ ParmsComplete(KeyParms(r).got)
                               /\ AesParmsAre(KeyParms(r).got)
  <1>1. PICK ra, rb, rc, rd, re :
            /\ ra = Number(r, 4) /\ rb = Number(ra, 2) /\ rc = Number(rb, 2)
            /\ rd = Number(rc, 4) /\ re = Area(rd, rd.got)
    OBVIOUS
  <1>2. Leaves(ra) /\ Leaves(rb)
    BY <1>1, NumberLeaves
  <1>3. Leaves(rc) /\ Leaves(rd)
    BY <1>1, <1>2, NumberLeaves
  <1>4. Leaves(re) /\ (re.ok => IsBytes(re.got))
    BY <1>1, <1>3, AreaLeaves
  <1>5. CASE re.ok /\ ra.got \in AlgMap /\ ParmsFit(ra.got, re.got)
    <2>1. PICK x, y : /\ x = IF ra.got = Rsa THEN ParseRSAKeyParms(re.got) ELSE <<>>
                      /\ y = IF ra.got \in Aes THEN ParseSymmetricKeyParms(re.got) ELSE <<>>
      OBVIOUS
    <2>2. PICK k : k = [alg |-> ra.got, enc |-> rb.got, sig |-> rc.got, rsa |-> x, sym |-> y]
      OBVIOUS
    <2>3. KeyParms(r) = Got(k, re.rest)
      BY <1>1, <1>5, <2>1, <2>2, Zenon DEF KeyParms, KeyParmsOf
    <2>4. k.alg \in AlgMap /\ k.rsa = x /\ k.sym = y /\ k.alg = ra.got
      BY <1>5, <2>2
    <2>5. IF k.alg = Rsa THEN \E p : x = <<p>> /\ p.keyLength # 0 /\ p.numPrimes # 0
                         ELSE x = <<>>
      BY <1>4, <1>5, <2>1, <2>4, FramedParms DEF ParmsFit
    <2>6. IF k.alg \in Aes
          THEN \E p : y = <<p>> /\ p.keyLength # 0 /\ p.blockSize # 0 /\ IsBytes(p.iv)
          ELSE y = <<>>
      BY <1>4, <1>5, <2>1, <2>4, FramedParms, AlgorithmsAre DEF ParmsFit
    <2>7. /\ Len(x) = IF k.alg = Rsa THEN 1 ELSE 0
          /\ \A p \in ToSet(x) : p.keyLength # 0 /\ p.numPrimes # 0
      <3>1. CASE k.alg = Rsa
        <4>1. PICK p : x = <<p>> /\ p.keyLength # 0 /\ p.numPrimes # 0
          BY <2>5, <3>1
        <4>2. Len(x) = 1 /\ ToSet(x) = {p}
          BY <4>1, OnlyThing
        <4> QED BY <3>1, <4>1, <4>2, Zenon
      <3>2. CASE k.alg # Rsa
        BY <2>5, <3>2, NoThing, Zenon
      <3> QED BY <3>1, <3>2
    <2>8. /\ Len(y) = IF k.alg \in Aes THEN 1 ELSE 0
          /\ \A p \in ToSet(y) : p.keyLength # 0 /\ p.blockSize # 0
      <3>1. CASE k.alg \in Aes
        <4>1. PICK p : y = <<p>> /\ p.keyLength # 0 /\ p.blockSize # 0
          BY <2>6, <3>1
        <4>2. Len(y) = 1 /\ ToSet(y) = {p}
          BY <4>1, OnlyThing
        <4> QED BY <3>1, <4>1, <4>2, Zenon
      <3>2. CASE k.alg \notin Aes
        BY <2>6, <3>2, NoThing, Zenon
      <3> QED BY <3>1, <3>2
    <2>9. ParmsComplete(k)
      BY <2>4, <2>7, <2>8, Zenon DEF ParmsComplete
    <2>10. AesParmsAre(k)
      BY <2>4, <2>6, Zenon DEF AesParmsAre
    <2> QED BY <1>4, <1>5, <2>3, <2>9, <2>10, GotIs DEF Leaves
  <1>6. CASE ~(re.ok /\ ra.got \in AlgMap /\ ParmsFit(ra.got, re.got))
    <2>1. KeyParms(r) = Stuck
      BY <1>1, <1>6, Zenon DEF KeyParms, KeyParmsOf
    <2> QED BY <2>1, StuckLeaves
  <1> QED BY <1>5, <1>6

\* TPM_PUBKEY is complete.
LEMMA PubKeyComplete ==
    ASSUME NEW r, Leaves(r)
    PROVE  Leaves(PubKey(r)) /\ (PubKey(r).ok => KeyComplete(PubKey(r).got))
  <1>1. PICK ra, rb, rc, rd :
            ra = KeyParms(r) /\ rb = Number(ra, 4) /\ rc = NonZero(rb) /\ rd = Area(rc, rc.got)
    OBVIOUS
  <1>2. Leaves(ra) /\ (ra.ok => ParmsComplete(ra.got))
    BY <1>1, KeyParmsComplete
  <1>3. Leaves(rb) /\ Leaves(rc) /\ (rc.ok => rc.got # 0)
    BY <1>1, <1>2, NumberLeaves, NonZeroLeaves
  <1>4. Leaves(rd) /\ (rd.ok => Len(rd.got) = rc.got)
    BY <1>1, <1>3, AreaLeaves
  <1>5. CASE rd.ok
    <2>1. rc.ok /\ ra.ok
      <3>1. Leads(rc, rd) /\ Leads(rb, rc) /\ Leads(ra, rb)
        BY <1>1, ReadersLead, Zenon
      <3> QED BY <1>5, <3>1, Zenon DEF Leads
    <2>2. PICK k : k = [parms |-> ra.got, keyLength |-> rc.got, key |-> rd.got]
      OBVIOUS
    <2>3. PubKey(r) = Got(k, rd.rest)
      BY <1>1, <1>5, <2>2, Zenon DEF PubKey, PubKeyOf
    <2>4. rd.got # <<>>
      BY <1>1, <1>3, <1>5, <2>1, AreaNotEmpty
    <2>5. k.parms = ra.got /\ k.keyLength = rc.got /\ k.key = rd.got
      BY <2>2
    <2>6. KeyComplete(k)
      BY <1>2, <1>4, <1>5, <2>1, <2>4, <2>5 DEF KeyComplete
    <2> QED BY <1>4, <1>5, <2>3, <2>6, GotIs DEF Leaves
  <1>6. CASE ~rd.ok
    <2>1. PubKey(r) = Stuck
      BY <1>1, <1>6, Zenon DEF PubKey, PubKeyOf
    <2> QED BY <2>1, StuckLeaves
  <1> QED BY <1>5, <1>6

\* TPM_SYMMETRIC_KEY is complete.
LEMMA SymmetricKeyComplete ==
    ASSUME NEW bytes, IsBytes(bytes), SymmetricKey(bytes).ok
    PROVE  /\ SymmetricKey(bytes).got.alg \in AlgMap
           /\ SymmetricKey(bytes).got.key # <<>>
           /\ IsBytes(SymmetricKey(bytes).got.key)
  <1>1. PICK ra, rb, rc, rd, re :
            /\ ra = Number(Reader(bytes), 4) /\ rb = Number(ra, 2) /\ rc = Number(rb, 2)
            /\ rd = NonZero(rc) /\ re = Area(rd, rd.got)
    OBVIOUS
  <1>2. Leaves(ra) /\ Leaves(rb)
    BY <1>1, ReaderLeaves, NumberLeaves
  <1>3. Leaves(rc) /\ Leaves(rd) /\ (rd.ok => rd.got # 0)
    BY <1>1, <1>2, NumberLeaves, NonZeroLeaves
  <1>4. CASE re.ok /\ ra.got \in AlgMap
    <2>1. rd.ok
      <3>1. Leads(rd, re)
        BY <1>1, ReadersLead, Zenon
      <3> QED BY <1>4, <3>1 DEF Leads
    <2>2. re.got # <<>> /\ IsBytes(re.got)
      BY <1>1, <1>3, <1>4, <2>1, AreaNotEmpty, AreaLeaves
    <2>3. PICK k : k = [alg |-> ra.got, enc |-> rb.got, key |-> re.got]
      OBVIOUS
    <2>4. SymmetricKey(bytes) = Got(k, re.rest)
      BY <1>1, <1>4, <2>3, Zenon DEF SymmetricKey
    <2>5. SymmetricKey(bytes).got = k /\ k.alg = ra.got /\ k.key = re.got
      BY <2>3, <2>4, GotIs
    <2> QED BY <1>4, <2>2, <2>5
  <1>5. CASE ~(re.ok /\ ra.got \in AlgMap)
    <2>1. SymmetricKey(bytes) = Stuck
      BY <1>1, <1>5, Zenon DEF SymmetricKey
    <2> QED BY <2>1, StuckLeaves
  <1> QED BY <1>4, <1>5

\* A request is complete.
LEMMA RequestComplete ==
    ASSUME NEW bytes, IsBytes(bytes), ParseIdentityRequest(bytes) # <<>>
    PROVE  \E q : /\ ParseIdentityRequest(bytes) = <<q>>
                  /\ ParmsComplete(q.asym) /\ q.asymBlob # <<>> /\ IsBytes(q.asymBlob)
                  /\ ParmsComplete(q.sym) /\ q.symBlob # <<>> /\ IsBytes(q.symBlob)
                  /\ AesParmsAre(q.sym)
  <1>1. PICK na, ra, nb, rb, rc, rd, re, rf :
            /\ na = Number(Reader(bytes), 4) /\ ra = NonZero(na)
            /\ nb = Number(ra, 4) /\ rb = NonZero(nb)
            /\ rc = KeyParms(rb) /\ rd = KeyParms(rc)
            /\ re = Area(rd, ra.got) /\ rf = Area(re, rb.got)
    OBVIOUS
  <1>2. Leaves(na) /\ Leaves(ra) /\ (ra.ok => ra.got # 0)
    BY <1>1, ReaderLeaves, NumberLeaves, NonZeroLeaves
  <1>3. Leaves(nb) /\ Leaves(rb) /\ (rb.ok => rb.got # 0)
    BY <1>1, <1>2, NumberLeaves, NonZeroLeaves
  <1>4. Leaves(rc) /\ (rc.ok => ParmsComplete(rc.got) /\ AesParmsAre(rc.got))
    BY <1>1, <1>3, KeyParmsComplete
  <1>5. Leaves(rd) /\ (rd.ok => ParmsComplete(rd.got) /\ AesParmsAre(rd.got))
    BY <1>1, <1>4, KeyParmsComplete
  <1>6. Leaves(re)
    BY <1>1, <1>5, AreaLeaves
  <1>7. PICK q : q = [asym |-> rc.got, sym |-> rd.got, asymBlob |-> re.got, symBlob |-> rf.got]
    OBVIOUS
  <1>8. ParseIdentityRequest(bytes) = <<q>> /\ rf.ok
    BY <1>1, <1>7, Zenon DEF ParseIdentityRequest, IdentityRequest
  <1>9. re.ok /\ rd.ok /\ rc.ok /\ rb.ok /\ ra.ok
    <2>1. /\ Leads(ra, nb) /\ Leads(nb, rb) /\ Leads(rb, rc) /\ Leads(rc, rd)
          /\ Leads(rd, re) /\ Leads(re, rf)
      BY <1>1, ReadersLead, KeysLead, Zenon
    <2> QED BY <1>8, <2>1, Zenon DEF Leads
  <1>10. re.got # <<>> /\ IsBytes(re.got)
    BY <1>1, <1>2, <1>5, <1>9, AreaNotEmpty, AreaLeaves
  <1>11. rf.got # <<>> /\ IsBytes(rf.got)
    BY <1>1, <1>3, <1>6, <1>8, <1>9, AreaNotEmpty, AreaLeaves
  <1>12. q.asym = rc.got /\ q.sym = rd.got /\ q.asymBlob = re.got /\ q.symBlob = rf.got
    BY <1>7
  <1> QED BY <1>4, <1>5, <1>8, <1>9, <1>10, <1>11, <1>12

\* Areas are as many and as long as their sizes say.
SizedAreas(r, k, sizes) ==
    r.ok => Len(r.got) = k /\ \A j \in 1..k : Len(r.got[j]) = sizes[j]

\* One area more.
LEMMA NextAreaSized ==
    ASSUME NEW r \in AreaReader, NEW n \in Nat, NEW sizes \in [1..n -> Int],
           NEW i \in 1..n, SizedAreas(r, i - 1, sizes)
    PROVE  SizedAreas(NextArea(r, sizes[i]), i, sizes)
  <1>1. PICK area : area = Area(r, sizes[i])
    OBVIOUS
  <1>2. CASE r.ok /\ area.ok
    <2>1. /\ r.got \in Seq(Seq(Byte)) /\ IsBytes(r.rest)
          /\ Len(r.got) = i - 1 /\ \A j \in 1..(i - 1) : Len(r.got[j]) = sizes[j]
      BY <1>2 DEF SizedAreas, AreaReader, IsBytes
    <2>2. IsBytes(area.got) /\ Len(area.got) = sizes[i]
      BY <1>1, <1>2, <2>1, AreaLeaves DEF Leaves
    <2>3. PICK got : got = Append(r.got, area.got)
      OBVIOUS
    <2>4. NextArea(r, sizes[i]) = Got(got, area.rest)
      BY <1>1, <1>2, <2>3, Zenon DEF NextArea, Longer
    <2>5. /\ Len(got) = i /\ got[i] = area.got
          /\ \A j \in 1..(i - 1) : got[j] = r.got[j]
      BY <2>1, <2>2, <2>3 DEF IsBytes
    <2>6. \A j \in 1..i : j = i \/ j \in 1..(i - 1)
      OBVIOUS
    <2>7. \A j \in 1..i : Len(got[j]) = sizes[j]
      BY <2>1, <2>2, <2>5, <2>6
    <2> QED BY <2>4, <2>5, <2>7, GotIs DEF SizedAreas
  <1>3. CASE ~(r.ok /\ area.ok)
    <2>1. Leads(r, area)
      BY <1>1, ReadersLead
    <2>2. NextArea(r, sizes[i]) = Stuck
      BY <1>1, <1>3, <2>1, Zenon DEF NextArea, Longer, Leads
    <2> QED BY <2>2, StuckLeaves DEF SizedAreas
  <1> QED BY <1>2, <1>3

\* Areas are those of the sizes.
LEMMA AreasSized ==
    ASSUME NEW v, NEW rest, IsBytes(rest), NEW n, NEW sizes, AreSizes(n, sizes),
           NEW r, r = Areas(Got(v, rest), sizes), r.ok
    PROVE  Len(r.got) = n /\ \A i \in 1..n : IsBytes(r.got[i]) /\ Len(r.got[i]) = sizes[i]
  <1>1. /\ n \in Nat /\ sizes \in [1..n -> Int] /\ Len(sizes) = n /\ rest \in Seq(Byte)
    BY DEF AreSizes, IsBytes
  <1>2. PICK f : Reads(rest, n, sizes, f)
    BY <1>1, ReadsExists
  <1>3. Areas(Got(v, rest), sizes) = f[n]
    BY <1>1, <1>2, AreasReads
  <1> DEFINE S == {i \in 0..n : SizedAreas(f[i], i, sizes)}
  <1>4. 0 \in S
    <2>1. f[0] = Got(<<>>, rest) /\ 0 \in 0..n
      BY <1>1, <1>2 DEF Reads, Reader
    <2>2. f[0].got = <<>>
      BY <2>1, GotIs
    <2>3. SizedAreas(f[0], 0, sizes)
      BY <2>2 DEF SizedAreas
    <2> QED BY <2>1, <2>3
  <1>5. ASSUME NEW i \in 1..n, i - 1 \in S
        PROVE  i \in S
    <2>1. i \in 0..n /\ i - 1 \in 0..n /\ SizedAreas(f[i - 1], i - 1, sizes)
      BY <1>1, <1>5
    <2>2. f[i] = NextArea(f[i - 1], sizes[i]) /\ f[i - 1] \in AreaReader
      BY <1>2, <2>1 DEF Reads
    <2>3. SizedAreas(f[i], i, sizes)
      BY <1>1, <2>1, <2>2, NextAreaSized
    <2> QED BY <2>1, <2>3
  <1>6. \A i \in 0..n : i \in S
    <2> HIDE DEF S
    <2> QED BY <1>1, <1>4, <1>5, InductionUpTo
  <1>7. n \in 0..n /\ f[n] \in AreaReader
    BY <1>1, <1>2 DEF Reads
  <1>8. SizedAreas(f[n], n, sizes)
    BY <1>6, <1>7
  <1>9. PICK got : got = f[n].got
    OBVIOUS
  <1>10. /\ got \in Seq(Seq(Byte)) /\ Len(got) = n
         /\ \A i \in 1..n : Len(got[i]) = sizes[i]
    BY <1>3, <1>7, <1>8, <1>9 DEF SizedAreas, AreaReader
  <1>11. \A i \in 1..n : IsBytes(got[i])
    BY <1>10 DEF IsBytes
  <1> QED BY <1>3, <1>9, <1>10, <1>11

\* A proof is complete.
LEMMA ProofComplete ==
    ASSUME NEW bytes, IsBytes(bytes), ParseIdentityProof(bytes) # <<>>
    PROVE  \E p : /\ ParseIdentityProof(bytes) = <<p>>
                  /\ KeyComplete(p.aik) /\ Len(p.areas) = 5 /\ p.areas[2] # <<>>
  <1>1. PICK ra, rb, rc, rd :
            /\ ra = Area(Reader(bytes), 4) /\ rb = Numbers(ra, 5) /\ rc = PubKey(rb)
            /\ rd = Areas(rc, rb.got)
    OBVIOUS
  <1>2. Leaves(ra)
    BY <1>1, ReaderLeaves, AreaLeaves
  <1>3. Leaves(rb) /\ (rb.ok => AreSizes(5, rb.got))
    BY <1>1, <1>2, NumbersLeave
  <1>4. Leaves(rc) /\ (rc.ok => KeyComplete(rc.got))
    BY <1>1, <1>3, PubKeyComplete
  <1>5. PICK p : p = [aik |-> rc.got, areas |-> rd.got]
    OBVIOUS
  <1>6. ParseIdentityProof(bytes) = <<p>> /\ Exactly(rd) /\ rb.got[2] # 0
    BY <1>1, <1>5, Zenon DEF ParseIdentityProof, IdentityProof
  <1>7. rd.ok /\ rc.ok /\ rb.ok
    <2>1. Leads(rc, rd) /\ Leads(rb, rc)
      BY <1>1, ReadersLead, KeysLead, Zenon
    <2> QED BY <1>6, <2>1, Zenon DEF Exactly, Leads
  <1>8. rc = Got(rc.got, rc.rest)
    BY <1>1, <1>7, GotOfReaders
  <1>9. Len(rd.got) = 5 /\ Len(rd.got[2]) = rb.got[2]
    <2>1. 2 \in 1..5
      OBVIOUS
    <2>2. PICK v, rest : rc = Got(v, rest) /\ IsBytes(rest)
      BY <1>4, <1>7, <1>8 DEF Leaves
    <2>3. AreSizes(5, rb.got) /\ rd = Areas(Got(v, rest), rb.got)
      BY <1>1, <1>3, <1>7, <2>2
    <2>4. PICK n \in Nat : n = 5
      OBVIOUS
    <2>5. AreSizes(n, rb.got)
      BY <2>3, <2>4
    <2>6. Len(rd.got) = n /\ \A i \in 1..n : Len(rd.got[i]) = rb.got[i]
      BY <1>7, <2>2, <2>3, <2>5, AreasSized
    <2> QED BY <2>1, <2>4, <2>6
  <1>10. rd.got[2] # <<>>
    BY <1>6, <1>9, NoThing
  <1>11. p.aik = rc.got /\ p.areas = rd.got
    BY <1>5
  <1> QED BY <1>4, <1>6, <1>7, <1>9, <1>10, <1>11

\* A byte of bytes.
LEMMA ByteAt ==
    ASSUME NEW b, IsBytes(b), NEW i \in 1..Len(b)
    PROVE  b[i] \in Byte
  BY DEF IsBytes

\* What is decrypted is bytes.
LEMMA DecryptedIsBytes ==
    ASSUME NEW key, IsBytes(key), Len(key) >= 16, NEW iv, IsBytes(iv), Len(iv) = 16,
           NEW text, IsBytes(text), Len(text) % 16 = 0
    PROVE  IsBytes(Decrypted(key, iv, text))
  <1>1. PICK n \in Nat : n = Len(text)
    BY DEF IsBytes
  <1>2. PICK m \in Nat : n = 16 * m
    <2>1. n = 16 * (n \div 16) /\ n \div 16 \in Nat
      BY SMT, <1>1
    <2> QED BY <2>1
  <1>3. ASSUME NEW p \in 1..n
        PROVE  (text[p] - Before(iv, text, p) - key[PlaceOf(p)]) % 256 \in Byte
    <2>1. p \in 1..(16 * m)
      BY <1>2
    <2>2. PlaceOf(p) \in 1..16 /\ (p > 16 => p - 16 \in 1..(16 * m))
      BY <2>1, PlacesAre
    <2>3. text[p] \in Byte /\ key[PlaceOf(p)] \in Byte
      BY <1>1, <2>2 DEF IsBytes
    <2>4. Before(iv, text, p) \in Byte
      <3>1. CASE p <= 16
        <4>1. iv[p] \in Byte
          <5>1. p \in 1..16
            BY <1>1, <3>1
          <5> QED BY <5>1, ByteAt
        <4> QED BY <3>1, <4>1 DEF Before, BlockSize
      <3>2. CASE ~(p <= 16)
        <4>1. p - 16 \in 1..n
          BY <1>2, <2>1, <2>2, <3>2
        <4>2. text[p - 16] \in Byte
          BY <1>1, <4>1 DEF IsBytes
        <4> QED BY <3>2, <4>2 DEF Before, BlockSize
      <3> QED BY <3>1, <3>2
    <2>5. text[p] - Before(iv, text, p) - key[PlaceOf(p)] \in Int
      BY <2>3, <2>4, ByteIs
    <2> QED BY <2>5, Modulo256
  <1>4. Decrypted(key, iv, text)
            = [p \in 1..n |-> (text[p] - Before(iv, text, p) - key[PlaceOf(p)]) % 256]
    BY <1>1 DEF Decrypted
  <1>5. Decrypted(key, iv, text) \in [1..n -> Byte]
    BY <1>3, <1>4
  <1> QED BY <1>5 DEF IsBytes

\* And so it is without its padding.
LEMMA UnpaddedIsBytes ==
    ASSUME NEW text, IsBytes(text), Unpadded(text) # <<>>
    PROVE  \E plain : Unpadded(text) = <<plain>> /\ IsBytes(plain)
  <1>1. PICK n : n = Last(text)
    OBVIOUS
  <1>2. n \in 1..Len(text) /\ Unpadded(text) = <<SubSeq(text, 1, Len(text) - n)>>
    BY <1>1, Zenon DEF Unpadded
  <1>3. Len(text) - n \in Nat /\ Len(text) - n <= Len(text) /\ text \in Seq(Byte)
    BY <1>2 DEF IsBytes
  <1>4. IsBytes(SubSeq(text, 1, Len(text) - n))
    BY <1>3, FrontOfBytes DEF IsBytes
  <1> QED BY <1>2, <1>4

\* DecryptWithSymmetricKey yields bytes.
LEMMA PlainIsBytes ==
    ASSUME NEW key, IsBytes(key.key), NEW parms, AesParmsAre(parms),
           NEW bytes, IsBytes(bytes),
           DecryptWithSymmetricKey(key, parms, bytes) # <<>>
    PROVE  \E plain : /\ DecryptWithSymmetricKey(key, parms, bytes) = <<plain>>
                      /\ IsBytes(plain)
  <1>1. PICK given : given = IF parms.sym = <<>> THEN <<>> ELSE parms.sym[1].iv
    OBVIOUS
  <1>2. IsBytes(given)
    <2>1. IsBytes(<<>>)
      BY NothingIsBytes DEF IsBytes
    <2> QED BY <1>1, <2>1, OnlyThing DEF AesParmsAre
  <1>3. PICK front, iv, text :
            /\ front = IF given = <<>> THEN BlockSize ELSE 0
            /\ iv = IF given = <<>> THEN SubSeq(bytes, 1, BlockSize) ELSE given
            /\ text = SubSeq(bytes, front + 1, Len(bytes))
    OBVIOUS
  <1>4. /\ Len(key.key) \in KeySizes /\ ~(Len(bytes) <= front)
        /\ Len(text) % BlockSize = 0 /\ Len(iv) = BlockSize
        /\ DecryptWithSymmetricKey(key, parms, bytes) = Unpadded(Decrypted(key.key, iv, text))
    BY <1>1, <1>3, Zenon DEF DecryptWithSymmetricKey
  <1>5. front \in Nat /\ front <= Len(bytes) /\ bytes \in Seq(Byte)
    BY <1>3, <1>4 DEF BlockSize, IsBytes
  <1>6. IsBytes(text)
    BY <1>3, <1>5, FrontOfBytes DEF Behind, IsBytes
  <1>7. IsBytes(iv)
    <2>1. CASE given = <<>>
      <3>1. front = BlockSize /\ iv = SubSeq(bytes, 1, BlockSize)
        BY <1>3, <2>1
      <3> QED BY <1>5, <3>1, FrontOfBytes DEF IsBytes
    <2>2. CASE given # <<>>
      BY <1>2, <1>3, <2>2
    <2> QED BY <2>1, <2>2
  <1>8. Len(key.key) >= 16 /\ Len(iv) = 16 /\ Len(text) % 16 = 0
    <2>1. \A n \in KeySizes : n >= 16
      BY SMT DEF KeySizes
    <2> QED BY <1>4, <2>1 DEF BlockSize
  <1>9. IsBytes(Decrypted(key.key, iv, text))
    BY <1>6, <1>7, <1>8, DecryptedIsBytes
  <1> QED BY <1>4, <1>9, UnpaddedIsBytes

\* The proof in an exchange is complete.
LEMMA ExchangeComplete ==
    ASSUME NEW issuer, NEW bytes, IsBytes(bytes), ReadTpmRequest(issuer, bytes) # <<>>
    PROVE  \E p : /\ ReadTpmRequest(issuer, bytes) = <<p>>
                  /\ KeyComplete(p.aik) /\ Len(p.areas) = 5 /\ p.areas[2] # <<>>
  <1>1. PICK q, t, proof :
            q = ParseIdentityRequest(bytes) /\ t = ProofText(q) /\ proof = ProofIn(t)
    OBVIOUS
  <1>2. ReadTpmRequest(issuer, bytes) = proof /\ proof # <<>>
    <2>1. ReadTpmRequest(issuer, bytes) = BoundProof(issuer, proof)
      BY <1>1 DEF ReadTpmRequest
    <2>2. BoundProof(issuer, proof) \in {proof, <<>>}
      BY Zenon DEF BoundProof
    <2> QED BY <2>1, <2>2
  <1>3. t # <<>> /\ proof = ParseIdentityProof(t[1])
    BY <1>1, <1>2, Zenon DEF ProofIn
  <1>4. q # <<>>
    BY <1>1, <1>3, Zenon DEF ProofText
  <1>5. PICK r : q = <<r>> /\ IsBytes(r.asymBlob) /\ IsBytes(r.symBlob) /\ AesParmsAre(r.sym)
    BY <1>1, <1>4, RequestComplete
  <1>6. PICK blob, key :
            /\ blob = DecryptWithPrivateKey(r.asymBlob, r.asym.alg, r.asym.enc)
            /\ key = ParseSymmetricKey(blob)
    OBVIOUS
  <1>7. t = ProofUnder(key, r)
    <2>1. q[1] = r
      BY <1>5
    <2> QED BY <1>1, <1>4, <1>6, <2>1, Zenon DEF ProofText
  <1>8. key # <<>> /\ t = DecryptWithSymmetricKey(key[1], r.sym, r.symBlob)
    BY <1>3, <1>7, Zenon DEF ProofUnder
  <1>9. IsBytes(blob)
    <2>1. blob \in {r.asymBlob, <<>>}
      BY <1>6, Zenon DEF DecryptWithPrivateKey
    <2> QED BY <1>5, <2>1, NothingIsBytes DEF IsBytes
  <1>10. IsBytes(key[1].key)
    <2>1. SymmetricKey(blob).ok /\ key = <<SymmetricKey(blob).got>>
      BY <1>6, <1>8, Zenon DEF ParseSymmetricKey, Exactly
    <2> QED BY <1>9, <2>1, SymmetricKeyComplete
  <1>11. PICK plain : t = <<plain>> /\ IsBytes(plain)
    BY <1>3, <1>5, <1>8, <1>10, PlainIsBytes
  <1>12. proof = ParseIdentityProof(plain)
    BY <1>3, <1>11
  <1> QED BY <1>2, <1>11, <1>12, ProofComplete

\* What a structure in an area is read to has one of the tags.
LEMMA TagOfStructure ==
    ASSUME NEW tags, NEW area, Unmarshal(tags, area) # <<>>
    PROVE  Unmarshal(tags, area)[1].tag \in tags
  <1>1. PICK s : s = [tag |-> area[1], body |-> SubSeq(area, 3, 2 + area[2])]
    OBVIOUS
  <1>2. Unmarshal(tags, area) = <<s>> /\ area[1] \in tags
    BY <1>1, Zenon DEF Unmarshal
  <1> QED BY <1>1, <1>2

\* An EK has a PEM form.
LEMMA TagOfEk ==
    ASSUME NEW area, EKCert(area) # <<>>
    PROVE  EKCert(area)[1].tag \in {Certificate, RsaPublic, EccPublic}
  <1>1. CASE CertificateDerToPem(area) # <<>>
    <2>1. EKCert(area) = Unmarshal({Certificate}, area)
      BY <1>1, Zenon DEF EKCert, CertificateDerToPem
    <2> QED BY <2>1, TagOfStructure
  <1>2. CASE CertificateDerToPem(area) = <<>>
    <2>1. PICK u : u = Unmarshal(Public, area)
      OBVIOUS
    <2>2. EKCert(area) = TPMTPublicToPEM(u)
      BY <1>2, <2>1, Zenon DEF EKCert
    <2>3. EKCert(area) = u /\ u # <<>> /\ u[1].tag # OtherPublic
      BY <2>2, Zenon DEF TPMTPublicToPEM
    <2>4. u[1].tag \in Public
      BY <2>1, <2>3, TagOfStructure
    <2> QED BY <2>3, <2>4 DEF Public
  <1> QED BY <1>1, <1>2

\* The content of a CSR is complete.
LEMMA CsrComplete ==
    ASSUME NEW bytes, IsBytes(bytes), ParseTCGCSRIDevIDContent(bytes) # <<>>
    PROVE  \E c : /\ ParseTCGCSRIDevIDContent(bytes) = <<c>>
                  /\ c.structVer # 0 /\ c.hashAlgoID # 0
                  /\ c.hash # <<>> /\ c.prodModel # <<>> /\ c.prodSerial # <<>>
                  /\ c.ekCert.tag \in {Certificate, RsaPublic, EccPublic}
  <1>1. PICK na, ra, nb, rb, nc, rc, rd, re, rf :
            /\ na = Number(Reader(bytes), 4) /\ ra = NonZero(na)
            /\ nb = Number(ra, 4) /\ rb = NonZero(nb)
            /\ nc = Number(rb, 4) /\ rc = NonZero(nc) /\ rd = Area(rc, rc.got)
            /\ re = Numbers(rd, 13) /\ rf = Areas(re, re.got)
    OBVIOUS
  <1>2. Leaves(na) /\ Leaves(ra) /\ (ra.ok => ra.got # 0)
    BY <1>1, ReaderLeaves, NumberLeaves, NonZeroLeaves
  <1>3. Leaves(nb) /\ Leaves(rb) /\ (rb.ok => rb.got # 0)
    BY <1>1, <1>2, NumberLeaves, NonZeroLeaves
  <1>4. Leaves(nc) /\ Leaves(rc) /\ (rc.ok => rc.got # 0)
    BY <1>1, <1>3, NumberLeaves, NonZeroLeaves
  <1>5. Leaves(rd)
    BY <1>1, <1>4, AreaLeaves
  <1>6. Leaves(re) /\ (re.ok => AreSizes(13, re.got) /\ re = Got(re.got, re.rest))
    BY <1>1, <1>5, NumbersLeave
  <1>7. PICK parts : parts = CsrParts(rf.got)
    OBVIOUS
  <1>8. /\ Exactly(rf) /\ \A i \in Needed : re.got[i] # 0
        /\ ParseTCGCSRIDevIDContent(bytes) = CsrOf(ra.got, rb.got, rd.got, rf.got, parts)
    BY <1>1, <1>7, Zenon DEF ParseTCGCSRIDevIDContent
  <1>9. re.ok /\ rd.ok /\ rc.ok /\ rb.ok /\ ra.ok
    <2>1. /\ Leads(ra, nb) /\ Leads(nb, rb) /\ Leads(rb, nc) /\ Leads(nc, rc)
          /\ Leads(rc, rd) /\ Leads(rd, re) /\ Leads(re, rf)
      BY <1>1, ReadersLead, Zenon
    <2> QED BY <1>8, <2>1, Zenon DEF Leads, Exactly
  <1>10. \A i \in 1..13 : Len(rf.got[i]) = re.got[i]
    <2>1. PICK v, rest : re = Got(v, rest) /\ IsBytes(rest)
      BY <1>6, <1>9 DEF Leaves
    <2>2. AreSizes(13, re.got) /\ rf = Areas(Got(v, rest), re.got) /\ rf.ok
      BY <1>1, <1>6, <1>8, <1>9, <2>1 DEF Exactly
    <2>3. PICK n \in Nat : n = 13
      OBVIOUS
    <2>4. AreSizes(n, re.got)
      BY <2>2, <2>3
    <2>5. \A i \in 1..n : Len(rf.got[i]) = re.got[i]
      BY <2>1, <2>2, <2>4, AreasSized
    <2> QED BY <2>3, <2>5
  <1>11. rf.got[1] # <<>> /\ rf.got[2] # <<>>
    <2>1. 1 \in Needed /\ 2 \in Needed /\ 1 \in 1..13 /\ 2 \in 1..13
      BY DEF Needed
    <2> QED BY <1>8, <1>10, <2>1, NoThing
  <1>12. rd.got # <<>>
    BY <1>1, <1>4, <1>9, AreaNotEmpty
  <1>13. PICK c : c = [structVer |-> ra.got, hashAlgoID |-> rb.got, hash |-> rd.got,
                       prodModel |-> rf.got[1], prodSerial |-> rf.got[2],
                       ekCert |-> parts[1][1], iakPub |-> parts[2][1],
                       idevidPub |-> parts[3][1], signCertifyInfo |-> parts[4][1],
                       signature |-> parts[5][1]]
    OBVIOUS
  <1>14. ParseTCGCSRIDevIDContent(bytes) = <<c>> /\ \A i \in 1..5 : parts[i] # <<>>
    BY <1>8, <1>13, Zenon DEF CsrOf
  <1>15. parts[1][1].tag \in {Certificate, RsaPublic, EccPublic}
    <2>1. parts[1] = EKCert(rf.got[5])
      BY <1>7 DEF CsrParts
    <2>2. parts[1] # <<>>
      BY <1>14
    <2> QED BY <2>1, <2>2, TagOfEk
  <1>16. /\ c.structVer = ra.got /\ c.hashAlgoID = rb.got /\ c.hash = rd.got
         /\ c.prodModel = rf.got[1] /\ c.prodSerial = rf.got[2]
         /\ c.ekCert = parts[1][1]
    BY <1>13
  <1> QED BY <1>2, <1>3, <1>9, <1>11, <1>12, <1>14, <1>15, <1>16

\* Whatever a reader accepts is complete.
LEMMA FormComplete ==
    ASSUME NEW m \in Messages, NEW bytes, IsBytes(bytes), Read(m, bytes) # <<>>
    PROVE  Complete(m.form, Read(m, bytes)[1])
  <1>1. PICK got : got = Read(m, bytes)
    OBVIOUS
  <1>2. CASE m.form = "request"
    <2>1. got = ParseIdentityRequest(bytes)
      BY <1>1, <1>2 DEF Read
    <2>2. PICK q : /\ got = <<q>>
                   /\ ParmsComplete(q.asym) /\ q.asymBlob # <<>>
                   /\ ParmsComplete(q.sym) /\ q.symBlob # <<>>
      BY <1>1, <2>1, RequestComplete
    <2> QED BY <1>1, <1>2, <2>2 DEF Complete
  <1>3. CASE m.form = "proof"
    <2>1. got = ParseIdentityProof(bytes)
      BY <1>1, <1>3 DEF Read
    <2>2. PICK p : /\ got = <<p>> /\ KeyComplete(p.aik) /\ Len(p.areas) = 5
                   /\ p.areas[2] # <<>>
      BY <1>1, <2>1, ProofComplete
    <2> QED BY <1>1, <1>3, <2>2 DEF Complete
  <1>4. CASE m.form = "exchange"
    <2>1. got = ReadTpmRequest(m.value.issuer, bytes)
      BY <1>1, <1>4 DEF Read
    <2>2. PICK p : /\ got = <<p>> /\ KeyComplete(p.aik) /\ Len(p.areas) = 5
                   /\ p.areas[2] # <<>>
      BY <1>1, <2>1, ExchangeComplete
    <2> QED BY <1>1, <1>4, <2>2 DEF Complete
  <1>5. CASE m.form = "key"
    <2>1. got = ParseSymmetricKey(bytes)
      BY <1>1, <1>5 DEF Read
    <2>2. SymmetricKey(bytes).ok /\ got = <<SymmetricKey(bytes).got>>
      BY <1>1, <2>1, Zenon DEF ParseSymmetricKey, Exactly
    <2>3. got[1].alg \in AlgMap /\ got[1].key # <<>>
      BY <2>2, SymmetricKeyComplete
    <2> QED BY <1>1, <1>5, <2>3 DEF Complete
  <1>6. CASE m.form = "contents"
    <2>1. PICK key : key = SymmetricKey(bytes)
      OBVIOUS
    <2>2. PICK c : c = [key |-> key.got, digest |-> key.rest]
      OBVIOUS
    <2>3. key.ok /\ Len(key.rest) = 20 /\ got = <<c>>
      <3>1. got = ReadAsymCAContents(bytes)
        BY <1>1, <1>6 DEF Read
      <3> QED BY <1>1, <2>1, <2>2, <3>1, Zenon DEF ReadAsymCAContents
    <2>4. key.got.alg \in AlgMap /\ key.got.key # <<>>
      BY <2>1, <2>3, SymmetricKeyComplete
    <2> QED BY <1>1, <1>6, <2>2, <2>3, <2>4 DEF Complete
  <1>7. CASE m.form = "cert"
    BY <1>7 DEF Complete
  <1>8. CASE m.form = "csr"
    <2>1. got = ParseTCGCSRIDevIDContent(bytes)
      BY <1>1, <1>8 DEF Read
    <2>2. PICK c : /\ got = <<c>> /\ c.structVer # 0 /\ c.hashAlgoID # 0
                   /\ c.hash # <<>> /\ c.prodModel # <<>> /\ c.prodSerial # <<>>
                   /\ c.ekCert.tag \in {Certificate, RsaPublic, EccPublic}
      BY <1>1, <2>1, CsrComplete
    <2> QED BY <1>1, <1>8, <2>2 DEF Complete
  <1>9. m.form \in Forms
    BY FormsAre
  <1> QED BY <1>2, <1>3, <1>4, <1>5, <1>6, <1>7, <1>8, <1>9 DEF Forms

-----------------------------------------------------------------------------
(* The specification.                                                      *)

\* What is received was read from the wire, and that is bytes.
WireInv ==
    /\ sent \in Messages
    /\ IsBytes(wire)
    /\ faults \in 0..sent.faults
    /\ received \in BOOLEAN
    /\ result = IF received THEN Read(sent, wire) ELSE <<>>

\* At first nothing is received.
LEMMA InitWire == Init => WireInv
  <1> SUFFICES ASSUME Init PROVE WireInv
    OBVIOUS
  <1>1. sent \in Messages /\ faults = sent.faults /\ received = FALSE /\ result = <<>>
    BY DEF Init
  <1>2. IsBytes(wire)
    BY FormSurvives DEF Init
  <1>3. faults \in 0..sent.faults
    BY <1>1, FormsAre
  <1> QED BY <1>1, <1>2, <1>3 DEF WireInv

\* Every step keeps bytes on the wire, and reads them when they are received.
LEMMA NextWire == WireInv /\ [Next]_vars => WireInv'
  <1> SUFFICES ASSUME WireInv, [Next]_vars PROVE WireInv'
    OBVIOUS
  <1>1. /\ sent \in Messages /\ IsBytes(wire) /\ faults \in 0..sent.faults
        /\ received \in BOOLEAN /\ sent.faults \in Nat
        /\ result = IF received THEN Read(sent, wire) ELSE <<>>
    BY FormsAre DEF WireInv
  <1>2. ASSUME NEW bytes, IsBytes(bytes), Fault(bytes)
        PROVE  WireInv'
    <2>1. /\ sent' = sent /\ wire' = bytes /\ faults' = faults - 1 /\ received' = received
          /\ result' = result /\ ~received /\ faults > 0
      BY <1>2 DEF Fault
    <2>2. faults' \in 0..sent.faults
      BY <1>1, <2>1
    <2> QED BY <1>1, <1>2, <2>1, <2>2 DEF WireInv
  <1>3. CASE Cut
    <2>1. PICK n \in 0..(Len(wire) - 1) : Fault(SubSeq(wire, 1, n))
      BY <1>3 DEF Cut
    <2>2. n \in Nat /\ n <= Len(wire) /\ wire \in Seq(Byte)
      BY <1>1 DEF IsBytes
    <2>3. IsBytes(SubSeq(wire, 1, n))
      BY <2>2, FrontOfBytes DEF IsBytes
    <2> QED BY <1>2, <2>1, <2>3
  <1>4. CASE Trail
    <2>1. PICK b \in Bytes : Fault(Append(wire, b))
      BY <1>4 DEF Trail
    <2>2. b \in Byte
      BY ByteAssumption
    <2>3. IsBytes(Append(wire, b))
      BY <1>1, <2>2 DEF IsBytes
    <2> QED BY <1>2, <2>1, <2>3
  <1>5. CASE Change
    <2>1. PICK i \in DOMAIN wire, b \in Bytes : Fault([wire EXCEPT ![i] = b])
      BY <1>5 DEF Change
    <2>2. b \in Byte
      BY ByteAssumption
    <2>3. IsBytes([wire EXCEPT ![i] = b])
      BY <1>1, <2>2 DEF IsBytes
    <2> QED BY <1>2, <2>1, <2>3
  <1>6. CASE Receive
    <2>1. /\ sent' = sent /\ wire' = wire /\ faults' = faults /\ received' = TRUE
          /\ result' = Read(sent, wire)
      BY <1>6 DEF Receive
    <2> QED BY <1>1, <2>1 DEF WireInv
  <1>7. CASE UNCHANGED vars
    <2>1. /\ sent' = sent /\ wire' = wire /\ faults' = faults /\ received' = received
          /\ result' = result
      BY <1>7 DEF vars
    <2> QED BY <1>1, <2>1 DEF WireInv
  <1> QED BY <1>3, <1>4, <1>5, <1>6, <1>7 DEF Next

\* What a reader got of a message is what it makes of the bytes that arrived, whatever
\* was cut, added or changed on the way.
THEOREM ResultIsRead == Spec => []WireInv
  BY InitWire, NextWire, PTL DEF Spec

\* Every message that arrives as it was sent, or with the zeros a request may
\* have behind it, yields what the other side meant.
THEOREM WhatIsSentArrives == Spec => []MessagesSurvive
  <1>1. WireInv => MessagesSurvive
    <2> SUFFICES ASSUME WireInv, received, ~Foreign,
                        \/ wire = Sent
                        \/ MayTrail /\ IsPrefix(Sent, wire) /\ Zeros(Rest(Sent, wire))
                 PROVE  result = <<Original>>
      BY DEF MessagesSurvive
    <2>1. sent \in Messages /\ IsBytes(wire) /\ result = Read(sent, wire)
      BY DEF WireInv
    <2>2. Original = Meant(sent)
      BY DEF Original, Meant
    <2>3. Intended(sent)
      BY DEF Foreign, Intended
    <2>4. PICK x : x = Sent /\ x = Write(sent.form, sent.value)
      BY DEF Sent
    <2>5. IsBytes(x)
      BY <2>1, <2>4, FormSurvives
    <2>6. \E more : Follow(sent, more) /\ Joins(x, more, wire)
      <3>1. CASE wire = Sent
        <4>1. Joins(x, <<>>, wire) /\ Follow(sent, <<>>)
          <5>1. Joins(x, <<>>, wire)
            BY <2>4, <2>5, <3>1, NothingBehind
          <5>2. IsBytes(<<>>)
            BY NothingIsBytes DEF IsBytes
          <5> QED BY <5>1, <5>2, Zenon DEF Follow
        <4> QED BY <4>1
      <3>2. CASE MayTrail /\ IsPrefix(Sent, wire) /\ Zeros(Rest(Sent, wire))
        <4>1. /\ wire \in Seq(Byte) /\ Len(x) \in Nat /\ Len(x) <= Len(wire)
              /\ x = SubSeq(x, 1, Len(x)) /\ SubSeq(x, 1, Len(x)) = SubSeq(wire, 1, Len(x))
          BY <2>1, <2>4, <2>5, <3>2 DEF IsPrefix, IsBytes
        <4>2. PICK more : more = Rest(Sent, wire)
          OBVIOUS
        <4>3. more = Behind(wire, Len(x))
          BY <2>4, <4>2 DEF Rest, Behind
        <4>4. more \in Seq(Byte) /\ wire = x \o more
          BY <4>1, <4>3, FrontOfBytes, SMTT(30)
        <4>5. Joins(x, more, wire)
          BY <2>5, <4>4 DEF Joins, IsBytes
        <4>6. Follow(sent, more)
          BY <3>2, <4>2, <4>4 DEF Follow, MayTrail, IsBytes
        <4> QED BY <4>5, <4>6
      <3> QED BY <3>1, <3>2
    <2>7. Read(sent, wire) = <<Meant(sent)>>
      BY <2>1, <2>3, <2>4, <2>6, FormSurvives
    <2> QED BY <2>1, <2>2, <2>7
  <1> QED BY <1>1, ResultIsRead, PTL

\* Of what is written no reader takes the beginning.
THEOREM CutIsRefused == Spec => []CutMessagesFail
  <1>1. WireInv => CutMessagesFail
    <2> SUFFICES ASSUME WireInv, received, IsStrictPrefix(wire, Sent), result # <<>>
                 PROVE  FALSE
      BY DEF CutMessagesFail
    <2>1. sent \in Messages /\ IsBytes(wire) /\ result = Read(sent, wire)
      BY DEF WireInv
    <2>2. PICK x : x = Sent /\ x = Write(sent.form, sent.value)
      BY DEF Sent
    <2>3. IsBytes(x) /\ x \in Seq(Byte) /\ wire \in Seq(Byte)
      BY <2>1, <2>2, FormSurvives DEF IsBytes
    <2>4. /\ wire # x /\ Len(wire) \in Nat /\ Len(wire) <= Len(x)
          /\ SubSeq(x, 1, Len(wire)) = wire
      BY <2>2, <2>3 DEF IsStrictPrefix, IsPrefix
    <2>5. PICK more : more = Behind(x, Len(wire))
      OBVIOUS
    <2>6. more \in Seq(Byte) /\ x = wire \o more
      BY <2>3, <2>4, <2>5, FrontOfBytes
    <2>7. Joins(wire, more, x)
      BY <2>1, <2>6 DEF Joins, IsBytes
    <2>8. more = <<>>
      BY <2>1, <2>2, <2>7, FormNotLonger
    <2>9. x = wire
      BY <2>3, <2>6, <2>8, ConcatEmptySeq
    <2> QED BY <2>4, <2>9
  <1> QED BY <1>1, ResultIsRead, PTL

\* Whatever arrives, what a reader accepts of it lacks nothing.
THEOREM WhatIsAcceptedIsComplete == Spec => []AcceptedIsComplete
  <1>1. WireInv => AcceptedIsComplete
    <2> SUFFICES ASSUME WireInv, result # <<>>
                 PROVE  Complete(sent.form, result[1])
      BY DEF AcceptedIsComplete
    <2>1. sent \in Messages /\ IsBytes(wire) /\ result = Read(sent, wire)
      BY DEF WireInv
    <2> QED BY <2>1, FormComplete
  <1> QED BY <1>1, ResultIsRead, PTL
=============================================================================
