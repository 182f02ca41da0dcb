------------------------------- MODULE Tpm12 --------------------------------
(***************************************************************************)
(* The TPM 1.2 structures of DefaultTPM12Utils (service/biz/               *)
(* tpm12_utils.go): how they are written and read, the AES CBC encryption  *)
(* around them, and the identity contents a TPM signs.                     *)
(*                                                                         *)
(* <<>> stands for an error, <<v>> for the value v.  RSA encryption leaves *)
(* the text in the clear and an RSA signature shows its key and digest;    *)
(* the schemes they are used with are checked as in the code.              *)
(***************************************************************************)
EXTENDS TpmBytes

BlockSize == 16         \* of AES

\* tpm12.AlgMap: the algorithms of package tpm that have a name.
Rsa    == 1
Aes    == {6, 8, 9}
AlgMap == {4, 5, 7, Rsa} \cup Aes

\* Encoding and signature schemes.
Pkcs1v15 == 2
Oaep     == 3
CbcPkcs5 == 255
SsNone   == 1
Pkcs1Sha == 2
Pkcs1Der == 3

Version == <<1, 1, 0, 0>>

\* The values of the structures, as they can be written.
RSAKeyParmsValues ==
    [keyLength : Word \ {0}, numPrimes : Word \ {0}, exponent : Blob]

SymmetricKeyParmsValues ==
    [keyLength : Word \ {0}, blockSize : Word \ {0}, iv : Blob]

KeyParmsValues ==
    {k \in [alg : AlgMap, enc : Short, sig : Short,
            rsa : Seq(RSAKeyParmsValues), sym : Seq(SymmetricKeyParmsValues)] :
        /\ Len(k.rsa) = IF k.alg = Rsa THEN 1 ELSE 0
        /\ Len(k.sym) = IF k.alg \in Aes THEN 1 ELSE 0}

PubKeyValues ==
    {p \in [parms : KeyParmsValues, keyLength : Word, key : Filled] :
        p.keyLength = Len(p.key)}

IdentityRequestValues ==
    [asym : KeyParmsValues, sym : KeyParmsValues, asymBlob : Filled, symBlob : Filled]

IdentityProofValues ==
    {p \in [aik : PubKeyValues, areas : Seq(Blob)] :
        Len(p.areas) = 5 /\ p.areas[2] # <<>>}

SymmetricKeyValues ==
    {k \in [alg : Aes, enc : {CbcPkcs5}, key : Filled] : Len(k.key) \in Short}

-----------------------------------------------------------------------------
(* Reading.                                                                *)

\* Mutant: The exponent that was read is not kept, which leaves the default one.
RSAKeyParmsDefault(length, primes, area) ==
    IF Exactly(area)
    THEN <<[keyLength |-> length.got, numPrimes |-> primes.got, exponent |-> <<>>]>>
    ELSE <<>>

RSAKeyParms(length, primes, area) ==
    IF Exactly(area)
    THEN <<[keyLength |-> length.got, numPrimes |-> primes.got, exponent |-> area.got]>>
    ELSE <<>>

ParseRSAKeyParms(bytes) ==
    LET length == NonZero(Number(Reader(bytes), 4))
        primes == NonZero(Number(length, 4))
        size   == Number(primes, 4)
        area   == Area(size, size.got)
    IN RSAKeyParms(length, primes, area)

SymmetricKeyParms(length, block, area) ==
    IF Exactly(area)
    THEN <<[keyLength |-> length.got, blockSize |-> block.got, iv |-> area.got]>>
    ELSE <<>>

ParseSymmetricKeyParms(bytes) ==
    LET length == NonZero(Number(Reader(bytes), 4))
        block  == NonZero(Number(length, 4))
        size   == Number(block, 4)
        area   == Area(size, size.got)
    IN SymmetricKeyParms(length, block, area)

\* Mutant: Missing parameters are taken as they can be written.
ParmsFitOrMissing(alg, bytes) ==
    \/ bytes = <<>>
    \/ alg = Rsa /\ ParseRSAKeyParms(bytes) # <<>>
    \/ alg \in Aes /\ ParseSymmetricKeyParms(bytes) # <<>>

\* ParseKeyParmsFromReader: only RSA and AES take parameters, and need them.
ParmsFit(alg, bytes) ==
    IF alg = Rsa THEN ParseRSAKeyParms(bytes) # <<>>
    ELSE IF alg \in Aes THEN ParseSymmetricKeyParms(bytes) # <<>>
    ELSE bytes = <<>>

KeyParmsOf(alg, enc, sig, area) ==
    IF area.ok /\ alg.got \in AlgMap /\ ParmsFit(alg.got, area.got)
    THEN Got([alg |-> alg.got, enc |-> enc.got, sig |-> sig.got,
              rsa |-> IF alg.got = Rsa THEN ParseRSAKeyParms(area.got) ELSE <<>>,
              sym |-> IF alg.got \in Aes THEN ParseSymmetricKeyParms(area.got) ELSE <<>>],
             area.rest)
    ELSE Stuck

KeyParms(r) ==
    LET alg  == Number(r, 4)
        enc  == Number(alg, 2)
        sig  == Number(enc, 2)
        size == Number(sig, 4)
        area == Area(size, size.got)
    IN KeyParmsOf(alg, enc, sig, area)

\* ParsePubKeyFromReader, ParseStorePubKeyFromReader.
PubKeyOf(parms, size, key) ==
    IF key.ok
    THEN Got([parms |-> parms.got, keyLength |-> size.got, key |-> key.got], key.rest)
    ELSE Stuck

PubKey(r) ==
    LET parms == KeyParms(r)
        size  == NonZero(Number(parms, 4))
        key   == Area(size, size.got)
    IN PubKeyOf(parms, size, key)

\* The sizes of the blobs come first; trailing zero bytes are tolerated.
IdentityRequest(asym, sym, asymBlob, symBlob) ==
    IF symBlob.ok /\ Zeros(symBlob.rest)
    THEN <<[asym |-> asym.got, sym |-> sym.got,
            asymBlob |-> asymBlob.got, symBlob |-> symBlob.got]>>
    ELSE <<>>

ParseIdentityRequest(bytes) ==
    LET asymSize == NonZero(Number(Reader(bytes), 4))
        symSize  == NonZero(Number(asymSize, 4))
        asym     == KeyParms(symSize)
        sym      == KeyParms(asym)
        asymBlob == Area(sym, asymSize.got)
        symBlob  == Area(asymBlob, symSize.got)
    IN IdentityRequest(asym, sym, asymBlob, symBlob)

\* The version, five sizes, the AIK, then five areas; only the identity binding
\* may not be empty.
IdentityProof(version, sizes, aik, areas) ==
    IF Exactly(areas) /\ version.got = Version /\ sizes.got[2] # 0
    THEN <<[aik |-> aik.got, areas |-> areas.got]>>
    ELSE <<>>

ParseIdentityProof(bytes) ==
    LET version == Area(Reader(bytes), 4)
        sizes   == Numbers(version, 5)
        aik     == PubKey(sizes)
        areas   == Areas(aik, sizes.got)
    IN IdentityProof(version, sizes, aik, areas)

\* ParseSymmetricKey, up to the leftover.
SymmetricKey(bytes) ==
    LET alg  == Number(Reader(bytes), 4)
        enc  == Number(alg, 2)
        size == NonZero(Number(enc, 2))
        key  == Area(size, size.got)
    IN IF key.ok /\ alg.got \in AlgMap
       THEN Got([alg |-> alg.got, enc |-> enc.got, key |-> key.got], key.rest)
       ELSE Stuck

ParseSymmetricKey(bytes) ==
    IF Exactly(SymmetricKey(bytes)) THEN <<SymmetricKey(bytes).got>> ELSE <<>>

\* What the TPM reads: TPM_SYM_CA_ATTESTATION and TPM_ASYM_CA_CONTENTS.
ReadAttestation(bytes) ==
    LET size       == Number(Reader(bytes), 4)
        parms      == KeyParms(size)
        credential == Area(parms, size.got)
    IN IF Exactly(credential)
       THEN <<[parms |-> parms.got, credential |-> credential.got]>>
       ELSE <<>>

ReadAsymCAContents(bytes) ==
    LET key == SymmetricKey(bytes) IN
    IF key.ok /\ Len(key.rest) = 20 THEN <<[key |-> key.got, digest |-> key.rest]>>
    ELSE <<>>

-----------------------------------------------------------------------------
(* Writing.                                                                *)

SerializeRSAKeyParms(p) ==
    BigEndian(4, p.keyLength) \o BigEndian(4, p.numPrimes) \o Sized(4, p.exponent)

SerializeSymmetricKeyParms(p) ==
    BigEndian(4, p.keyLength) \o BigEndian(4, p.blockSize) \o Sized(4, p.iv)

\* Parameters of the wrong kind are an error; missing ones are not.
SerializeKeyParms(k) ==
    LET parms == IF k.rsa # <<>> THEN SerializeRSAKeyParms(k.rsa[1])
                 ELSE IF k.sym # <<>> THEN SerializeSymmetricKeyParms(k.sym[1])
                 ELSE <<>>
    IN
    IF (k.rsa # <<>> /\ k.alg # Rsa) \/ (k.sym # <<>> /\ k.alg \notin Aes)
    THEN <<>>
    ELSE BigEndian(4, k.alg) \o BigEndian(2, k.enc) \o BigEndian(2, k.sig)
            \o Sized(4, parms)

\* The length is written as it is.
SerializeStorePubKey(p) == BigEndian(4, p.keyLength) \o p.key

SerializePubKey(p) == Then(SerializeKeyParms(p.parms), SerializeStorePubKey(p))

ValidSymmetricKey(k) == k.enc = CbcPkcs5 /\ k.alg \in Aes

SymmetricKeyBytes(k) ==
    BigEndian(4, k.alg) \o BigEndian(2, k.enc) \o Sized(2, k.key)

SerializeSymmetricKey(k) ==
    IF ValidSymmetricKey(k) /\ Len(k.key) \in Short THEN SymmetricKeyBytes(k) ELSE <<>>

\* SerializeAsymCAContents, of contents as made below.
SerializeAsymCAContents(c) ==
    IF c = <<>> THEN <<>> ELSE Then(SerializeSymmetricKey(c[1].key), c[1].digest)

SerializeSymCAAttestation(a) ==
    LET parms == SerializeKeyParms(a.parms) IN
    IF parms = <<>> THEN <<>>
    ELSE BigEndian(4, Len(a.credential)) \o parms \o a.credential

\* What the TPM writes: TPM_IDENTITY_REQ and TPM_IDENTITY_PROOF.
IdentityRequestBytes(q) ==
    BigEndian(4, Len(q.asymBlob)) \o BigEndian(4, Len(q.symBlob))
        \o SerializeKeyParms(q.asym) \o SerializeKeyParms(q.sym)
        \o q.asymBlob \o q.symBlob

IdentityProofBytes(p) ==
    Version \o Sizes(p.areas) \o SerializePubKey(p.aik) \o FlattenSeq(p.areas)

\* An RSA public key is the bytes of its modulus, the first of which is not
\* zero, and its exponent.
BitLen(n) ==
    8 * (Len(n) - 1) + CHOOSE b \in 1..8 : 2^(b - 1) <= n[1] /\ n[1] < 2^b

\* ConstructPubKey: the default exponent is left out, and zero is none.
ValidRSAKey(k) == k.e # 0

ConstructPubKey(k) ==
    [parms |-> [alg |-> Rsa, enc |-> Oaep, sig |-> Pkcs1Sha,
                rsa |-> <<[keyLength |-> BitLen(k.n), numPrimes |-> 2,
                           exponent |-> IF k.e = 65537 THEN <<>>
                                        ELSE BigEndian(4, k.e)]>>,
                sym |-> <<>>],
     keyLength |-> Len(k.n), key |-> k.n]

\* SetBytes of big.Int: zeros in front count for nothing.
Significant(bytes) ==
    Behind(bytes, CHOOSE n \in 0..Len(bytes) :
                    /\ Zeros(SubSeq(bytes, 1, n))
                    /\ n < Len(bytes) => bytes[n + 1] # 0)

TpmPubKeyToRSAPubKey(p) ==
    LET e == p.parms.rsa[1].exponent IN
    IF p.parms.alg # Rsa \/ p.parms.rsa = <<>> THEN <<>>
    ELSE <<[n |-> Significant(p.key), e |-> IF e = <<>> THEN 65537 ELSE Value(e)]>>

-----------------------------------------------------------------------------
(* AES in CBC mode.  Any chained permutation of blocks stands for AES: here *)
(* the sum of the block, the one before it and the key.                    *)

KeySizes == {16, 24, 32}

\* The block of a byte, its place there, and the byte a block before it.
BlockOf(p) == ((p - 1) \div BlockSize) + 1
PlaceOf(p) == ((p - 1) % BlockSize) + 1
Before(iv, bytes, p) == IF p <= BlockSize THEN iv[p] ELSE bytes[p - BlockSize]

\* NewAESCBCKey, of random bytes.
KeySize(alg) == CASE alg = 6 -> 16 [] alg = 8 -> 24 [] alg = 9 -> 32

NewAESCBCKey(alg, random) ==
    IF alg \in Aes
    THEN <<[alg |-> alg, enc |-> CbcPkcs5, key |-> SubSeq(random, 1, KeySize(alg))]>>
    ELSE <<>>

\* The blocks of the ciphertext, the IV before them.
Encrypted(key, iv, bytes) ==
    LET cipher[i \in 0..(Len(bytes) \div BlockSize)] ==
          IF i = 0 THEN iv
          ELSE [j \in 1..BlockSize |->
                  (bytes[BlockSize * (i - 1) + j] + cipher[i - 1][j] + key[j]) % 256]
    IN [p \in 1..Len(bytes) |-> cipher[BlockOf(p)][PlaceOf(p)]]

Decrypted(key, iv, bytes) ==
    [p \in 1..Len(bytes) |->
        (bytes[p] - Before(iv, bytes, p) - key[PlaceOf(p)]) % 256]

\* Mutant: Text that fills its last block is not padded.
PaddedIfNeeded(data) ==
    LET n == (BlockSize - (Len(data) % BlockSize)) % BlockSize
    IN data \o [i \in 1..n |-> n]

Padded(data) ==
    LET n == BlockSize - (Len(data) % BlockSize) IN data \o [i \in 1..n |-> n]

\* The padding is bounded by the text, not by the block.
Unpadded(text) ==
    LET n == Last(text) IN
    IF n \in 1..Len(text) /\ \A i \in (Len(text) - n + 1)..Len(text) : text[i] = n
    THEN <<SubSeq(text, 1, Len(text) - n)>>
    ELSE <<>>

EncryptWithAES(key, iv, data) ==
    IF ~ValidSymmetricKey(key) \/ data = <<>> \/ Len(key.key) \notin KeySizes THEN <<>>
    ELSE <<[credential |-> Encrypted(key.key, iv, Padded(data)),
            parms |-> [alg |-> key.alg, enc |-> key.enc, sig |-> SsNone, rsa |-> <<>>,
                       sym |-> <<[keyLength |-> Len(key.key),
                                  blockSize |-> BlockSize, iv |-> iv]>>]]>>

\* DecryptWithSymmetricKey: without an IV in the parameters it is in front of
\* the ciphertext.  An IV that is not a block long makes the cipher package
\* panic, which is no result either.
DecryptWithSymmetricKey(key, parms, bytes) ==
    LET given == IF parms.sym = <<>> THEN <<>> ELSE parms.sym[1].iv
        front == IF given = <<>> THEN BlockSize ELSE 0
        iv    == IF given = <<>> THEN SubSeq(bytes, 1, BlockSize) ELSE given
        text  == SubSeq(bytes, front + 1, Len(bytes))
    IN
    IF \/ parms.enc # CbcPkcs5
       \/ Len(key.key) \notin KeySizes
       \/ Len(bytes) <= front
       \/ Len(text) % BlockSize # 0
       \/ Len(iv) # BlockSize
    THEN <<>>
    ELSE Unpadded(Decrypted(key.key, iv, text))

-----------------------------------------------------------------------------
(* RSA and SHA1.                                                           *)

\* Stands for SHA1: 20 bytes that depend on every byte.
Sha1(bytes) ==
    [j \in 1..20 |->
        LET n == (Len(bytes) + 20 - j) \div 20
            sum[i \in 0..n] ==
              IF i = 0 THEN (Len(bytes) + j) % 256
              ELSE (3 * sum[i - 1] + bytes[20 * (i - 1) + j]) % 256
        IN sum[n]]

\* EncryptWithPublicKey and DecryptWithPrivateKey: the schemes they take.
EncryptWithPublicKey(data, alg, enc) ==
    IF alg = Rsa /\ enc = Oaep THEN data ELSE <<>>

DecryptWithPrivateKey(data, alg, enc) ==
    IF alg = Rsa /\ enc \in {Pkcs1v15, Oaep} THEN data ELSE <<>>

\* A PKCS1 v1.5 signature; with the DER scheme the digest is not tagged.
Signature(k, scheme, digest) ==
    BigEndian(4, k.e) \o <<scheme>> \o Sized(4, k.n) \o digest

\* Mutant: The digest is not compared.
VerifySignatureOfAny(p, signature, digest) ==
    /\ TpmPubKeyToRSAPubKey(p) # <<>>
    /\ p.parms.sig \in {Pkcs1Sha, Pkcs1Der}
    /\ IsPrefix(Signature(TpmPubKeyToRSAPubKey(p)[1], p.parms.sig, <<>>), signature)

VerifySignatureWithRSAKey(p, signature, digest) ==
    /\ TpmPubKeyToRSAPubKey(p) # <<>>
    /\ p.parms.sig \in {Pkcs1Sha, Pkcs1Der}
    /\ signature = Signature(TpmPubKeyToRSAPubKey(p)[1], p.parms.sig, digest)

\* ConstructAsymCAContents: the digest is of the AIK as the service writes it.
ConstructAsymCAContents(key, aik) ==
    IF ~ValidSymmetricKey(key) \/ SerializePubKey(aik) = <<>> THEN <<>>
    ELSE <<[key |-> key, digest |-> Sha1(SerializePubKey(aik))]>>

-----------------------------------------------------------------------------
(* The two messages of RotateAIKCert that carry these structures.          *)

\* The label "Identity", in two bytes.
IdentityLabel == <<73, 100>>
Ordinal       == 121

\* TPM_IDENTITY_CONTENTS binds the AIK to the issuer it is to be certified by.
ConstructIdentityContents(issuer, aik) ==
    [ordinal |-> Ordinal,
     digest  |-> Sha1(IdentityLabel \o SerializePubKey(ConstructPubKey(issuer))),
     aik     |-> aik]

SerializeIdentityContents(c) ==
    Version \o BigEndian(4, c.ordinal) \o c.digest \o SerializePubKey(c.aik)

\* What the TPM signs and what RotateAIKCert verifies.
IdentityDigest(issuer, aik) ==
    Sha1(SerializeIdentityContents(ConstructIdentityContents(issuer, aik)))

\* The proof of a TPM with the AIK k, made for an issuer; the identity binding
\* is the second area.
TpmProof(v) ==
    [aik   |-> v.aik,
     areas |-> [v.areas EXCEPT ![2] =
        Signature(v.k, v.aik.parms.sig, IdentityDigest(v.signedFor, v.aik))]]

\* The identity request of a TPM, with a proof that is encrypted under a key
\* of its own and an IV in the parameters or inline.
TpmRequest(v) ==
    [asym |-> ConstructPubKey(v.issuer).parms,
     sym |-> [alg |-> v.key.alg, enc |-> CbcPkcs5, sig |-> SsNone, rsa |-> <<>>,
              sym |-> <<[keyLength |-> 8 * Len(v.key.key), blockSize |-> BlockSize,
                         iv |-> IF v.inline THEN <<>> ELSE v.iv]>>],
     asymBlob |-> SymmetricKeyBytes(v.key),
     symBlob |-> (IF v.inline THEN v.iv ELSE <<>>)
        \o Encrypted(v.key.key, v.iv, Padded(IdentityProofBytes(TpmProof(v))))]

\* RotateAIKCert: the proof in an identity request, whose binding must be the
\* AIK's signature of the identity contents.
ProofUnder(key, q) ==
    IF key = <<>> THEN <<>>
    ELSE DecryptWithSymmetricKey(key[1], q.sym, q.symBlob)

ProofText(q) ==
    IF q = <<>> THEN <<>>
    ELSE ProofUnder(ParseSymmetricKey(
            DecryptWithPrivateKey(q[1].asymBlob, q[1].asym.alg, q[1].asym.enc)), q[1])

ProofIn(text) == IF text = <<>> THEN <<>> ELSE ParseIdentityProof(text[1])

BoundProof(issuer, proof) ==
    IF \E p \in ToSet(proof) :
          /\ ValidRSAKey(issuer)
          /\ VerifySignatureWithRSAKey(p.aik, p.areas[2], IdentityDigest(issuer, p.aik))
    THEN proof
    ELSE <<>>

ReadTpmRequest(issuer, bytes) ==
    BoundProof(issuer, ProofIn(ProofText(ParseIdentityRequest(bytes))))

\* RotateAIKCert: the AES key and the digest of the AIK, for the TPM's EK.
AsymContentsBlob(v) ==
    EncryptWithPublicKey(
        SerializeAsymCAContents(ConstructAsymCAContents(v.key, v.aik)), Rsa, Oaep)

\* RotateAIKCert: the AIK certificate for the TPM, under a fresh AES key.
CertBlob(a) == IF a = <<>> THEN <<>> ELSE SerializeSymCAAttestation(a[1])
AikCertBlob(v) ==
    CertBlob(EncryptWithAES(NewAESCBCKey(v.alg, v.random)[1], v.iv, v.cert))

CertIn(key, a) ==
    IF a = <<>> THEN <<>> ELSE DecryptWithSymmetricKey(key, a[1].parms, a[1].credential)
ReadAikCertBlob(key, bytes) == CertIn(key, ReadAttestation(bytes))

-----------------------------------------------------------------------------
(* The values these messages are made of.                                  *)

ContentsValues == [key : SymmetricKeyValues, aik : PubKeyValues]

RSAKeyValues == {k \in [n : Filled, e : Word \ {0}] : Len(k.n) \in Short}

\* An AIK of a TPM with the RSA key k, and issuers that have a structure.
ExchangeValues ==
    {v \in [key : SymmetricKeyValues, iv : Blob, inline : BOOLEAN,
            k : RSAKeyValues, aik : PubKeyValues, areas : Seq(Blob),
            issuer : RSAKeyValues, signedFor : RSAKeyValues] :
        /\ Len(v.key.key) \in KeySizes
        /\ Len(v.iv) = BlockSize
        /\ Len(v.areas) = 5
        /\ TpmPubKeyToRSAPubKey(v.aik) = <<v.k>>
        /\ v.aik.parms.sig \in {Pkcs1Sha, Pkcs1Der}
        /\ {ConstructPubKey(v.issuer), ConstructPubKey(v.signedFor)} \subseteq PubKeyValues
        /\ Len(TpmRequest(v).symBlob) <= MaxSize}

CertValues ==
    {v \in [alg : Aes, random : Blob, iv : Blob, cert : Filled] :
        /\ Len(v.random) >= KeySize(v.alg)
        /\ Len(v.iv) = BlockSize
        /\ Len(v.cert) + BlockSize <= MaxSize}
=============================================================================
