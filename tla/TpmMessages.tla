---------------------------- MODULE TpmMessages -----------------------------
(***************************************************************************)
(* The messages between a TPM and the service that carry the structures of *)
(* Tpm12 and Tpm20Csr: a message is written by the one, cut, extended or   *)
(* changed on the way, and read by the other.                              *)
(***************************************************************************)
EXTENDS Tpm12, Tpm20Csr

CONSTANTS Messages,     \* messages: form, value and the faults they meet
          Bytes         \* bytes a fault may put in

Values(form) ==
    CASE form = "request"  -> IdentityRequestValues
      [] form = "proof"    -> IdentityProofValues
      [] form = "key"      -> SymmetricKeyValues
      [] form = "contents" -> ContentsValues
      [] form = "exchange" -> ExchangeValues
      [] form = "cert"     -> CertValues
      [] form = "csr"      -> CsrValues

Forms == {"request", "proof", "key", "contents", "exchange", "cert", "csr"}

ASSUME MessageAssumption ==
    \A m \in Messages :
        m.form \in Forms /\ m.value \in Values(m.form) /\ m.faults \in Nat

ASSUME ByteAssumption == Bytes \subseteq Byte

VARIABLES
    sent,       \* the message one side means
    wire,       \* its bytes, as they arrive
    faults,     \* how many more faults it may meet
    received,   \* the other side has read it
    result      \* what it got

vars == <<sent, wire, faults, received, result>>

\* The bytes of the value v of a form.
Write(form, v) ==
    CASE form = "request"  -> IdentityRequestBytes(v)
      [] form = "proof"    -> IdentityProofBytes(v)
      [] form = "key"      -> SerializeSymmetricKey(v)
      [] form = "contents" -> AsymContentsBlob(v)
      [] form = "exchange" -> IdentityRequestBytes(TpmRequest(v))
      [] form = "cert"     -> AikCertBlob(v)
      [] form = "csr"      -> CsrBytes(v)

Read(m, bytes) ==
    CASE m.form = "request"  -> ParseIdentityRequest(bytes)
      [] m.form = "proof"    -> ParseIdentityProof(bytes)
      [] m.form = "key"      -> ParseSymmetricKey(bytes)
      [] m.form = "contents" -> ReadAsymCAContents(bytes)
      [] m.form = "exchange" -> ReadTpmRequest(m.value.issuer, bytes)
      [] m.form = "cert"     ->
            ReadAikCertBlob(NewAESCBCKey(m.value.alg, m.value.random)[1], bytes)
      [] m.form = "csr"      -> ParseTCGCSRIDevIDContent(bytes)

-----------------------------------------------------------------------------
Init ==
    /\ sent \in Messages
    /\ wire = Write(sent.form, sent.value)
    /\ faults = sent.faults
    /\ received = FALSE
    /\ result = <<>>

Fault(bytes) ==
    /\ ~received
    /\ faults > 0
    /\ faults' = faults - 1
    /\ wire' = bytes
    /\ UNCHANGED <<sent, received, result>>

Cut == \E n \in 0..(Len(wire) - 1) : Fault(SubSeq(wire, 1, n))

Trail == \E b \in Bytes : Fault(Append(wire, b))

Change == \E i \in DOMAIN wire : \E b \in Bytes : Fault([wire EXCEPT ![i] = b])

Receive ==
    /\ ~received
    /\ received' = TRUE
    /\ result' = Read(sent, wire)
    /\ UNCHANGED <<sent, wire, faults>>

Next == Cut \/ Trail \/ Change \/ Receive

Spec == Init /\ [][Next]_vars

-----------------------------------------------------------------------------
(* Properties.                                                             *)

\* Parameters are those their algorithm takes, and no others.
ParmsComplete(k) ==
    /\ k.alg \in AlgMap
    /\ Len(k.rsa) = IF k.alg = Rsa THEN 1 ELSE 0
    /\ Len(k.sym) = IF k.alg \in Aes THEN 1 ELSE 0
    /\ \A p \in ToSet(k.rsa) : p.keyLength # 0 /\ p.numPrimes # 0
    /\ \A p \in ToSet(k.sym) : p.keyLength # 0 /\ p.blockSize # 0

KeyComplete(p) ==
    /\ ParmsComplete(p.parms)
    /\ p.key # <<>>
    /\ p.keyLength = Len(p.key)

\* A value of this form lacks nothing.
Complete(form, v) ==
    CASE form = "request"  -> /\ ParmsComplete(v.asym) /\ v.asymBlob # <<>>
                              /\ ParmsComplete(v.sym) /\ v.symBlob # <<>>
      [] form = "key"      -> v.alg \in AlgMap /\ v.key # <<>>
      [] form = "contents" -> v.key.alg \in AlgMap /\ v.key.key # <<>> /\ Len(v.digest) = 20
      [] form = "cert"     -> TRUE
      [] form = "csr"      -> /\ 0 \notin {v.structVer, v.hashAlgoID}
                              /\ <<>> \notin {v.hash, v.prodModel, v.prodSerial}
                              /\ v.ekCert.tag \in {Certificate, RsaPublic, EccPublic}
      [] OTHER             -> KeyComplete(v.aik) /\ Len(v.areas) = 5 /\ v.areas[2] # <<>>

\* Whatever arrives, what a reader accepts has all that is later used of it
\* without asking again: an AIK is one SerializePubKey can write for the digest,
\* DecryptWithSymmetricKey would take missing AES parameters for an IV inline,
\* and an EK without a PEM form would be of no use to the caller.
AcceptedIsComplete == result # <<>> => Complete(sent.form, result[1])

Sent == Write(sent.form, sent.value)

Rest(bytes, longer) == SubSeq(longer, Len(bytes) + 1, Len(longer))

\* What one side writes the other reads back, field by field and through the
\* encryption, whatever the sizes; the TPM may add zero bytes to a request.
\* The digest the service sends is that of the AIK as the TPM wrote it, and
\* the binding of a proof is verified over the AIK as the service writes it.
Original ==
    CASE sent.form = "exchange" -> TpmProof(sent.value)
      [] sent.form = "contents" ->
            [key |-> sent.value.key, digest |-> Sha1(SerializePubKey(sent.value.aik))]
      [] sent.form = "cert"     -> sent.value.cert
      [] sent.form = "csr"      -> sent.value.csr
      [] OTHER                  -> sent.value

MayTrail == sent.form \in {"request", "exchange"}

Foreign == sent.form = "exchange" /\ sent.value.signedFor # sent.value.issuer

MessagesSurvive ==
    /\ received
    /\ ~Foreign
    /\ \/ wire = Sent
       \/ MayTrail /\ IsPrefix(Sent, wire) /\ Zeros(Rest(Sent, wire))
    => result = <<Original>>

\* A message that ends early is an error for every reader, wherever it ends.
CutMessagesFail == received /\ IsStrictPrefix(wire, Sent) => result = <<>>

\* Whatever bytes a reader accepts, writing what it got gives them back: the
\* service hashes the AIK as it writes it, the TPM as it wrote it.  Only a
\* request may have more, and only zeros.
Rewritten(v) ==
    CASE sent.form = "key"      -> SymmetricKeyBytes(v)
      [] sent.form = "contents" -> SymmetricKeyBytes(v.key) \o v.digest
      [] OTHER                  -> Write(sent.form, v)

RewritesExactly(bytes) ==
    /\ IsPrefix(bytes, wire)
    /\ IF MayTrail THEN Zeros(Rest(bytes, wire)) ELSE Rest(bytes, wire) = <<>>

\* The areas of a CSR lie where its sizes put them, one behind the other from
\* the given place to the end, and what was got stands at the front of its own.
CsrSize(start, i) == Value(SubSeq(wire, start + 4 * i - 3, start + 4 * i))

CsrPlace(start, i) ==
    FoldLeft(+, start + 52, [j \in 1..(i - 1) |-> CsrSize(start, j)])

CsrHas(start, i, bytes) ==
    /\ Len(bytes) <= CsrSize(start, i)
    /\ bytes = SubSeq(wire, CsrPlace(start, i) + 1, CsrPlace(start, i) + Len(bytes))

CsrIsExact(c, start) ==
    /\ CsrPlace(start, 14) = Len(wire)
    /\ Sized(4, c.hash) = SubSeq(wire, 9, start)
    /\ CsrHas(start, 1, c.prodModel) /\ Len(c.prodModel) = CsrSize(start, 1)
    /\ CsrHas(start, 2, c.prodSerial) /\ Len(c.prodSerial) = CsrSize(start, 2)
    /\ CsrHas(start, 5, Marshal(c.ekCert))
    /\ CsrHas(start, 6, Marshal(c.iakPub))
    /\ CsrHas(start, 10, Marshal(c.idevidPub))
    /\ CsrHas(start, 11, Marshal(c.signCertifyInfo))
    /\ CsrHas(start, 12, Marshal(c.signature))

ReadersAreExact ==
    result # <<>> =>
        /\ sent.form \in {"request", "proof", "key", "contents"} =>
              RewritesExactly(Rewritten(result[1]))
        /\ sent.form = "csr" =>
              CsrIsExact(result[1], 12 + Value(SubSeq(wire, 9, 12)))

\* The RSA key of an AIK is the one the TPM has, also when it leaves out the
\* default exponent or writes it.
RsaKeys ==
    [n : {<<1>>, <<255>>, <<1, 0>>, <<156, 64>>, <<1, 17, 112, 0, 5>>}, e : {3, 257, 65537}]

Explicit(k) ==
    [ConstructPubKey(k) EXCEPT !.parms.rsa[1].exponent = BigEndian(4, k.e)]

KeysSurvive ==
    received /\ wire = Sent /\ ~Foreign /\ sent.form \in {"proof", "exchange"} =>
        \A k \in RsaKeys :
            Original.aik \in {ConstructPubKey(k), Explicit(k)}
            => result # <<>> /\ TpmPubKeyToRSAPubKey(result[1].aik) = <<k>>

\* An identity request that is changed on the way, or was made for another
\* issuer, yields no AIK but the one its TPM signed for this issuer: the areas
\* beside the AIK and the binding are protected by nothing.
OnlySignedAikPasses ==
    sent.form = "exchange" /\ result # <<>> =>
        /\ sent.value.signedFor = sent.value.issuer
        /\ result[1].aik = sent.value.aik
=============================================================================
