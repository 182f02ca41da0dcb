------------------------------ MODULE Tpm20Csr ------------------------------
(***************************************************************************)
(* ParseTCGCSRIDevIDContent (service/biz/tpm20_utils.go): the certificate  *)
(* signing request of an IDevID key.  Three numbers and a hash are         *)
(* followed by thirteen sizes, and these by the thirteen areas.            *)
(*                                                                         *)
(* The structures inside the areas are read by go-tpm and by x509.  Here   *)
(* such a structure is a tag, a length and a body.                         *)
(***************************************************************************)
EXTENDS TpmBytes

\* The tags: TPM_ALG_ID of keys and signatures, the magic of TPMS_ATTEST and
\* the DER sequence of a certificate.
RsaPublic   == 1
EccPublic   == 35
OtherPublic == 8
Public      == {RsaPublic, EccPublic, OtherPublic}
Attest      == {255}
Signatures  == {20, 22, 24}
Certificate == 48

Marshal(s) == <<s.tag, Len(s.body)>> \o s.body

\* tpm2.Unmarshal: the bytes behind the structure are ignored.
Unmarshal(tags, area) ==
    IF Len(area) >= 2 /\ area[1] \in tags /\ Len(area) >= 2 + area[2]
    THEN <<[tag |-> area[1], body |-> SubSeq(area, 3, 2 + area[2])]>>
    ELSE <<>>

\* certificateDerToPem: x509.ParseCertificate ignores nothing.
CertificateDerToPem(area) ==
    IF Len(area) >= 2 /\ Len(area) = 2 + area[2] THEN Unmarshal({Certificate}, area)
    ELSE <<>>

\* TPMTPublicToPEM: only RSA and ECC keys have a PEM form.
TPMTPublicToPEM(public) ==
    IF public # <<>> /\ public[1].tag = OtherPublic THEN <<>> ELSE public

\* The EK is a certificate or else a public area.
EKCert(area) ==
    IF CertificateDerToPem(area) # <<>> THEN CertificateDerToPem(area)
    ELSE TPMTPublicToPEM(Unmarshal(Public, area))

\* Only the sizes of what the service does not need, and of the padding, may be
\* zero.
Needed == {1, 2, 5, 6, 10, 11, 12}

\* Areas 5, 6, 10, 11 and 12 hold structures.
CsrParts(areas) ==
    <<EKCert(areas[5]), Unmarshal(Public, areas[6]), Unmarshal(Public, areas[10]),
      Unmarshal(Attest, areas[11]), Unmarshal(Signatures, areas[12])>>

CsrOf(structVer, hashAlgoID, hash, areas, parts) ==
    IF \A i \in 1..5 : parts[i] # <<>>
    THEN <<[structVer |-> structVer, hashAlgoID |-> hashAlgoID, hash |-> hash,
            prodModel |-> areas[1], prodSerial |-> areas[2], ekCert |-> parts[1][1],
            iakPub |-> parts[2][1], idevidPub |-> parts[3][1],
            signCertifyInfo |-> parts[4][1], signature |-> parts[5][1]]>>
    ELSE <<>>

ParseTCGCSRIDevIDContent(bytes) ==
    LET structVer  == NonZero(Number(Reader(bytes), 4))
        hashAlgoID == NonZero(Number(structVer, 4))
        hashSize   == NonZero(Number(hashAlgoID, 4))
        hash       == Area(hashSize, hashSize.got)
        sizes      == Numbers(hash, 13)
        areas      == Areas(sizes, sizes.got)
    IN IF Exactly(areas) /\ \A i \in Needed : sizes.got[i] # 0
       THEN CsrOf(structVer.got, hashAlgoID.got, hash.got, areas.got,
                  CsrParts(areas.got))
       ELSE <<>>

\* What the card writes: other is what the service skips, the padding last.
CsrAreasOf(c, other) ==
    <<c.prodModel, c.prodSerial, other[1], other[2], Marshal(c.ekCert),
      Marshal(c.iakPub), other[3], other[4], other[5], Marshal(c.idevidPub),
      Marshal(c.signCertifyInfo), Marshal(c.signature), other[6]>>

CsrOfAreas(c, areas) ==
    BigEndian(4, c.structVer) \o BigEndian(4, c.hashAlgoID) \o Sized(4, c.hash)
        \o Sizes(areas) \o FlattenSeq(areas)

CsrBytes(v) == CsrOfAreas(v.csr, CsrAreasOf(v.csr, v.other))

\* The values of a CSR, as the card can write them.
Parts(tags) == {s \in [tag : tags, body : Seq(Byte)] : Len(s.body) \in Byte}

CsrValues ==
    {v \in [csr : [structVer : Word \ {0}, hashAlgoID : Word \ {0}, hash : Filled,
                   prodModel : Filled, prodSerial : Filled,
                   ekCert : Parts({Certificate, RsaPublic, EccPublic}),
                   iakPub : Parts(Public), idevidPub : Parts(Public),
                   signCertifyInfo : Parts(Attest), signature : Parts(Signatures)],
            other : Seq(Blob)] :
        Len(v.other) = 6}
=============================================================================
