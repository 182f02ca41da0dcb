-------------------------- MODULE HmacChallengeProofs --------------------------
(***************************************************************************)
(* The checks of verifyIdentityWithHMACChallenge, for any number of cards  *)
(* and keys and any RoT database that is right or has no record: the keys  *)
(* they accept are in the TPM of the EK on record, they refuse no sound    *)
(* card, and they establish what HmacEnrollment takes for granted.         *)
(*                                                                         *)
(* The inductive invariant says what each call has left behind: a record,  *)
(* an import by nobody but the TPM with the EK on record, an IAK of such a *)
(* TPM, and that a workflow that is still sound has the keys of its card.  *)
(***************************************************************************)
EXTENDS HmacChallenge, Sequences, TLAPS

\* The record of the identity, once it is fetched.
RecordKnown ==
    /\ stage \in {"new", "verify", "fetchEK"} => rec = <<>>
    /\ stage \in {"challenge", "csr", "oidevid"} => rec # <<>>
    /\ rec # <<>> => \E r \in RotDB[Serial(id)] : rec = <<r>>

\* No TPM imports the HMAC key but the one with the EK on record.
ImportedByEk == \A c \in imported : rec # <<>> /\ c = rec[1].unique[1]

\* A key of a TPM that has imported the HMAC key.
Resident(pub) == pub \in Loaded /\ Holder(pub) \in imported

KeysKnown ==
    /\ stage \in {"new", "verify", "fetchEK", "challenge"} => iak = <<>>
    /\ stage # "oidevid" => idevid = <<>>
    /\ stage \in {"csr", "oidevid"} => iak # <<>>
    /\ iak # <<>> => \E pub \in Publics : /\ iak = <<pub>> /\ Resident(pub)
                                          /\ VerifyIAKAttributes(pub)
    /\ idevid # <<>> => \E pub \in Publics : idevid = <<pub>> /\ Resident(pub)

\* What a workflow that is still sound has established.
SoundSoFar ==
    sound =>
        /\ stage \in {"fetchEK", "challenge", "csr"} => id \in Card
        /\ stage = "csr" => iak = <<Iak[id]>>

ChallengeInv ==
    TypeOK /\ RecordKnown /\ ImportedByEk /\ KeysKnown /\ SoundSoFar /\ SoundCardsPass

-----------------------------------------------------------------------------
(* What the checks establish, whatever the answer.                         *)

\* A key with the attributes of an IAK is one its TPM has made, does not give
\* away and restricts.
LEMMA IakIsBound ==
    ASSUME NEW pub, VerifyIAKAttributes(pub)
    PROVE  {"fixedTPM", "sensitiveDataOrigin", "restricted"} \subseteq pub.attrs
  BY DEF VerifyIAKAttributes, VerifyTPMTPublicAttributes, IakAttributes, Checked

\* So is a key of the IDevID template, but for the restriction.
LEMMA IDevIDIsBound ==
    ASSUME NEW pub, FitsTemplate(pub)
    PROVE  {"fixedTPM", "sensitiveDataOrigin"} \subseteq pub.attrs
  BY DEF FitsTemplate, VerifyIdevidAttributes, VerifyTPMTPublicAttributes,
         IDevIDAttributes, IakAttributes, Checked

\* A certify info that a TPM has generated for a key with fixedTPM names a key
\* that is loaded in it.
LEMMA GeneratedIsLoaded ==
    ASSUME NEW c, NEW info \in Generated(c), NEW pub,
           VerifyCertifyInfo(info, pub), "fixedTPM" \in pub.attrs
    PROVE  pub \in Loaded /\ Holder(pub) = c
  BY DEF Generated, External, VerifyCertifyInfo, ObjectName

\* What a restricted key has signed and passes for a certify info is the TPM's.
LEMMA SignedIsGenerated ==
    ASSUME NEW c, NEW info \in SignedRestricted(c), NEW pub,
           VerifyCertifyInfo(info, pub)
    PROVE  info \in Generated(c)
  BY DEF SignedRestricted, VerifyCertifyInfo

\* Only the TPM with the key on record imports what is wrapped to it.
LEMMA ImportingIsHolder ==
    ASSUME NEW r, NEW c \in Importing(r)
    PROVE  c \in Card /\ c = r.unique[1]
  <1>1. PICK i \in DOMAIN CreateHMACChallenge(r) :
            Imports(c, CreateHMACChallenge(r)[i], KeyType(r))
    BY DEF Importing
  <1>2. CreateHMACChallenge(r)[i].parent.unique = r.unique
    BY <1>1 DEF CreateHMACChallenge, WrapHMACKeytoRSAPublicKey,
                RSAEKPublicKeyToTPMTPublic
  <1> QED
    BY <1>1, <1>2 DEF Imports, Importing

\* The answer to a challenge that verifies is about a key that is loaded in a
\* TPM that has imported the HMAC key of this challenge.
LEMMA VerifiedAnswer ==
    ASSUME NEW S, NEW a \in Answers(S), AnswerVerifies(a)
    PROVE  a.iakPub \in Loaded /\ Holder(a.iakPub) \in S
  <1>1. a.sig \in Hmacs(S)
    BY DEF Answers
  <1>2. a.sig.key = Fresh /\ a.sig.data = a.info
    BY DEF AnswerVerifies, VerifyHMAC
  <1>3. Fresh # Stale
    BY DEF Fresh, Stale
  <1>4. PICK c \in S : a.info \in SignedRestricted(c)
    BY <1>1, <1>2, <1>3 DEF Hmacs, Hmac
  <1>5. a.info \in Generated(c)
    BY <1>4, SignedIsGenerated DEF AnswerVerifies
  <1>6. "fixedTPM" \in a.iakPub.attrs
    BY IakIsBound DEF AnswerVerifies
  <1> QED
    BY <1>5, <1>6, GeneratedIsLoaded DEF AnswerVerifies

\* The HMAC answer for a key shows it to have a public area.
LEMMA AnswerIsPublic ==
    ASSUME NEW S, NEW a \in Answers(S)
    PROVE  a.iakPub \in Publics
  BY DEF Answers

\* An IDevID key that verifies under an accepted IAK is loaded in its TPM: only
\* that IAK can have signed, and what it signs its TPM has generated.
LEMMA VerifiedKey ==
    ASSUME NEW iakPub \in Loaded, VerifyIAKAttributes(iakPub),
           NEW c \in AnyCertified, IDevIDKeyVerifies(c, iakPub)
    PROVE  c.idevidPub \in Loaded /\ Holder(c.idevidPub) = Holder(iakPub)
  <1> DEFINE info == c.signCertifyInfo
             sig  == c.signCertifyInfoSignature
  <1>1. PICK k \in Keys : \E a \in SignedBy(k) : sig = Signature(k, a)
    BY DEF AnyCertified, Certified
  <1>2. PICK a \in SignedBy(k) : sig = Signature(k, a)
    BY <1>1
  <1>3. k.unique = iakPub.unique /\ a = info
    BY <1>2 DEF IDevIDKeyVerifies, VerifyTPMTSignature, VerifyWith, Signature
  <1>4. Holder(iakPub) \in Card /\ Holder(iakPub) # NoCard
    BY ChallengeAssumption
  <1>5. k \in Loaded
    BY <1>3, <1>4 DEF Keys, Holder
  <1>6. k = iakPub
    BY <1>3, <1>5, IakIsBound, OriginAssumption
  <1>7. info \in SignedRestricted(Holder(iakPub))
    BY <1>2, <1>3, <1>5, <1>6, IakIsBound DEF SignedBy
  <1>8. VerifyCertifyInfo(info, c.idevidPub)
    BY DEF IDevIDKeyVerifies
  <1>9. info \in Generated(Holder(iakPub))
    BY <1>7, <1>8, SignedIsGenerated
  <1>10. "fixedTPM" \in c.idevidPub.attrs
    BY IDevIDIsBound DEF IDevIDKeyVerifies, FitsTemplate
  <1> QED
    BY <1>8, <1>9, <1>10, GeneratedIsLoaded

LEMMA CertifiedIsPublic ==
    ASSUME NEW c \in AnyCertified
    PROVE  c.idevidPub \in Publics
  BY DEF AnyCertified, Certified

\* Neither key fails the conversion to PEM: the signatures have shown their type.
LEMMA Converts ==
    ASSUME NEW iakPub, NEW c, IDevIDKeyVerifies(c, iakPub)
    PROVE  TPMTPublicToPEM(iakPub) # <<>> /\ TPMTPublicToPEM(c.idevidPub) # <<>>
  <1>1. iakPub.type \in {"RSA", "ECC"}
    BY DEF IDevIDKeyVerifies, VerifyTPMTSignature, TypeOf
  <1>2. c.idevidPub.type = "ECC"
    BY DEF IDevIDKeyVerifies, VerifyIdevidAttributes
  <1> QED
    BY <1>1, <1>2 DEF TPMTPublicToPEM

-----------------------------------------------------------------------------
(* What the checks pass.                                                   *)

\* The TPM of a fit EK imports the HMAC key: its exponent survives the wrapping.
LEMMA FitImports ==
    ASSUME NEW r \in FitEKs, NEW c \in Card, r.unique[1] = c,
           \E role \in Role : seat[role] = c
    PROVE  c \in Importing(r)
  <1>1. /\ r \in EKs /\ r.bits = 2048
        /\ r.e \in 3..MaxExponent /\ r.e % 2 = 1
    BY FitAssumption
  <1>2. ValidateRSAPublicKey(r)
    <2>1. (2048 + 7) \div 8 = 256
      OBVIOUS
    <2>2. 8 * ((r.bits + 7) \div 8) = 2048
      BY <1>1, <2>1
    <2> QED
      BY <1>1, <2>2, Tpm20Assumption DEF ValidateRSAPublicKey
  <1> DEFINE blob == [parent |-> RSAEKPublicKeyToTPMTPublic(r),
                      name |-> ObjectName(GenerateRestrictedHMACKey(Fresh))]
  <1>3. CreateHMACChallenge(r) = <<blob>>
    BY <1>2 DEF CreateHMACChallenge, WrapHMACKeytoRSAPublicKey
  <1>4. blob.parent.unique = r.unique
    BY DEF RSAEKPublicKeyToTPMTPublic
  <1>5. r.e = (IF blob.parent.exponent = 0 THEN 65537 ELSE blob.parent.exponent)
    BY <1>1 DEF RSAEKPublicKeyToTPMTPublic
  <1>6. Imports(c, blob, KeyType(r))
    BY <1>1, <1>4, <1>5 DEF Imports, KeyType
  <1>7. 1 \in DOMAIN CreateHMACChallenge(r) /\ CreateHMACChallenge(r)[1] = blob
    BY <1>3
  <1> QED
    BY <1>6, <1>7 DEF Importing

\* The answer of a fit card verifies.
LEMMA FitAnswerVerifies ==
    ASSUME NEW c \in FitCards
    PROVE  AnswerVerifies(SoundAnswer(c))
  <1>1. /\ Iak[c].attrs \ {"noDA"} = IakAttributes
        /\ Iak[c].nameAlg \in {"SHA256", "SHA384"}
    BY FitAssumption
  <1>2. VerifyIAKAttributes(Iak[c])
    BY <1>1 DEF VerifyIAKAttributes, VerifyTPMTPublicAttributes, IakAttributes, Checked
  <1>3. VerifyCertifyInfo(Certify(Iak[c]), Iak[c])
    BY DEF VerifyCertifyInfo, Certify
  <1>4. VerifyHMAC(Certify(Iak[c]), Hmac(Fresh, Certify(Iak[c])), Fresh)
    BY DEF VerifyHMAC, Hmac
  <1> QED
    BY <1>2, <1>3, <1>4 DEF AnswerVerifies, SoundAnswer

\* A key verifies what it has signed, if its scheme is one for its type.
LEMMA OwnSignatureVerifies ==
    ASSUME NEW pub, NEW data,
           \/ pub.type = "RSA" /\ pub.scheme \in {"RSASSA", "RSAPSS"}
           \/ pub.type = "ECC" /\ pub.scheme = "ECDSA",
           pub.nameAlg \in Hashes
    PROVE  VerifyTPMTSignature(data, Signature(pub, data), pub)
  <1>1. VerifyWith(data, Signature(pub, data), pub)
    BY DEF VerifyWith, Signature
  <1> QED
    BY <1>1 DEF VerifyTPMTSignature, Signature, TypeOf

\* The CSR of a fit card verifies.
LEMMA FitCsrVerifies ==
    ASSUME NEW c \in FitCards
    PROVE  CsrVerifies(SoundCsr(c), c, Iak[c])
  <1> DEFINE info == Certify(IDevID[c])
             key  == Certified(IDevID[c], info, Signature(Iak[c], info))
             contents == [prodSerial |-> c, key |-> key]
  <1>1. c \in Card /\ c # NoCard
    BY FitAssumption, ChallengeAssumption
  <1>2. /\ Iak[c].nameAlg \in Hashes
        /\ \/ Iak[c].type = "RSA" /\ Iak[c].scheme \in {"RSASSA", "RSAPSS"}
           \/ Iak[c].type = "ECC" /\ Iak[c].scheme = "ECDSA"
    BY FitAssumption DEF Hashes
  <1>3. /\ IDevID[c].attrs \ {"noDA"} = IDevIDAttributes
        /\ IDevID[c].type = "ECC" /\ IDevID[c].nameAlg = "SHA384"
        /\ IDevID[c].curve = "P384" /\ IDevID[c].scheme = "ECDSA"
    BY FitAssumption
  <1>4. VerifyTPMTSignature(info, Signature(Iak[c], info), Iak[c])
    BY <1>2, OwnSignatureVerifies
  <1>5. VerifyCertifyInfo(info, IDevID[c])
    BY DEF VerifyCertifyInfo, Certify
  <1>6. VerifyIdevidAttributes(IDevID[c], KeyTemplate)
    BY <1>3 DEF VerifyIdevidAttributes, VerifyTPMTPublicAttributes, KeyTemplate,
                IDevIDAttributes, IakAttributes, Checked
  <1>7. IDevIDKeyVerifies(key, Iak[c])
    BY <1>4, <1>5, <1>6 DEF IDevIDKeyVerifies, Certified
  <1>8. VerifyTPMTSignature(contents, Signature(IDevID[c], contents), IDevID[c])
    BY <1>3, OwnSignatureVerifies DEF Hashes
  <1>9. /\ SoundCsr(c).contents = contents
        /\ SoundCsr(c).signature = Signature(IDevID[c], contents)
        /\ key.idevidPub = IDevID[c]
    BY DEF SoundCsr, Csr, Certified
  <1> QED
    BY <1>1, <1>7, <1>8, <1>9 DEF CsrVerifies

-----------------------------------------------------------------------------
(* The invariant, step by step.                                            *)

RecordSet == UNION {RotDB[c] : c \in CardId}

\* The initial states satisfy the invariant: nothing is fetched or accepted.
LEMMA ChallengeInitInv == Init => ChallengeInv
  <1> SUFFICES ASSUME Init PROVE ChallengeInv
    OBVIOUS
  <1>1. TypeOK
    BY SeatingAssumption DEF Init, TypeOK, Maybe
  <1>2. RecordKnown /\ ImportedByEk /\ KeysKnown /\ SoundSoFar /\ SoundCardsPass
    BY DEF Init, RecordKnown, ImportedByEk, KeysKnown, SoundSoFar, SoundCardsPass
  <1> QED
    BY <1>1, <1>2 DEF ChallengeInv

\* The selection means a seated card, if it means one.
LEMMA HereIsSeated ==
    ASSUME TypeOK, Here \in Card
    PROVE  \E role \in Role : seat[role] = Here
  BY ChallengeAssumption DEF TypeOK, Here

LEMMA StartInv ==
    ASSUME ChallengeInv, Start
    PROVE  ChallengeInv'
  BY DEF Start, Goto, ChallengeInv, TypeOK, RecordKnown, ImportedByEk, KeysKnown,
         Resident, SoundSoFar, SoundCardsPass

LEMMA GetVendorIDInv ==
    ASSUME ChallengeInv, GetVendorID
    PROVE  ChallengeInv'
  <1>1. /\ stage = "verify" /\ imported = {} /\ rec = <<>> /\ iak = <<>> /\ idevid = <<>>
    BY DEF GetVendorID, ChallengeInv, RecordKnown, ImportedByEk, KeysKnown
  <1>2. TypeOK'
    BY DEF GetVendorID, Goto, Fail, ChallengeInv, TypeOK, CardId
  <1>3. (RecordKnown /\ ImportedByEk /\ KeysKnown)'
    BY <1>1 DEF GetVendorID, Goto, Fail, ChallengeInv, TypeOK, RecordKnown,
                ImportedByEk, KeysKnown, Resident
  <1>4. (SoundSoFar /\ SoundCardsPass)'
    BY <1>1 DEF GetVendorID, Goto, Fail, ChallengeInv, TypeOK, SoundSoFar, SoundCardsPass
  <1> QED
    BY <1>2, <1>3, <1>4 DEF ChallengeInv

LEMMA FetchEKInv ==
    ASSUME ChallengeInv, FetchEK
    PROVE  ChallengeInv'
  <1>1. stage = "fetchEK" /\ imported = {} /\ iak = <<>> /\ idevid = <<>>
    BY DEF FetchEK, ChallengeInv, RecordKnown, ImportedByEk, KeysKnown
  <1>2. CASE \E r \in RotDB[Serial(id)] : rec' = <<r>> /\ Goto("challenge") /\ UNCHANGED sound
    <2>1. PICK r \in RotDB[Serial(id)] : rec' = <<r>>
      BY <1>2
    <2>2. rec' \in Maybe(RecordSet)
      BY <2>1 DEF Maybe, RecordSet, ChallengeInv, TypeOK, Serial, CardId
    <2>3. TypeOK'
      BY <1>1, <1>2, <2>2 DEF FetchEK, Goto, ChallengeInv, TypeOK, RecordSet
    <2>4. (RecordKnown /\ ImportedByEk /\ KeysKnown)'
      BY <1>1, <1>2, <2>1 DEF FetchEK, Goto, RecordKnown, ImportedByEk, KeysKnown
    <2>5. (SoundSoFar /\ SoundCardsPass)'
      BY <1>1, <1>2 DEF FetchEK, Goto, ChallengeInv, SoundSoFar, SoundCardsPass
    <2> QED
      BY <2>3, <2>4, <2>5 DEF ChallengeInv
  <1>3. CASE Fail("ErrVerifyIdentity") /\ sound' = FALSE /\ UNCHANGED rec
    <2>1. TypeOK'
      BY <1>1, <1>3 DEF FetchEK, Fail, ChallengeInv, TypeOK
    <2>2. (RecordKnown /\ ImportedByEk /\ KeysKnown)'
      BY <1>1, <1>3 DEF FetchEK, Fail, ChallengeInv, RecordKnown, ImportedByEk, KeysKnown
    <2>3. (SoundSoFar /\ SoundCardsPass)'
      BY <1>3 DEF Fail, SoundSoFar, SoundCardsPass
    <2> QED
      BY <2>1, <2>2, <2>3 DEF ChallengeInv
  <1> QED
    BY <1>2, <1>3 DEF FetchEK

\* What the TPM imports in a challenge, whatever becomes of the answer.
LEMMA ChallengeImports ==
    ASSUME ChallengeInv, Challenge
    PROVE  /\ stage = "challenge" /\ iak = <<>> /\ idevid = <<>>
           /\ UNCHANGED <<sel, seat, id, rec, idevid>>
           /\ imported' \subseteq Card
           /\ ImportedByEk'
           /\ \E r \in RotDB[Serial(id)] : rec = <<r>>
           /\ stage' \in {"csr", "done"} => RecordKnown'
  <1>1. /\ stage = "challenge" /\ iak = <<>> /\ idevid = <<>>
        /\ UNCHANGED <<sel, seat, id, rec, idevid>>
        /\ imported' \in {imported, imported \cup Importing(rec[1])}
    BY DEF Challenge, ChallengeInv, KeysKnown
  <1>2. PICK r \in RotDB[Serial(id)] : rec = <<r>>
    BY <1>1 DEF ChallengeInv, RecordKnown
  <1>3. \A c \in Importing(rec[1]) : c \in Card /\ c = rec[1].unique[1]
    BY ImportingIsHolder
  <1>4. imported' \subseteq Card
    BY <1>1, <1>3 DEF ChallengeInv, TypeOK
  <1>5. ImportedByEk'
    BY <1>1, <1>2, <1>3 DEF ChallengeInv, ImportedByEk
  <1>6. stage' \in {"csr", "done"} => RecordKnown'
    BY <1>1, <1>2 DEF RecordKnown
  <1> QED
    BY <1>1, <1>2, <1>4, <1>5, <1>6

LEMMA ChallengeStepInv ==
    ASSUME ChallengeInv, Challenge
    PROVE  ChallengeInv'
  <1>1. /\ stage = "challenge" /\ iak = <<>> /\ idevid = <<>>
        /\ UNCHANGED <<sel, seat, id, rec, idevid>>
        /\ imported' \subseteq Card
        /\ ImportedByEk'
        /\ \E r \in RotDB[Serial(id)] : rec = <<r>>
        /\ stage' \in {"csr", "done"} => RecordKnown'
    BY ChallengeImports
  <1>2. CASE /\ Here \in Card
             /\ \E a \in Answers(imported') :
                   /\ AnswerVerifies(a)
                   /\ iak' = <<a.iakPub>>
                   /\ sound' = (sound /\ Here = id /\ a = SoundAnswer(Here))
             /\ Goto("csr")
    <2>1. PICK a \in Answers(imported') :
              /\ AnswerVerifies(a)
              /\ iak' = <<a.iakPub>>
              /\ sound' = (sound /\ Here = id /\ a = SoundAnswer(Here))
      BY <1>2
    <2>2. a.iakPub \in Publics /\ a.iakPub \in Loaded /\ Holder(a.iakPub) \in imported'
      BY <2>1, VerifiedAnswer, AnswerIsPublic
    <2>3. stage' = "csr" /\ result' = result
      BY <1>2 DEF Goto
    <2>4. TypeOK'
      BY <1>1, <2>1, <2>2, <2>3 DEF ChallengeInv, TypeOK, Maybe
    <2>5. KeysKnown'
      BY <1>1, <2>1, <2>2, <2>3 DEF KeysKnown, Resident, AnswerVerifies
    <2>6. SoundSoFar'
      <3>1. sound' => iak' = <<Iak[id]>>
        <4>1. SoundAnswer(id).iakPub = Iak[id]
          BY DEF SoundAnswer
        <4>2. sound' => a = SoundAnswer(id)
          BY <2>1
        <4> QED
          BY <2>1, <4>1, <4>2
      <3> QED
        BY <1>1, <2>1, <2>3, <3>1 DEF ChallengeInv, SoundSoFar
    <2>7. SoundCardsPass'
      BY <2>3 DEF SoundCardsPass
    <2> QED
      BY <1>1, <2>3, <2>4, <2>5, <2>6, <2>7 DEF ChallengeInv
  <1>3. CASE /\ sound /\ Here = id
             /\ id \in Importing(rec[1]) => ~AnswerVerifies(SoundAnswer(id))
             /\ Fail("ErrVerifyIdentity") /\ UNCHANGED <<iak, sound>>
    <2>1. stage' = "done" /\ result' = "ErrVerifyIdentity"
      BY <1>3 DEF Fail
    <2>2. TypeOK'
      BY <1>1, <1>3, <2>1 DEF ChallengeInv, TypeOK
    <2>3. KeysKnown' /\ SoundSoFar'
      BY <1>1, <1>3, <2>1 DEF KeysKnown, SoundSoFar
    <2>4. id \in Card
      BY <1>1, <1>3 DEF ChallengeInv, SoundSoFar
    <2>5. SoundCardsPass'
      <3> SUFFICES ASSUME rec[1] \in FitEKs, id \in FitCards PROVE FALSE
        BY <1>1 DEF SoundCardsPass
      <3>1. rec[1].unique[1] = id
        <4>1. Serial(id) = id
          BY <2>4, ChallengeAssumption DEF Serial
        <4> QED
          BY <1>1, <2>4, <4>1, RecordAssumption
      <3>2. \E role \in Role : seat[role] = id
        BY <1>3, <2>4, HereIsSeated DEF ChallengeInv
      <3>3. id \in Importing(rec[1])
        BY <2>4, <3>1, <3>2, FitImports
      <3> QED
        BY <1>3, <3>3, FitAnswerVerifies
    <2> QED
      BY <1>1, <2>1, <2>2, <2>3, <2>5 DEF ChallengeInv
  <1>4. CASE Fail("ErrVerifyIdentity") /\ sound' = FALSE /\ UNCHANGED iak
    <2>1. stage' = "done" /\ result' = "ErrVerifyIdentity"
      BY <1>4 DEF Fail
    <2>2. TypeOK'
      BY <1>1, <1>4, <2>1 DEF ChallengeInv, TypeOK
    <2>3. (KeysKnown /\ SoundSoFar /\ SoundCardsPass)'
      BY <1>1, <1>4, <2>1 DEF KeysKnown, SoundSoFar, SoundCardsPass
    <2> QED
      BY <1>1, <2>1, <2>2, <2>3 DEF ChallengeInv
  <1> QED
    BY <1>2, <1>3, <1>4 DEF Challenge

\* The CSR that verifies has a key of the TPM of the IAK, and is converted.
LEMMA AcceptedCsr ==
    ASSUME ChallengeInv, stage = "csr",
           NEW certified \in AnyCertified, IDevIDKeyVerifies(certified, iak[1]),
           Accept(certified.idevidPub)
    PROVE  /\ stage' = "oidevid" /\ result' = result
           /\ idevid' = <<certified.idevidPub>>
           /\ certified.idevidPub \in Publics
           /\ Resident(certified.idevidPub)
           /\ Holder(certified.idevidPub) = Holder(iak[1])
  <1>1. PICK pub \in Publics : iak = <<pub>> /\ Resident(pub) /\ VerifyIAKAttributes(pub)
    BY DEF ChallengeInv, KeysKnown
  <1>2. iak[1] = pub
    BY <1>1
  <1>3. certified.idevidPub \in Loaded /\ Holder(certified.idevidPub) = Holder(pub)
    BY <1>1, <1>2, VerifiedKey DEF Resident
  <1>4. TPMTPublicToPEM(iak[1]) # <<>> /\ TPMTPublicToPEM(certified.idevidPub) # <<>>
    BY Converts
  <1>5. stage' = "oidevid" /\ result' = result /\ idevid' = <<certified.idevidPub>>
    BY <1>4 DEF Accept, Goto
  <1> QED
    BY <1>1, <1>2, <1>3, <1>5, CertifiedIsPublic DEF Resident

LEMMA GetCsrInv ==
    ASSUME ChallengeInv, GetCsr
    PROVE  ChallengeInv'
  <1>1. /\ stage = "csr" /\ idevid = <<>>
        /\ UNCHANGED <<sel, seat, id, rec, iak, imported>>
    BY DEF GetCsr, ChallengeInv, KeysKnown
  <1>2. stage' \in {"oidevid", "done"} => (RecordKnown /\ ImportedByEk)'
    BY <1>1 DEF ChallengeInv, RecordKnown, ImportedByEk
  <1>3. CASE \E certified \in {c \in AnyCertified : IDevIDKeyVerifies(c, iak[1])} :
                Accept(certified.idevidPub) /\ sound' \in BOOLEAN
    <2>1. PICK certified \in AnyCertified :
              /\ IDevIDKeyVerifies(certified, iak[1])
              /\ Accept(certified.idevidPub)
      BY <1>3
    <2>2. /\ stage' = "oidevid" /\ result' = result
          /\ idevid' = <<certified.idevidPub>>
          /\ certified.idevidPub \in Publics
          /\ Resident(certified.idevidPub)
      BY <1>1, <2>1, AcceptedCsr
    <2>3. TypeOK'
      BY <1>1, <1>3, <2>2 DEF ChallengeInv, TypeOK, Maybe
    <2>4. (KeysKnown /\ SoundSoFar /\ SoundCardsPass)'
      BY <1>1, <2>2 DEF ChallengeInv, KeysKnown, Resident, SoundSoFar, SoundCardsPass
    <2> QED
      BY <1>2, <2>2, <2>3, <2>4 DEF ChallengeInv
  <1>4. CASE /\ sound /\ Here = id
             /\ ~CsrVerifies(SoundCsr(id), id, iak[1])
             /\ Fail("ErrVerifyIdentity") /\ UNCHANGED <<idevid, sound>>
    <2>1. stage' = "done" /\ result' = "ErrVerifyIdentity"
      BY <1>4 DEF Fail
    <2>2. TypeOK'
      BY <1>1, <1>4, <2>1 DEF ChallengeInv, TypeOK
    <2>3. (KeysKnown /\ SoundSoFar)'
      BY <1>1, <1>4, <2>1 DEF ChallengeInv, KeysKnown, Resident, SoundSoFar
    <2>4. iak[1] = Iak[id]
      BY <1>1, <1>4 DEF ChallengeInv, SoundSoFar
    <2>5. SoundCardsPass'
      BY <1>1, <1>4, <2>4, FitCsrVerifies DEF SoundCardsPass
    <2> QED
      BY <1>2, <2>1, <2>2, <2>3, <2>5 DEF ChallengeInv
  <1>5. CASE Fail("ErrVerifyIdentity") /\ sound' = FALSE /\ UNCHANGED idevid
    <2>1. stage' = "done" /\ result' = "ErrVerifyIdentity"
      BY <1>5 DEF Fail
    <2>2. TypeOK'
      BY <1>1, <1>5, <2>1 DEF ChallengeInv, TypeOK
    <2>3. (KeysKnown /\ SoundSoFar /\ SoundCardsPass)'
      BY <1>1, <1>5, <2>1 DEF ChallengeInv, KeysKnown, Resident, SoundSoFar, SoundCardsPass
    <2> QED
      BY <1>2, <2>1, <2>2, <2>3 DEF ChallengeInv
  <1> QED
    BY <1>3, <1>4, <1>5 DEF GetCsr

\* The cards change places; what has been established stays.
LEMMA SwitchoverInv ==
    ASSUME ChallengeInv, Switchover
    PROVE  ChallengeInv'
  <1>1. seat' \in [Role -> Card \cup {NoCard}]
    BY DEF Switchover, ChallengeInv, TypeOK, Role
  <1> QED
    BY <1>1 DEF Switchover, ChallengeInv, TypeOK, RecordKnown, ImportedByEk, KeysKnown,
                Resident, SoundSoFar, SoundCardsPass

LEMMA ChallengeStutterInv ==
    ASSUME ChallengeInv, UNCHANGED vars
    PROVE  ChallengeInv'
  BY DEF vars, ChallengeInv, TypeOK, RecordKnown, ImportedByEk, KeysKnown, Resident,
         SoundSoFar, SoundCardsPass

\* The inductive invariant: what every call of the workflow has established.
THEOREM ChallengeAlways == Spec => []ChallengeInv
  <1>1. ChallengeInv /\ [Next]_vars => ChallengeInv'
    BY StartInv, GetVendorIDInv, FetchEKInv, ChallengeStepInv, GetCsrInv,
       SwitchoverInv, ChallengeStutterInv DEF Next
  <1> QED
    BY <1>1, ChallengeInitInv, PTL DEF Spec

\* Types; the call has a result exactly when it is over.
THEOREM ChallengeTypeCorrect == Spec => []TypeOK
  <1>1. ChallengeInv => TypeOK
    BY DEF ChallengeInv
  <1> QED
    BY <1>1, ChallengeAlways, PTL

\* The keys VerifyHMAC, verifyIAKKey and verifyIdevidKeyAndCsr accept are in the
\* TPM of the EK on record, with the attributes they were shown with.
THEOREM ChallengeAcceptsResident == Spec => []AcceptedKeysResident
  <1>1. ChallengeInv => AcceptedKeysResident
    BY DEF ChallengeInv, KeysKnown, Resident, ImportedByEk, AcceptedKeysResident
  <1> QED
    BY <1>1, ChallengeAlways, PTL

\* A sound card is not refused: wrapping, import, HMAC, certify infos, CSR and
\* conversion all succeed for it.
THEOREM ChallengePassesSound == Spec => []SoundCardsPass
  <1>1. ChallengeInv => SoundCardsPass
    BY DEF ChallengeInv
  <1> QED
    BY <1>1, ChallengeAlways, PTL

-----------------------------------------------------------------------------
(* The steps of HmacEnrollment.                                            *)

\* The constants are such as HmacEnrollment asks for.
THEOREM ChallengeFitsEnrollment ==
    /\ NoCard \notin Card \cup Enrollment!Role
    /\ NoSerial \notin Card \cup Enrollment!Role \cup {NoCard}
    /\ Card \cap Enrollment!Role = {}
    /\ NoCert \notin Enrollment!Cert
    /\ {Request(selection) : selection \in Role \cup Card} \subseteq Enrollment!Request
    /\ NoRequest \notin Enrollment!Request
    /\ Fits(VerifyIAKAttributes) \subseteq Card
    /\ Fits(FitsTemplate) \subseteq Card
    /\ [c \in CardId |-> RecordOf(RotDB[c])]
          \in [Enrollment!CardId -> Card \cup {NoCard}]
    /\ \A c \in Card : RecordOf(RotDB[c]) \in {c, NoCard}
    /\ \A selection \in Role \cup Card :
          Request(selection).kind = "hmac" /\ ~Request(selection).skip
  <1>1. Enrollment!Role = Role
    BY DEF Role, Enrollment!Role
  <1>2. \A selection \in Role \cup Card : Request(selection) \in Enrollment!Request
    <2> SUFFICES ASSUME NEW selection \in Role \cup Card
                 PROVE  Request(selection) \in Enrollment!Request
      OBVIOUS
    <2>1. <<selection>> \in Seq(Enrollment!Selection)
      BY <1>1 DEF Enrollment!Selection
    <2> QED
      BY <2>1 DEF Request, Enrollment!Request
  <1>3. Fits(VerifyIAKAttributes) \subseteq Card /\ Fits(FitsTemplate) \subseteq Card
    BY DEF Fits
  <1>4. \A c \in Card : RecordOf(RotDB[c]) \in {c, NoCard}
    BY RecordAssumption DEF RecordOf
  <1>5. RecordOf(RotDB[NoSerial]) \in Card \cup {NoCard}
    BY RecordAssumption DEF RecordOf
  <1>6. \A selection \in Role \cup Card :
            Request(selection).kind = "hmac" /\ ~Request(selection).skip
    BY DEF Request
  <1> QED
    BY <1>1, <1>2, <1>3, <1>4, <1>5, <1>6, ChallengeAssumption, InstanceAssumption
    DEF CardId, Enrollment!CardId

\* Initial states are initial states.
LEMMA ChallengeInitMaps == Init => Enrollment!Init
  <1> SUFFICES ASSUME Init PROVE Enrollment!Init
    OBVIOUS
  <1>1. CertData = NoData
    BY DEF Init, CertData, NoData, CardOf
  <1>2. Enrollment!OwnerInit
    BY <1>1, SeatingAssumption
    DEF Init, CertDataList, Round, Enrollment!OwnerInit, Enrollment!Position,
        Enrollment!NoData, NoData, Enrollment!NoPair, NoPair, Enrollment!Role, Role
  <1> QED
    BY <1>2 DEF Init, Enrollment!Init

\* The one session of the mapping, its selection, and the card behind it.
LEMMA MappedSelection ==
    ASSUME stage # "new"
    PROVE  /\ Enrollment!Here(Call) = Here
           /\ Enrollment!Last(Call)
           /\ Enrollment!NextIdx(Call) = 1
  <1>1. Request(sel).sels = <<sel>> /\ Len(<<sel>>) = 1 /\ <<sel>>[1] = sel
    BY DEF Request
  <1> QED
    BY <1>1 DEF Round, Enrollment!Here, Enrollment!Resolve, Enrollment!Last,
                Enrollment!Count, Enrollment!NextIdx, Enrollment!Role, Role, Here

\* The mapped variables that a step changes, each as HmacEnrollment changes it.
LEMMA GotoMaps ==
    ASSUME NEW CONSTANT next, stage' = next, result' = result
    PROVE  Enrollment!Goto(Call, next)
  BY DEF Enrollment!Goto

LEMMA FailMaps ==
    ASSUME NEW CONSTANT err, Fail(err)
    PROVE  Enrollment!Return(Call, err)
  BY DEF Fail, Enrollment!Return

LEMMA EntryExcept ==
    ASSUME NEW CONSTANT d, NEW CONSTANT e, NEW CONSTANT f
    PROVE  [[s \in {Call} |-> [i \in 1..2 |-> IF i = 1 THEN d ELSE f]]
               EXCEPT ![Call][1] = e]
           = [s \in {Call} |-> [i \in 1..2 |-> IF i = 1 THEN e ELSE f]]
  OBVIOUS

\* Past the first call the request of the session stays.
LEMMA RequestKept ==
    ASSUME stage # "new", stage' # "new", sel' = sel
    PROVE  UNCHANGED [s \in {Call} |-> IF stage = "new" THEN NoRequest ELSE Request(sel)]
  BY DEF Request

LEMMA EkKept ==
    ASSUME rec' = rec
    PROVE  UNCHANGED [s \in {Call} |-> IF rec = <<>> THEN NoCard ELSE rec[1].unique[1]]
  OBVIOUS

LEMMA AnswersKept ==
    ASSUME imported' = imported
    PROVE  UNCHANGED {[hmac |-> <<Call, 1>>, iak |-> c] : c \in imported}
  OBVIOUS

LEMMA DataKept ==
    ASSUME id' = id, iak' = iak, idevid' = idevid
    PROVE  UNCHANGED CertDataList
  BY DEF CertDataList, CertData, CardOf

LEMMA DeviceKept ==
    ASSUME seat' = seat
    PROVE  UNCHANGED Enrollment!deviceVars
  BY DEF Enrollment!deviceVars

LEMMA StartMaps ==
    ASSUME ChallengeInv, Start
    PROVE  Enrollment!Next
  <1>1. Request(sel).sels = <<sel>> /\ Len(<<sel>>) = 1
    BY DEF Request
  <1>2. Enrollment!Goto(Call, "verify")
    BY GotoMaps DEF Start, Goto
  <1>3. CertDataList' = CertDataList
    BY DEF Start, CertDataList, CertData, CardOf
  <1>4. Enrollment!Start(Call, Request(sel))
    BY <1>1, <1>2, <1>3 DEF Start, Goto, Enrollment!Start, Enrollment!Position, Round
  <1>5. sel \in Role \cup Card
    BY DEF ChallengeInv, TypeOK
  <1> QED
    BY <1>4, <1>5 DEF Start, Enrollment!Next

LEMMA GetVendorIDMaps ==
    ASSUME GetVendorID
    PROVE  Enrollment!GetVendorID(Call)
  <1>1. Enrollment!Here(Call) = Here /\ stage = "verify" /\ stage' # "new"
    BY MappedSelection DEF GetVendorID, Goto, Fail
  <1>2. Round' = Round /\ sel' = sel /\ seat' = seat
        /\ iak' = iak /\ idevid' = idevid /\ rec' = rec /\ imported' = imported
    BY DEF GetVendorID, Round
  <1>3. CASE id' \in {Here, NoSerial, NoCard} /\ Here \in Card /\ Goto("fetchEK")
    <2>1. CertData' = [CertData EXCEPT !.id = id']
      BY <1>2 DEF CertData, CardOf
    <2>2. CertDataList' = [CertDataList EXCEPT ![Call][Round[Call]].id = id']
      BY <2>1, Zenon DEF CertDataList, Round, NoData
    <2>3. Enrollment!Goto(Call, "fetchEK")
      BY <1>3, GotoMaps DEF Goto
    <2> QED
      BY <1>1, <1>2, <1>3, <2>2, <2>3, RequestKept, EkKept, AnswersKept, DeviceKept, Zenon
      DEF Enrollment!GetVendorID
  <1>4. CASE Fail("ErrVerifyIdentity") /\ UNCHANGED id
    <2>1. CertDataList' = CertDataList
      BY <1>2, <1>4, DataKept
    <2>2. Enrollment!Fail(Call)
      BY <1>4, FailMaps DEF Enrollment!Fail
    <2> QED
      BY <1>1, <1>2, <1>4, <2>1, <2>2, RequestKept, EkKept, AnswersKept, DeviceKept, Zenon
      DEF Enrollment!GetVendorID
  <1> QED
    BY <1>3, <1>4 DEF GetVendorID

\* A record that is fetched is the one HmacEnrollment finds.
LEMMA RecordFound ==
    ASSUME NEW serial \in CardId, NEW r \in RotDB[serial]
    PROVE  /\ RecordOf(RotDB[serial]) = r.unique[1]
           /\ r.unique[1] # NoCard
  <1>1. \A q \in RotDB[serial] : q.unique[1] = r.unique[1]
    BY RecordAssumption DEF CardId
  <1>2. r.unique[1] \in Card
    BY RecordAssumption DEF CardId
  <1>3. (CHOOSE q \in RotDB[serial] : TRUE) \in RotDB[serial]
    OBVIOUS
  <1> QED
    BY <1>1, <1>2, <1>3, ChallengeAssumption DEF RecordOf

LEMMA FetchEKMaps ==
    ASSUME ChallengeInv, FetchEK
    PROVE  Enrollment!FetchEK(Call)
  <1>1. /\ stage = "fetchEK" /\ stage' # "new" /\ Round' = Round
        /\ UNCHANGED <<sel, seat, id, iak, idevid, imported>>
    BY DEF FetchEK, Goto, Fail, Round
  <1>2. CertDataList' = CertDataList
    BY <1>1, DataKept
  <1>3. CASE \E r \in RotDB[Serial(id)] : rec' = <<r>> /\ Goto("challenge")
    <2>1. PICK r \in RotDB[Serial(id)] : rec' = <<r>>
      BY <1>3
    <2>6. Serial(id) \in CardId
      BY DEF ChallengeInv, TypeOK, Serial, CardId
    <2>2. RecordOf(RotDB[Serial(id)]) = r.unique[1] /\ r.unique[1] # NoCard
      BY <2>6, RecordFound
    <2>3. rec' # <<>> /\ rec'[1] = r
      BY <2>1
    <2>4. CertDataList[Call][Round[Call]].id = id
      BY DEF CertDataList, CertData, Round
    <2>5. Enrollment!Goto(Call, "challenge")
      BY <1>3, GotoMaps DEF Goto
    <2>7. [c \in CardId |-> RecordOf(RotDB[c])]
              [Enrollment!Serial(CertDataList[Call][Round[Call]].id)] = r.unique[1]
      BY <2>2, <2>4, <2>6 DEF Serial, Enrollment!Serial
    <2>8. [s \in {Call} |-> IF rec = <<>> THEN NoCard ELSE rec[1].unique[1]]'
             = [[s \in {Call} |-> IF rec = <<>> THEN NoCard ELSE rec[1].unique[1]]
                   EXCEPT ![Call] = r.unique[1]]
      BY <2>3
    <2> QED
      BY <1>1, <1>2, <2>2, <2>5, <2>7, <2>8, RequestKept, AnswersKept, DeviceKept, Zenon
      DEF Enrollment!FetchEK
  <1>4. CASE Fail("ErrVerifyIdentity") /\ UNCHANGED rec
    <2>1. Enrollment!Fail(Call)
      BY <1>4, FailMaps DEF Enrollment!Fail
    <2> QED
      BY <1>1, <1>2, <1>4, <2>1, RequestKept, EkKept, AnswersKept, DeviceKept, Zenon
      DEF Enrollment!FetchEK
  <1> QED
    BY <1>3, <1>4 DEF FetchEK

\* The answers of the TPMs: only the one with the EK on record gives a fresh one.
LEMMA AnswersMap ==
    ASSUME ChallengeInv, Challenge
    PROVE  {[hmac |-> <<Call, 1>>, iak |-> c] : c \in imported'}
             \in {{[hmac |-> <<Call, 1>>, iak |-> c] : c \in imported},
                  {[hmac |-> <<Call, 1>>, iak |-> c] : c \in imported}
                     \cup Enrollment!FreshAnswers(Call)}
  <1>1. PICK r \in RotDB[Serial(id)] : rec = <<r>>
    BY DEF Challenge, ChallengeInv, RecordKnown
  <1>2. rec # <<>> /\ rec[1] = r
    BY <1>1
  <1>3. Enrollment!FreshAnswers(Call)
          = {[hmac |-> <<Call, 1>>, iak |-> c] :
                c \in {seat[role] : role \in Role} \cap {r.unique[1]}}
    BY <1>2 DEF Enrollment!FreshAnswers, Round, Enrollment!Role, Role
  <1>4. CASE Importing(r) = {}
    BY <1>2, <1>4 DEF Challenge
  <1>5. CASE Importing(r) # {}
    <2>1. r.unique[1] \in Importing(r)
      BY <1>5, ImportingIsHolder
    <2>2. Importing(r) = {seat[role] : role \in Role} \cap {r.unique[1]}
      BY <2>1, ImportingIsHolder DEF Importing
    <2> QED
      BY <1>2, <1>3, <2>2 DEF Challenge
  <1> QED
    BY <1>4, <1>5

LEMMA ChallengeMaps ==
    ASSUME ChallengeInv, Challenge
    PROVE  Enrollment!Challenge(Call)
  <1>1. /\ stage = "challenge" /\ stage' # "new" /\ Round' = Round /\ Round[Call] = 1
        /\ UNCHANGED <<sel, seat, id, rec, idevid>>
    BY DEF Challenge, Goto, Fail, Round
  <1>2. CASE /\ \E a \in Answers(imported') : AnswerVerifies(a) /\ iak' = <<a.iakPub>>
             /\ Goto("csr")
    <2>1. PICK a \in Answers(imported') : AnswerVerifies(a) /\ iak' = <<a.iakPub>>
      BY <1>2
    <2> DEFINE pub == a.iakPub
               answer == [hmac |-> <<Call, 1>>, iak |-> Holder(pub)]
    <2>2. pub \in Loaded /\ Holder(pub) \in imported' /\ VerifyIAKAttributes(pub)
      BY <2>1, VerifiedAnswer DEF AnswerVerifies
    <2>3. answer \in {[hmac |-> <<Call, 1>>, iak |-> c] : c \in imported'}
      BY <2>2
    <2>4. Enrollment!AnswerVerifies(Call, answer)
      <3>1. Holder(pub) \in Card
        BY <2>2, ChallengeAssumption
      <3>2. Holder(pub) \in Fits(VerifyIAKAttributes)
        BY <2>2, <3>1 DEF Fits
      <3> QED
        BY <1>1, <3>2 DEF Enrollment!AnswerVerifies
    <2>5. CertDataList' = [CertDataList EXCEPT ![Call][Round[Call]].iak = answer.iak]
      <3>1. CardOf(iak)' = Holder(pub)
        BY <2>1, <2>2 DEF CardOf
      <3>2. CertData' = [CertData EXCEPT !.iak = answer.iak]
        BY <1>1, <3>1 DEF CertData, CardOf
      <3> QED
        BY <3>2, Zenon DEF CertDataList, Round
    <2>6. Enrollment!Goto(Call, "csr")
      BY <1>2, GotoMaps DEF Goto
    <2> QED
      BY <1>1, <2>3, <2>4, <2>5, <2>6, RequestKept, EkKept, AnswersMap, DeviceKept, Zenon
      DEF Enrollment!Challenge
  <1>3. CASE Fail("ErrVerifyIdentity") /\ UNCHANGED iak
    <2>1. CertDataList' = CertDataList
      BY <1>1, <1>3, DataKept
    <2>2. Enrollment!Fail(Call)
      BY <1>3, FailMaps DEF Enrollment!Fail
    <2> QED
      BY <1>1, <2>1, <2>2, RequestKept, EkKept, AnswersMap, DeviceKept, Zenon
      DEF Enrollment!Challenge
  <1> QED
    BY <1>2, <1>3 DEF Challenge

\* The IDevID key is learned, and rotation is atomic from then on.
LEMMA LearnedData ==
    ASSUME NEW d \in Enrollment!CardData, NEW e \in Enrollment!CardData, NEW csr,
           e.id = d.id, e.iak = d.iak, e.idevid = csr.idevid, e.atomic = TRUE
    PROVE  e = Enrollment!LearnIDevID(d, csr)
  BY DEF Enrollment!LearnIDevID, Enrollment!CardData

LEMMA CertDataType ==
    ASSUME TypeOK
    PROVE  CertData \in Enrollment!CardData
  <1>1. CardOf(iak) \in Card \cup {NoCard} /\ CardOf(idevid) \in Card \cup {NoCard}
    BY ChallengeAssumption DEF CardOf
  <1> QED
    BY <1>1 DEF TypeOK, CertData, Enrollment!CardData, CardId, Enrollment!CardId

LEMMA GetCsrMaps ==
    ASSUME ChallengeInv, GetCsr
    PROVE  Enrollment!GetCsr(Call)
  <1>1. /\ stage = "csr" /\ stage' # "new" /\ Round' = Round /\ Round[Call] = 1
        /\ UNCHANGED <<sel, seat, id, rec, iak, imported>>
    BY AcceptedCsr DEF GetCsr, Fail, Accept, Goto, Round
  <1>2. ASSUME Here \in Card,
               NEW certified \in AnyCertified, IDevIDKeyVerifies(certified, iak[1]),
               NEW serial \in Card, NEW cardId \in CardId \cup {NoCard}, NEW key,
               CsrVerifies(Csr(serial, certified, key), cardId, iak[1]),
               Accept(certified.idevidPub)
        PROVE  Enrollment!GetCsr(Call)
    <2> DEFINE pub == certified.idevidPub
               csr == [cardId |-> cardId, prodSerial |-> serial, idevid |-> Holder(pub),
                       certifiedBy |-> Holder(pub)]
    <2>1. /\ stage' = "oidevid" /\ result' = result /\ idevid' = <<pub>>
          /\ pub \in Loaded /\ Holder(pub) = Holder(iak[1])
      BY <1>1, <1>2, AcceptedCsr DEF Resident
    <2>2. iak # <<>> /\ iak[1] \in Loaded
      BY <1>1 DEF ChallengeInv, KeysKnown, Resident
    <2>3. Holder(pub) \in Card
      BY <2>1, ChallengeAssumption
    <2>4. csr \in Enrollment!CsrResponses
      <3>1. cardId \in Enrollment!CardId \cup {NoCard}
        BY DEF CardId, Enrollment!CardId
      <3> QED
        BY <2>3, <3>1 DEF Enrollment!CsrResponses
    <2>5. Enrollment!CsrVerifies(Call, csr)
      <3>1. CertDataList[Call][Round[Call]].iak = Holder(pub)
        BY <2>1, <2>2 DEF CertDataList, CertData, CardOf, Round
      <3>2. Holder(pub) \in Fits(FitsTemplate)
        BY <1>2, <2>1, <2>3 DEF Fits, FitsTemplate, IDevIDKeyVerifies
      <3>3. cardId # NoCard /\ serial = cardId
        BY <1>2 DEF CsrVerifies, Csr
      <3> QED
        BY <3>1, <3>2, <3>3 DEF Enrollment!CsrVerifies
    <2>6. CertDataList' = [CertDataList EXCEPT
                              ![Call][Round[Call]] = Enrollment!LearnIDevID(@, csr)]
      <3>1. CardOf(idevid)' = Holder(pub)
        BY <2>1 DEF CardOf
      <3>2. idevid' # <<>>
        BY <2>1
      <3>3. CertData \in Enrollment!CardData /\ CertData' \in Enrollment!CardData
        <4>1. CertData \in Enrollment!CardData
          BY CertDataType DEF ChallengeInv
        <4>2. CardOf(iak)' = CardOf(iak) /\ CardOf(iak) \in Card \cup {NoCard}
          BY <1>1, ChallengeAssumption DEF CardOf
        <4>3. id' \in CardId \cup {NoCard}
          BY <1>1 DEF ChallengeInv, TypeOK
        <4> QED
          BY <2>3, <3>1, <4>1, <4>2, <4>3 DEF CertData, Enrollment!CardData, CardId, Enrollment!CardId
      <3>4. /\ CertData'.id = CertData.id /\ CertData'.iak = CertData.iak
            /\ CertData'.idevid = csr.idevid /\ CertData'.atomic = TRUE
        BY <1>1, <3>1, <3>2 DEF CertData, CardOf
      <3>5. CertData' = Enrollment!LearnIDevID(CertData, csr)
        BY <3>3, <3>4, LearnedData
      <3> QED
        BY <3>5, Zenon DEF CertDataList, Round
    <2>7. Round' = [Round EXCEPT ![Call] = Enrollment!NextIdx(Call)]
      BY <1>1, MappedSelection DEF Round
    <2>8. Enrollment!Goto(Call, IF Enrollment!Last(Call) THEN "oidevid" ELSE "verify")
      <3>1. Enrollment!Goto(Call, "oidevid")
        BY <2>1, GotoMaps
      <3> QED
        BY <1>1, <3>1, MappedSelection, Zenon
    <2>9. Enrollment!Here(Call) \in Card
      BY <1>1, <1>2, MappedSelection
    <2> QED
      BY <1>1, <2>4, <2>5, <2>6, <2>7, <2>8, <2>9, RequestKept, EkKept, AnswersKept,
         DeviceKept, Zenon
      DEF Enrollment!GetCsr
  <1>3. CASE Fail("ErrVerifyIdentity") /\ UNCHANGED idevid
    <2>1. CertDataList' = CertDataList
      BY <1>1, <1>3, DataKept
    <2>2. Enrollment!Fail(Call)
      BY <1>3, FailMaps DEF Enrollment!Fail
    <2> QED
      BY <1>1, <2>1, <2>2, RequestKept, EkKept, AnswersKept, DeviceKept, Zenon
      DEF Enrollment!GetCsr
  <1> QED
    BY <1>2, <1>3 DEF GetCsr

LEMMA SwitchoverMaps ==
    ASSUME Switchover
    PROVE  Enrollment!Switchover
  <1>1. /\ Round' = Round
        /\ UNCHANGED <<stage, result, sel, id, rec, iak, idevid, imported>>
    BY DEF Switchover, Round
  <1>2. CertDataList' = CertDataList
    BY <1>1, DataKept
  <1> QED
    BY <1>1, <1>2 DEF Switchover, Role, Request, Enrollment!Switchover, Enrollment!Role,
                      Enrollment!sessionVars

\* Every step is one of HmacEnrollment, or none.
LEMMA ChallengeStepMaps ==
    ASSUME ChallengeInv, [Next]_vars
    PROVE  [Enrollment!Next]_Enrollment!hmacVars
  <1>1. CASE Start
    BY <1>1, StartMaps
  <1>2. CASE GetVendorID
    BY <1>2, GetVendorIDMaps DEF Enrollment!Next, Enrollment!SessionStep, Enrollment!Prompt
  <1>3. CASE FetchEK
    BY <1>3, FetchEKMaps DEF Enrollment!Next, Enrollment!SessionStep, Enrollment!Prompt
  <1>4. CASE Challenge
    BY <1>4, ChallengeMaps DEF Enrollment!Next, Enrollment!SessionStep
  <1>5. CASE GetCsr
    BY <1>5, GetCsrMaps DEF Enrollment!Next, Enrollment!SessionStep, Enrollment!Prompt
  <1>6. CASE Switchover
    <2>1. UNCHANGED <<rec, imported>>
      BY <1>6 DEF Switchover
    <2> QED
      BY <1>6, <2>1, SwitchoverMaps, EkKept, AnswersKept
      DEF Enrollment!Next, Enrollment!Device
  <1>7. CASE UNCHANGED vars
    <2>1. CertDataList' = CertDataList /\ Round' = Round
      BY <1>7, DataKept DEF vars, Round
    <2> QED
      BY <1>7, <2>1 DEF vars, Request, Enrollment!hmacVars, Enrollment!ownerVars
  <1> QED
    BY <1>1, <1>2, <1>3, <1>4, <1>5, <1>6, <1>7 DEF Next

\* What HmacEnrollment takes for granted of answer and CSR follows from the checks.
THEOREM ChallengeVerifiesForEnrollment == Spec => VerifiesForEnrollment
  <1>1. ChallengeInv /\ [Next]_vars => [Enrollment!Next]_Enrollment!hmacVars
    BY ChallengeStepMaps
  <1> QED
    BY <1>1, ChallengeInitMaps, ChallengeAlways, PTL
    DEF Spec, VerifiesForEnrollment, Enrollment!Spec
=============================================================================
