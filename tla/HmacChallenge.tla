---------------------------- MODULE HmacChallenge -----------------------------
(***************************************************************************)
(* verifyIdentityWithHMACChallenge (service/biz/enrollz_biz.go) for one    *)
(* selection, with the checks of Tpm20 in the place of what HmacEnrollment *)
(* takes for granted: the HMAC key is wrapped to the key on record, and    *)
(* IAK, IDevID key and CSR are accepted by their attributes, their certify *)
(* infos and their signatures.                                             *)
(*                                                                         *)
(* The TPMs keep their rules: only the one with the private key imports    *)
(* what is wrapped to it, it certifies only what is loaded in it, and a    *)
(* restricted key signs nothing that claims to be made by a TPM and is     *)
(* not.  The software of the switch is under no rule: it may answer with   *)
(* any public area and with anything that some key has signed for it.      *)
(***************************************************************************)
EXTENDS Tpm20, FiniteSets

CONSTANTS Call,         \* the call of the service this is a part of
          Card, NoCard,
          NoSerial,     \* an identity without a serial number
          Publics,      \* public areas an answer may show
          Loaded,       \* those that are loaded in the TPM they name
          Iak, IDevID,  \* those an answer of a sound card shows
          EKs,          \* EK and PPK of the TPMs
          RotDB,        \* the records there may be for a serial number
          Seatings,     \* the cards in the two roles
          FitCards,     \* cards with keys of the templates of the TCG
          FitEKs,       \* and EKs of the RSA 2048 template
          NoCert, NoRequest

Role   == {"active", "standby"}
CardId == Card \cup {NoSerial}

\* The card whose TPM holds the private key; NoCard if software does.
Holder(pub) == pub.unique[1]

ASSUME ChallengeAssumption ==
    /\ NoCard \notin Card \cup Role
    /\ NoSerial \notin Card \cup Role \cup {NoCard}
    /\ Card \cap Role = {}
    /\ Loaded \subseteq Publics
    /\ \A pub \in Publics : Holder(pub) \in Card \cup {NoCard}
    /\ \A pub \in Loaded : Holder(pub) \in Card
    /\ \A c \in Card : Iak[c] \in Loaded /\ IDevID[c] \in Loaded

\* A slot holds one card, and the active one is never empty.
ASSUME SeatingAssumption ==
    /\ Seatings \subseteq [Role -> Card \cup {NoCard}]
    /\ \A s \in Seatings : s["active"] \in Card /\ s["standby"] # s["active"]

\* A key that a TPM has made and never gives away has one public area in it.
ASSUME OriginAssumption ==
    \A p, q \in Loaded :
        /\ p.unique = q.unique
        /\ {"fixedTPM", "sensitiveDataOrigin"} \subseteq p.attrs
        => p = q

\* The RoT database has the EK or PPK of the TPM under the serial number of its
\* card; what it has under the empty serial number are keys of one TPM.
ASSUME RecordAssumption ==
    /\ \A c \in Card : \A r \in RotDB[c] : r.unique[1] = c
    /\ \A r \in RotDB[NoSerial] : r.unique[1] \in Card
    /\ \A q, r \in RotDB[NoSerial] : q.unique[1] = r.unique[1]

\* What is called fit is so by the templates, not by the checks of Tpm20: EKs of
\* 2048 bits with an exponent that an RSA key may have, IAKs and IDevID keys as
\* in the TCG's documents.
ASSUME FitAssumption ==
    /\ FitEKs \subseteq EKs
    /\ \A k \in FitEKs : /\ k.bits = 2048
                         /\ k.e \in 3..MaxExponent /\ k.e % 2 = 1
    /\ FitCards \subseteq Card
    /\ \A c \in FitCards :
          /\ Iak[c].attrs \ {"noDA"} = IakAttributes
          /\ Iak[c].nameAlg \in {"SHA256", "SHA384"}
          /\ \/ Iak[c].type = "RSA" /\ Iak[c].scheme \in {"RSASSA", "RSAPSS"}
             \/ Iak[c].type = "ECC" /\ Iak[c].scheme = "ECDSA"
          /\ IDevID[c].attrs \ {"noDA"} = IDevIDAttributes
          /\ IDevID[c].type = "ECC" /\ IDevID[c].nameAlg = "SHA384"
          /\ IDevID[c].curve = "P384" /\ IDevID[c].scheme = "ECDSA"

VARIABLES
    stage,      \* the next call of the workflow
    result,     \* what it returned
    sel,        \* the selection
    seat,       \* the card in each role
    id,         \* controlCardVendorID
    rec,        \* fetchEKResp: <<>> or a record
    iak, idevid, \* the keys that were accepted: <<>> or a public area
    imported,   \* cards whose TPM has imported the HMAC key
    sound       \* history: all calls came through, to the one card, and the
                \* answers were those of its TPM

vars == <<stage, result, sel, seat, id, rec, iak, idevid, imported, sound>>

Maybe(S) == {<<>>} \cup {<<x>> : x \in S}

\* Types; the call has a result exactly when it is over.
TypeOK ==
    /\ stage \in {"new", "verify", "fetchEK", "challenge", "csr", "oidevid", "done"}
    /\ result \in {"none", "ErrVerifyIdentity", "ErrKeyConversion"}
    /\ stage = "done" <=> result # "none"
    /\ sel \in Role \cup Card
    /\ seat \in [Role -> Card \cup {NoCard}]
    /\ id \in CardId \cup {NoCard}
    /\ rec \in Maybe(UNION {RotDB[c] : c \in CardId})
    /\ iak \in Maybe(Publics) /\ idevid \in Maybe(Publics)
    /\ imported \subseteq Card
    /\ sound \in BOOLEAN

Init ==
    /\ stage = "new" /\ result = "none"
    /\ sel \in Role \cup Card
    /\ seat \in Seatings
    /\ id = NoCard /\ rec = <<>> /\ iak = <<>> /\ idevid = <<>>
    /\ imported = {} /\ sound = TRUE

Here == IF sel \in Role THEN seat[sel]
        ELSE IF \E r \in Role : seat[r] = sel THEN sel ELSE NoCard

Goto(s) == stage' = s /\ UNCHANGED result

\* Mutant: An error is logged and the call goes on.
FailAndGoOn(err) == result' = err /\ UNCHANGED stage
Fail(err) == stage' = "done" /\ result' = err

-----------------------------------------------------------------------------
(* What TPMs and software can make.                                        *)

Certify(pub) == [magic |-> "TPM", type |-> "certify", name |-> ObjectName(pub),
                 qualifiedAsName |-> FALSE]

\* Attestations that differ from a certify info in one field at most.
Attests ==
    UNION {{Certify(pub), [Certify(pub) EXCEPT !.magic = "other"],
            [Certify(pub) EXCEPT !.type = "quote"],
            [Certify(pub) EXCEPT !.qualifiedAsName = TRUE]} : pub \in Publics}

\* A TPM also loads a key from outside, if it claims no origin or restriction.
External == {pub \in Publics : /\ Holder(pub) = NoCard
                               /\ pub.attrs \cap {"fixedTPM", "fixedParent", "restricted"} = {}}

Generated(c) ==
    {a \in Attests : /\ a.magic = "TPM" /\ ~a.qualifiedAsName
                     /\ a.name \in {p \in Loaded : Holder(p) = c} \cup External}

\* A restricted key signs outside data, unless it begins like the TPM's own.
SignedRestricted(c) == Generated(c) \cup {a \in Attests : a.magic = "other"}

Keys == Loaded \cup {pub \in Publics : Holder(pub) = NoCard}

SignedBy(pub) ==
    IF pub \in Loaded /\ "restricted" \in pub.attrs
    THEN SignedRestricted(Holder(pub))
    ELSE Attests

Signature(pub, data) ==
    [alg |-> pub.scheme, hash |-> pub.nameAlg, key |-> pub.unique, data |-> data]

\* The HMAC key of this challenge, and the one of a challenge that timed out.
Fresh == <<NoCard, "hmac">>
Stale == <<NoCard, "stale">>

Hmac(key, data) == [alg |-> "HMAC", hash |-> "SHA256", key |-> key, data |-> data]

-----------------------------------------------------------------------------
(* The identity and the record.                                            *)

Start ==
    /\ stage = "new"
    /\ Goto("verify")
    /\ UNCHANGED <<sel, seat, id, rec, iak, idevid, imported, sound>>

\* GetControlCardVendorID: the answer may lack the identity, or the identity
\* its serial number.
GetVendorID ==
    /\ stage = "verify"
    /\ \/ /\ Here \in Card
          /\ id' \in {Here, NoSerial, NoCard}
          /\ sound' = (id' = Here)
          /\ Goto("fetchEK")
       \/ Fail("ErrVerifyIdentity") /\ sound' = FALSE /\ UNCHANGED id
    /\ UNCHANGED <<sel, seat, rec, iak, idevid, imported>>

\* GetControlCardSerial, which is empty for a nil identity too.
Serial(cardId) == IF cardId = NoCard THEN NoSerial ELSE cardId

FetchEK ==
    /\ stage = "fetchEK"
    /\ \/ /\ \E r \in RotDB[Serial(id)] : rec' = <<r>>
          /\ Goto("challenge")
          /\ UNCHANGED sound
       \/ Fail("ErrVerifyIdentity") /\ sound' = FALSE /\ UNCHANGED rec
    /\ UNCHANGED <<sel, seat, id, iak, idevid, imported>>

-----------------------------------------------------------------------------
(* The challenge.                                                          *)

CreateHMACChallenge(r) ==
    WrapHMACKeytoRSAPublicKey(r, GenerateRestrictedHMACKey(Fresh))

\* Mutant: The challenge always names the EK.
KeyTypeOfEK(r) == "EK"

\* ChallengeRequest.Key tells the card which of its keys the wrapping is to.
KeyType(r) == r.kind

\* TPM2_Import with the key the request names.
Imports(c, blob, kind) ==
    \E k \in EKs :
        /\ k.unique = blob.parent.unique /\ k.kind = kind /\ k.unique[1] = c
        /\ k.e = (IF blob.parent.exponent = 0 THEN 65537 ELSE blob.parent.exponent)
        /\ blob.name = ObjectName(GenerateRestrictedHMACKey(Fresh))

Importing(r) ==
    {c \in Card : /\ \E role \in Role : seat[role] = c
                  /\ \E i \in DOMAIN CreateHMACChallenge(r) :
                        Imports(c, CreateHMACChallenge(r)[i], KeyType(r))}

\* HMACs the switch may come up with.
Hmacs(S) == {Hmac(Fresh, a) : a \in UNION {SignedRestricted(c) : c \in S}}
            \cup {Hmac(Stale, a) : a \in UNION {Generated(c) : c \in Card}}

\* Answers: a key, a certify info and an HMAC over that or another one.
Answers(S) ==
    {[iakPub |-> pub, info |-> info, sig |-> sig] :
        pub \in Publics, sig \in Hmacs(S), info \in {Certify(p) : p \in Publics}}
    \cup {[iakPub |-> pub, info |-> sig.data, sig |-> sig] :
        pub \in Publics, sig \in Hmacs(S)}

SoundAnswer(c) ==
    [iakPub |-> Iak[c], info |-> Certify(Iak[c]), sig |-> Hmac(Fresh, Certify(Iak[c]))]

\* VerifyHMAC with the key of this challenge, then verifyIAKKey.
AnswerVerifies(a) ==
    /\ VerifyHMAC(a.info, a.sig, Fresh)
    /\ VerifyIAKAttributes(a.iakPub)
    /\ VerifyCertifyInfo(a.info, a.iakPub)

\* createHMACChallenge, Challenge and the verification of the answer.  A sound
\* answer may be refused, or fail to come as the TPM cannot import; all other
\* failures are covered by one that can always happen.
Challenge ==
    /\ stage = "challenge"
    /\ imported' \in {imported, imported \cup Importing(rec[1])}
    /\ \/ /\ Here \in Card
          /\ \E a \in Answers(imported') :
                /\ AnswerVerifies(a)
                /\ iak' = <<a.iakPub>>
                /\ sound' = (sound /\ Here = id /\ a = SoundAnswer(Here))
          /\ Goto("csr")
       \/ /\ sound /\ Here = id
          /\ id \in Importing(rec[1]) => ~AnswerVerifies(SoundAnswer(id))
          /\ Fail("ErrVerifyIdentity") /\ UNCHANGED <<iak, sound>>
       \/ Fail("ErrVerifyIdentity") /\ sound' = FALSE /\ UNCHANGED iak
    /\ UNCHANGED <<sel, seat, id, rec, idevid>>

-----------------------------------------------------------------------------
(* The CSR.                                                                *)

KeyTemplate == "ECC_NIST_P384"

\* The IDevID key of a CSR and what an IAK says of it.
Certified(pub, info, sig) ==
    [idevidPub |-> pub, signCertifyInfo |-> info, signCertifyInfoSignature |-> sig]

\* A CSR with that and a serial number, signed by a key.
Csr(serial, certified, key) ==
    LET contents == [prodSerial |-> serial, key |-> certified]
    IN [contents |-> contents, signature |-> Signature(key, contents)]

\* Any signed attestation of any card, now or earlier, for any key, and any
\* certify info beside a signature over another.
AnyCertified ==
    LET sigs == UNION {{Signature(k, a) : a \in SignedBy(k)} : k \in Keys}
    IN {Certified(pub, Certify(pub), sig) : pub \in Publics, sig \in sigs}
       \cup {Certified(pub, sig.data, sig) : pub \in Publics, sig \in sigs}

SoundCsr(c) ==
    Csr(c, Certified(IDevID[c], Certify(IDevID[c]), Signature(Iak[c], Certify(IDevID[c]))),
        IDevID[c])

\* verifyIdevidKeyAndCsr: first the key, then the CSR it is in.
IDevIDKeyVerifies(c, iakPub) ==
    /\ VerifyTPMTSignature(c.signCertifyInfo, c.signCertifyInfoSignature, iakPub)
    /\ VerifyCertifyInfo(c.signCertifyInfo, c.idevidPub)
    /\ VerifyIdevidAttributes(c.idevidPub, KeyTemplate)

CsrVerifies(csr, cardId, iakPub) ==
    LET c == csr.contents IN
    /\ cardId # NoCard
    /\ IDevIDKeyVerifies(c.key, iakPub)
    /\ VerifyTPMTSignature(c, csr.signature, c.key.idevidPub)
    /\ c.prodSerial = cardId

\* GetIdevidCsr, its verification, and the conversion of both keys to PEM, which
\* no key that passed the checks fails.
Accept(pub) ==
    IF TPMTPublicToPEM(iak[1]) = <<>> \/ TPMTPublicToPEM(pub) = <<>>
    THEN Fail("ErrKeyConversion") /\ UNCHANGED idevid
    ELSE Goto("oidevid") /\ idevid' = <<pub>>

GetCsr ==
    /\ stage = "csr"
    /\ \/ /\ Here \in Card
          /\ \E certified \in {c \in AnyCertified : IDevIDKeyVerifies(c, iak[1])},
                serial \in Card, cardId \in CardId \cup {NoCard} :
                \E key \in {Iak[c] : c \in Card} \cup {certified.idevidPub} :
                   /\ CsrVerifies(Csr(serial, certified, key), cardId, iak[1])
                   /\ Accept(certified.idevidPub)
                   /\ sound' = (/\ sound /\ Here = id /\ cardId = id
                                /\ Csr(serial, certified, key) = SoundCsr(id))
       \/ /\ sound /\ Here = id
          /\ ~CsrVerifies(SoundCsr(id), id, iak[1])
          /\ Fail("ErrVerifyIdentity") /\ UNCHANGED <<idevid, sound>>
       \/ Fail("ErrVerifyIdentity") /\ sound' = FALSE /\ UNCHANGED idevid
    /\ UNCHANGED <<sel, seat, id, rec, iak, imported>>

\* The cards change roles.
Switchover ==
    /\ seat["standby"] # NoCard
    /\ seat' = [r \in Role |-> IF r = "active" THEN seat["standby"]
                                               ELSE seat["active"]]
    /\ UNCHANGED <<stage, result, sel, id, rec, iak, idevid, imported, sound>>

Next == Start \/ GetVendorID \/ FetchEK \/ Challenge \/ GetCsr \/ Switchover

Spec == Init /\ [][Next]_vars

-----------------------------------------------------------------------------
(* Properties.                                                             *)

\* The keys that are accepted are loaded in the TPM of the EK on record, with
\* the attributes they were shown with: neither a key of another TPM, nor one
\* that software holds, nor a public area with other attributes than the key
\* passes, whatever the software of the switch answers.
AcceptedKeysResident ==
    /\ \A i \in DOMAIN iak : iak[i] \in Loaded /\ Holder(iak[i]) = rec[1].unique[1]
    /\ \A i \in DOMAIN idevid :
          idevid[i] \in Loaded /\ Holder(idevid[i]) = rec[1].unique[1]

\* A card with keys of the required templates is not refused while its calls
\* come through and the record is that of its TPM, EK or PPK, with the default
\* exponent or another.
SoundCardsPass ==
    stage = "done" /\ sound => rec[1] \notin FitEKs \/ id \notin FitCards

\* What HmacEnrollment takes for granted of the answer and the CSR follows
\* from the checks: each step here is one of its steps, a key standing for the
\* card it is loaded in.
CardOf(key) == IF key # <<>> /\ key[1] \in Loaded THEN Holder(key[1]) ELSE NoCard

RecordOf(S) == IF S = {} THEN NoCard ELSE (CHOOSE r \in S : TRUE).unique[1]

Fits(Verifies(_)) == {c \in Card : \E pub \in Loaded : Holder(pub) = c /\ Verifies(pub)}

FitsTemplate(pub) == VerifyIdevidAttributes(pub, KeyTemplate)

NoPair == [oiak |-> NoCert, oidevid |-> NoCert]
NoData == [id |-> NoCard, iak |-> NoCard, idevid |-> NoCard, atomic |-> FALSE]
CertData == [id |-> id, iak |-> CardOf(iak), idevid |-> CardOf(idevid),
             atomic |-> idevid # <<>>]

\* certDataList, and the selection at hand, which is the only one.
CertDataList == [s \in {Call} |-> [i \in 1..2 |-> IF i = 1 THEN CertData ELSE NoData]]
Round        == [s \in {Call} |-> 1]

Request(selection) ==
    [kind |-> "hmac", sels |-> <<selection>>, profile |-> TRUE, skip |-> FALSE]

Enrollment ==
    INSTANCE HmacEnrollment WITH
        Session    <- {Call},
        Requests   <- {Request(selection) : selection \in Role \cup Card},
        RotDB      <- [c \in CardId |-> RecordOf(RotDB[c])],
        GoodIak    <- Fits(VerifyIAKAttributes),
        GoodIDevID <- Fits(FitsTemplate),
        pc         <- [s \in {Call} |-> stage],
        result     <- [s \in {Call} |-> result],
        req        <- [s \in {Call} |-> IF stage = "new" THEN NoRequest ELSE Request(sel)],
        idx        <- Round,
        data       <- CertDataList,
        updates    <- [s \in {Call} |-> [i \in 1..2 |-> NoPair]],
        issued     <- {},
        installed  <- [c \in Card |-> NoPair],
        accepted   <- {},
        ek         <- [s \in {Call} |-> IF rec = <<>> THEN NoCard ELSE rec[1].unique[1]],
        answers    <- {[hmac |-> <<Call, 1>>, iak |-> c] : c \in imported}

ASSUME InstanceAssumption ==
    NoCert \notin Enrollment!Cert /\ NoRequest \notin Enrollment!Request

VerifiesForEnrollment == Enrollment!Spec
=============================================================================
