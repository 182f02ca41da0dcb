---------------------------- MODULE HmacEnrollment ----------------------------
(***************************************************************************)
(* EnrollSwitchWithHMACChallenge (service/biz/enrollz_biz.go): enrollment  *)
(* of TPM 2.0 cards without vendor certificates.  For each selection four  *)
(* calls tie the identity of the card, its EK, its IAK and its IDevID key  *)
(* together; each of the three device calls resolves the selection anew,   *)
(* so a switchover may put another card behind it.  OwnerCerts then issues *)
(* and rotates for all cards, always atomically.                           *)
(*                                                                         *)
(* The HMAC key of a challenge is fresh, so it is named by the session and *)
(* the selection it was generated for.  The active card relays the calls   *)
(* to the standby card; a relay that takes the call to the other card, or  *)
(* answers with what a TPM said to an earlier challenge (one that timed    *)
(* out, say) or with the CSR of another card, is part of the model.  What  *)
(* a verified answer and a verified CSR establish about the keys is shown  *)
(* by HmacChallenge, which implements this module for one selection.       *)
(***************************************************************************)
EXTENDS OwnerCerts

CONSTANTS RotDB,        \* the RoT database: EK (its card) by serial number
          GoodIak,      \* cards whose IAK has the required attributes
          GoodIDevID    \* cards whose IDevID key fits the key template

ASSUME HmacAssumption ==
    /\ GoodIak \subseteq Card
    /\ GoodIDevID \subseteq Card
    /\ RotDB \in [CardId -> Card \cup {NoCard}]
    /\ \A c \in Card : RotDB[c] \in {c, NoCard}
    /\ \A r \in Requests : r.kind = "hmac" /\ ~r.skip

VARIABLES ek,           \* fetchEKResp of the selection at hand
          answers       \* every answer a TPM gave to a challenge

hmacVars == <<ownerVars, ek, answers>>

HmacKey == Session \X Position
Answer  == [hmac : HmacKey, iak : Card]

\* Types, with the EK fetched for a selection and the answers of the TPMs.
TypeOK ==
    /\ OwnerTypeOK
    /\ ek \in [Session -> Card \cup {NoCard}]
    /\ answers \subseteq Answer

Init ==
    /\ OwnerInit
    /\ ek = [s \in Session |-> NoCard]
    /\ answers = {}

\* The card behind the session's selection at the moment of a call.
Here(s) == Resolve(req[s].sels[idx[s]])

Fail(s) == Return(s, "ErrVerifyIdentity")

\* GetControlCardVendorID: the answer may lack the identity, or the identity
\* its serial number.
GetVendorID(s) ==
    /\ pc[s] = "verify"
    /\ \/ /\ Here(s) \in Card
          /\ \E id \in {Here(s), NoSerial, NoCard} :
                data' = [data EXCEPT ![s][idx[s]].id = id]
          /\ Goto(s, "fetchEK")
       \/ Fail(s) /\ UNCHANGED data
    /\ UNCHANGED <<req, idx, updates, issued, deviceVars, ek, answers>>

\* GetControlCardSerial, which is empty for a nil identity too.
Serial(id) == IF id = NoCard THEN NoSerial ELSE id

\* fetchEK: no record and an empty response are errors too.
FetchEK(s) ==
    LET key == RotDB[Serial(data[s][idx[s]].id)] IN
    /\ pc[s] = "fetchEK"
    /\ \/ /\ key # NoCard
          /\ ek' = [ek EXCEPT ![s] = key]
          /\ Goto(s, "challenge")
       \/ Fail(s) /\ UNCHANGED ek
    /\ UNCHANGED <<req, idx, data, updates, issued, deviceVars, answers>>

\* Only the TPM that holds the EK can import the HMAC key and certify its IAK
\* with it; the call reaches one of the seated cards.
FreshAnswers(s) ==
    {[hmac |-> <<s, idx[s]>>, iak |-> c] : c \in {seat[r] : r \in Role} \cap {ek[s]}}

\* Mutant: the certify info is not checked against the session's own key.
AnswerVerifiesAnyKey(s, a) == a.iak \in GoodIak

\* VerifyHMAC with the session's own key, then verifyIAKKey.
AnswerVerifies(s, a) == a.hmac = <<s, idx[s]>> /\ a.iak \in GoodIak

\* createHMACChallenge, a Challenge call that returns in time and the
\* verification of its answer.
Challenge(s) ==
    /\ pc[s] = "challenge"
    /\ answers' \in {answers, answers \cup FreshAnswers(s)}
    /\ \/ \E a \in answers' :
             /\ AnswerVerifies(s, a)
             /\ data' = [data EXCEPT ![s][idx[s]].iak = a.iak]
             /\ Goto(s, "csr")
       \/ Fail(s) /\ UNCHANGED data
    /\ UNCHANGED <<req, idx, updates, issued, deviceVars, ek>>

\* Mutant: the call is made without a timeout of its own.
ChallengeUntimed(s) == FALSE

\* The context of the Challenge call expires; the TPM may still produce an
\* answer, which nobody waits for.
ChallengeTimeout(s) ==
    /\ pc[s] = "challenge"
    /\ answers' \in {answers, answers \cup FreshAnswers(s)}
    /\ Fail(s)
    /\ UNCHANGED <<req, idx, data, updates, issued, deviceVars, ek>>

\* The keys of a CSR are of one TPM; the serial in it, never empty, is only
\* signed by the IDevID key, and the answer names a card, or none, besides.
CsrResponses ==
    {[cardId |-> id, prodSerial |-> serial, idevid |-> c, certifiedBy |-> c] :
        id \in CardId \cup {NoCard}, serial \in Card, c \in Card}

\* Mutant: the certification of the IDevID key by the IAK is not verified.
CsrVerifiesUncertified(s, csr) ==
    /\ csr.idevid \in GoodIDevID
    /\ csr.cardId # NoCard
    /\ csr.prodSerial = csr.cardId

\* Mutant: the attributes of the IDevID key are not verified.
CsrVerifiesAnyKey(s, csr) ==
    /\ csr.certifiedBy = data[s][idx[s]].iak
    /\ csr.cardId # NoCard
    /\ csr.prodSerial = csr.cardId

\* verifyIdevidKeyAndCsr: the IDevID key is certified by the verified IAK, has
\* the attributes of the template, and the CSR's serial is that of its answer.
CsrVerifies(s, csr) ==
    /\ csr.certifiedBy = data[s][idx[s]].iak
    /\ csr.idevid \in GoodIDevID
    /\ csr.cardId # NoCard
    /\ csr.prodSerial = csr.cardId

\* Mutant: the rotation is not asked to be atomic.
LearnIDevIDStepwise(d, csr) == [d EXCEPT !.idevid = csr.idevid]
\* Mutant: the IDevID key is not passed on.
LearnIDevIDLost(d, csr) == [d EXCEPT !.atomic = TRUE]

\* What issueAndRotateOwnerCerts is given for the card; rotation is atomic.
LearnIDevID(d, csr) == [d EXCEPT !.idevid = csr.idevid, !.atomic = TRUE]

\* GetIdevidCsr, its verification and the conversion of the keys to PEM, which
\* ends the round of the loop.
GetCsr(s) ==
    /\ pc[s] = "csr"
    /\ \/ \E csr \in CsrResponses :
             /\ Here(s) \in Card
             /\ CsrVerifies(s, csr)
             /\ \/ /\ data' = [data EXCEPT ![s][idx[s]] = LearnIDevID(@, csr)]
                   /\ idx' = [idx EXCEPT ![s] = NextIdx(s)]
                   /\ Goto(s, IF Last(s) THEN "oidevid" ELSE "verify")
                \/ Return(s, "ErrKeyConversion") /\ UNCHANGED <<data, idx>>
       \/ Fail(s) /\ UNCHANGED <<data, idx>>
    /\ UNCHANGED <<req, updates, issued, deviceVars, ek, answers>>

\* The steps that are taken in the end: every call is taken to return, except
\* that a TPM may never answer a challenge; the timeout is what ends that one.
Prompt(s) ==
    \/ GetVendorID(s) \/ FetchEK(s) \/ ChallengeTimeout(s) \/ GetCsr(s)
    \/ IssueAndRotate(s) /\ UNCHANGED <<ek, answers>>

SessionStep(s) == Prompt(s) \/ Challenge(s)

Next ==
    \/ \E s \in Session : \E r \in Requests :
          Start(s, r) /\ UNCHANGED <<ek, answers>>
    \/ \E s \in Session : SessionStep(s)
    \/ Device /\ UNCHANGED <<ek, answers>>

Spec     == Init /\ [][Next]_hmacVars
FairSpec == Spec /\ \A s \in Session : WF_hmacVars(Prompt(s))

-----------------------------------------------------------------------------

\* A certificate names the card whose TPM holds its key: the identity, the EK
\* it is looked up by, the IAK the EK vouches for and the IDevID key the IAK
\* vouches for are of one card, although every call resolved the selection
\* anew and cards changed places in between.  An identity without a serial
\* number gets as far as the CA: its key is then of the TPM that the RoT
\* database has under the empty serial number, and of no other.
CertNamesTheTpm ==
    \A cert \in issued :
        \/ cert.id \in Card /\ cert.key = cert.id
        \/ cert.id = NoSerial /\ cert.key = RotDB[NoSerial]

\* An oIAK is issued only to a TPM that answered the challenge of the same
\* session and selection; an answer to another challenge never counts.
IssuedToChallengedTpm ==
    \A cert \in issued : cert.type = "oiak" =>
        \E a \in answers :
            a.hmac = <<cert.session, cert.pos>> /\ a.iak = cert.key

\* Nothing is issued before every selection of the session is verified down
\* to its IDevID key.
IssuedAfterAllVerified ==
    \A cert \in issued : \A i \in Positions(cert.session) :
        LET d == data[cert.session][i] IN
        d.iak \in GoodIak /\ d.idevid \in GoodIDevID

\* All the selected cards are updated, or none of them is.
AllCardsOrNone ==
    \A s \in Session : Accepted(s) = {} \/ Accepted(s) = Positions(s)

\* A session that succeeds has put an oIAK and an oIDevID on every selected
\* card, and has spent no other certificate.
SuccessEnrollsFully ==
    \A s \in Session : result[s] = "ok" =>
        /\ Cardinality(IssuedBy(s)) = 2 * Len(req[s].sels)
        /\ \A cert \in IssuedBy(s) : <<s, cert.pos, cert.key>> \in accepted

\* Two roles, two cards: no switchover makes one card pass for both.
SuccessEnrollsBothRoles ==
    \A s \in Session :
        result[s] = "ok" /\ Role \subseteq {req[s].sels[i] : i \in Positions(s)}
        => Cardinality(EnrolledBy(s)) = 2

\* A session that has been called returns, if its other calls do: a TPM that
\* never answers the challenge does not hold it up, because the call has a
\* timeout of its own (context.WithTimeout in verifyIdentityWithHMACChallenge).
Termination == \A s \in Session : pc[s] # "new" ~> pc[s] = "done"
=============================================================================
