------------------------------ MODULE HmacProofs ------------------------------
(***************************************************************************)
(* EnrollSwitchWithHMACChallenge, for any number of sessions and cards and *)
(* any RoT records that are right or missing: the types, that a            *)
(* certificate names the card whose TPM answered the session's own         *)
(* challenge, that nothing is issued before every selection is verified,   *)
(* and what a session that succeeds has done.                              *)
(*                                                                         *)
(* The inductive invariant says where a session stands in the four calls   *)
(* for a selection: no TPM has answered a challenge that was not sent      *)
(* (Unasked), what the calls made so far have established (Round, Behind), *)
(* and that it is established for all selections from the issuing loop on  *)
(* (Past); Signed says what that makes of the certificates.                *)
(***************************************************************************)
EXTENDS HmacEnrollment, OwnerCertsProofs

\* The TPM of card c has answered the challenge for selection i.
Answered(s, i, c) == [hmac |-> <<s, i>>, iak |-> c] \in answers

\* The IAK of a selection has been verified: its TPM holds the EK on record for
\* the serial number, be it empty.  A card that tells no identity at all may get
\* as far; issuing then refuses it.
IakVerified(s, i) ==
    LET d == data[s][i] IN
    /\ d.iak \in GoodIak
    /\ RotDB[Serial(d.id)] = d.iak
    /\ Answered(s, i, d.iak)

\* All four calls for a selection have been made, and verified.
KeysVerified(s, i) ==
    LET d == data[s][i] IN
    /\ IakVerified(s, i)
    /\ d.idevid = d.iak /\ d.idevid \in GoodIDevID
    /\ d.atomic

\* The challenges for these selections are yet to be sent, so that no TPM has
\* the key to answer them with.
Unasked(s) ==
    \A a \in answers, i \in Position :
        \/ pc[s] \in {"new", "verify", "fetchEK", "challenge"} /\ i >= idx[s]
        \/ pc[s] = "csr" /\ i > idx[s]
        => a.hmac # <<s, i>>

\* The selection at hand.
Round(s) ==
    /\ pc[s] = "challenge" => /\ ek[s] = RotDB[Serial(data[s][idx[s]].id)]
                              /\ ek[s] \in Card
    /\ pc[s] = "csr" => IakVerified(s, idx[s])

\* The selections before it.
Behind(s) ==
    pc[s] \in {"verify", "fetchEK", "challenge", "csr"} =>
        /\ req[s] \in Requests
        /\ \A i \in Positions(s) : i < idx[s] => KeysVerified(s, i)

\* The session has come to issueAndRotateOwnerCerts.
Issuing(s) ==
    \/ pc[s] \in AfterAgree
    \/ result[s] \in {"ok", "ErrEmptyField", "ErrFailedToIssueOwnerCert",
                      "ErrRotateOIakCert"}

\* All selections.
Past(s) ==
    Issuing(s) =>
        /\ req[s] \in Requests
        /\ Count(s) \in Position
        /\ \A i \in Positions(s) : KeysVerified(s, i)

Standing(s) == Unasked(s) /\ Round(s) /\ Behind(s) /\ Past(s)

\* The key of a certificate is of the TPM on record for its serial number, and
\* an oIAK is for an IAK that answered its challenge.
Signed ==
    \A cert \in issued :
        /\ RotDB[cert.id] = cert.key
        /\ cert.type = "oiak" => Answered(cert.session, cert.pos, cert.key)

HmacTypes ==
    /\ ek \in [Session -> Card \cup {NoCard}]
    /\ answers \subseteq Answer

HmacInv == OwnerInv /\ HmacTypes /\ Signed /\ \A s \in Session : Standing(s)

-----------------------------------------------------------------------------

\* Nothing is asked, answered or issued before the first call.
LEMMA HmacInitInv == Init => HmacInv /\ DeliveryInv
  <1> SUFFICES ASSUME Init PROVE HmacInv /\ DeliveryInv
    OBVIOUS
  <1>1. OwnerInv /\ DeliveryInv
    BY OwnerInitInv, DeliveryInitInv DEF Init
  <1>2. HmacTypes /\ Signed
    BY DEF Init, OwnerInit, HmacTypes, Signed
  <1>3. ASSUME NEW s \in Session PROVE Standing(s)
    <2>1. pc[s] = "new" /\ result[s] = "none" /\ answers = {}
      BY DEF Init, OwnerInit
    <2> QED BY <2>1 DEF Standing, Unasked, Round, Behind, Past, Issuing,
               AfterAgree, AtCa
  <1> QED BY <1>1, <1>2, <1>3 DEF HmacInv

\* What is verified stays so while its entry of certDataList is left alone.
LEMMA VerifiedKept ==
    ASSUME NEW s, NEW i, data'[s][i] = data[s][i], answers \subseteq answers'
    PROVE  /\ IakVerified(s, i) => IakVerified(s, i)'
           /\ KeysVerified(s, i) => KeysVerified(s, i)'
  BY DEF KeysVerified, IakVerified, Answered

\* A step of another session, or of the switch.
LEMMA StandingSame ==
    ASSUME NEW t \in Session, Standing(t),
           pc'[t] = pc[t], result'[t] = result[t], req'[t] = req[t],
           idx'[t] = idx[t], data'[t] = data[t], ek'[t] = ek[t],
           answers \subseteq answers',
           \A a \in answers', i \in Position : a.hmac = <<t, i>> => a \in answers
    PROVE  Standing(t)'
  <1>1. Positions(t)' = Positions(t) /\ Count(t)' = Count(t)
    BY DEF Positions, Count
  <1>2. \A i : /\ IakVerified(t, i) => IakVerified(t, i)'
               /\ KeysVerified(t, i) => KeysVerified(t, i)'
    BY VerifiedKept
  <1>3. Unasked(t)'
    BY DEF Standing, Unasked
  <1>4. Round(t)' /\ Behind(t)' /\ Past(t)'
    BY <1>1, <1>2 DEF Standing, Round, Behind, Past, Issuing
  <1> QED BY <1>3, <1>4 DEF Standing

\* A session that has returned before it issued anything.
LEMMA FailedStanding ==
    ASSUME NEW s \in Session, pc'[s] = "done",
           result'[s] \in {"ErrInvalidRequest", "ErrVerifyIdentity", "ErrKeyConversion"}
    PROVE  Standing(s)'
  BY DEF Standing, Unasked, Round, Behind, Past, Issuing, AfterAgree, AtCa

Verifying == {"verify", "fetchEK", "challenge", "csr"}

\* Any of the four calls of session s, once it is known where s then stands.
LEMMA CallStep ==
    ASSUME HmacInv, DeliveryInv, NEW s \in Session, pc[s] \in Verifying,
           UNCHANGED <<req, updates, issued, seat, installed, accepted>>,
           pc' \in [Session -> Stage], result' \in [Session -> Result],
           idx' \in [Session -> Position],
           data' \in [Session -> [Position -> CardData]],
           HmacTypes', answers \subseteq answers',
           \A a \in answers' : a \in answers \/ a.hmac = <<s, idx[s]>>,
           \A t \in Session \ {s} :
               /\ pc'[t] = pc[t] /\ result'[t] = result[t] /\ idx'[t] = idx[t]
               /\ data'[t] = data[t] /\ ek'[t] = ek[t],
           pc'[s] \in Verifying \cup {"oidevid", "done"},
           pc'[s] # "done" => idx'[s] <= Count(s),
           pc'[s] = "oidevid" => idx'[s] = 1,
           result'[s] \in {"none", "ErrVerifyIdentity", "ErrKeyConversion"},
           pc'[s] = "done" <=> result'[s] # "none",
           Standing(s)'
    PROVE  HmacInv' /\ DeliveryInv'
  <1> USE DEF HmacInv
  <1>1. OwnerTypeOK'
    BY DEF OwnerInv, OwnerTypeOK
  <1>2. IndexOK'
    <2>1. pc[s] \notin {"new", "done"} /\ pc'[s] \notin {"new", "agree"}
      BY DEF Verifying
    <2> QED BY <2>1, IndexKept
  <1>3. OiakComplete'
    BY DEF OwnerInv, OiakComplete, Complete, Verifying
  <1>4. Signed'
    BY DEF Signed, Answered
  <1>5. \A t \in Session \ {s} : Standing(t)'
    BY StandingSame
  <1>6. DeliveryInv'
    BY EarlyDelivery DEF Verifying, AfterAgree, AtCa
  <1> QED BY <1>1, <1>2, <1>3, <1>4, <1>5, <1>6 DEF OwnerInv

-----------------------------------------------------------------------------
(* The four calls.                                                         *)

\* Writing one entry of certDataList.
LEMMA EntryWritten ==
    ASSUME OwnerInv, NEW s \in Session, NEW i \in Position, NEW d \in CardData,
           data' = [data EXCEPT ![s][i] = d]
    PROVE  /\ data' \in [Session -> [Position -> CardData]]
           /\ data'[s][i] = d
           /\ \A t \in Session, j \in Position :
                 t # s \/ j # i => data'[t][j] = data[t][j]
           /\ \A t \in Session \ {s} : data'[t] = data[t]
  BY EntryType DEF OwnerInv, OwnerTypeOK

\* GetControlCardVendorID.
LEMMA GetVendorIDInv ==
    ASSUME HmacInv, DeliveryInv, NEW s \in Session, GetVendorID(s)
    PROVE  HmacInv' /\ DeliveryInv'
  <1> USE DEF HmacInv
  <1>1. /\ pc[s] = "verify" /\ result[s] = "none"
        /\ UNCHANGED <<req, idx, updates, issued, seat, installed, accepted, ek, answers>>
        /\ \/ /\ \E id \in CardId \cup {NoCard} :
                    data' = [data EXCEPT ![s][idx[s]].id = id]
              /\ pc' = [pc EXCEPT ![s] = "fetchEK"] /\ result' = result
           \/ /\ pc' = [pc EXCEPT ![s] = "done"] /\ data' = data
              /\ result' = [result EXCEPT ![s] = "ErrVerifyIdentity"]
    BY DEF GetVendorID, Goto, Fail, Return, DeliveryInv, Delivery, Reach, deviceVars, CardId
  <1>2. idx[s] \in Position /\ data[s][idx[s]] \in CardData /\ idx[s] <= Count(s)
    BY <1>1 DEF OwnerInv, OwnerTypeOK, IndexOK
  <1>3. /\ data' \in [Session -> [Position -> CardData]]
        /\ \A t \in Session, i \in Position :
              t # s \/ i # idx[s] => data'[t][i] = data[t][i]
    <2>1. CASE data' = data
      BY <2>1 DEF OwnerInv, OwnerTypeOK
    <2>2. CASE data' # data
      <3>1. PICK id \in CardId \cup {NoCard} :
                data' = [data EXCEPT ![s][idx[s]].id = id]
        BY <1>1, <2>2
      <3> DEFINE d == [data[s][idx[s]] EXCEPT !.id = id]
      <3>2. d \in CardData /\ data' = [data EXCEPT ![s][idx[s]] = d]
        BY <1>2, <3>1 DEF CardData
      <3> HIDE DEF d
      <3> QED BY <1>2, <3>2, EntryWritten
    <2> QED BY <2>1, <2>2
  <1>4. /\ pc' \in [Session -> Stage] /\ result' \in [Session -> Result]
        /\ pc'[s] \in {"fetchEK", "done"}
        /\ result'[s] \in {"none", "ErrVerifyIdentity"}
        /\ pc'[s] = "done" <=> result'[s] # "none"
        /\ \A t \in Session \ {s} : pc'[t] = pc[t] /\ result'[t] = result[t]
    BY <1>1 DEF OwnerInv, OwnerTypeOK, Stage, Result
  <1>5. \A t \in Session \ {s} : data'[t] = data[t]
    BY <1>1 DEF OwnerInv, OwnerTypeOK
  <1>6. Standing(s)'
    <2>1. CASE pc'[s] = "done"
      BY <1>4, <2>1, FailedStanding
    <2>2. CASE pc'[s] = "fetchEK"
      <3>1. Unasked(s)'
        BY <1>1, <2>2 DEF Standing, Unasked
      <3>2. Positions(s)' = Positions(s) /\ Positions(s) \subseteq 1..2
        BY <1>1, IdxInPositions DEF Positions, Count, Position
      <3>3. \A i \in Positions(s) : i < idx[s] => i \in Position /\ i # idx[s]
        BY <1>2, <3>2 DEF Position
      <3>4. Behind(s)'
        BY <1>1, <1>3, <2>2, <3>2, <3>3, VerifiedKept DEF Standing, Behind
      <3>5. Round(s)' /\ Past(s)'
        BY <1>4, <2>2 DEF Round, Past, Issuing, AfterAgree, AtCa
      <3> QED BY <3>1, <3>4, <3>5 DEF Standing
    <2> QED BY <1>4, <2>1, <2>2
  <1>7. HmacTypes'
    BY <1>1 DEF HmacTypes
  <1>8. idx' \in [Session -> Position]
    BY <1>1 DEF OwnerInv, OwnerTypeOK
  <1> QED BY <1>1, <1>2, <1>3, <1>4, <1>5, <1>6, <1>7, <1>8, CallStep DEF Verifying

\* fetchEK: the EK is the one of the serial number at hand.
LEMMA FetchEKInv ==
    ASSUME HmacInv, DeliveryInv, NEW s \in Session, FetchEK(s)
    PROVE  HmacInv' /\ DeliveryInv'
  <1> USE DEF HmacInv
  <1> DEFINE key == RotDB[Serial(data[s][idx[s]].id)]
  <1>1. /\ pc[s] = "fetchEK" /\ result[s] = "none"
        /\ UNCHANGED <<req, idx, data, updates, issued, seat, installed, accepted, answers>>
        /\ \/ /\ key # NoCard /\ ek' = [ek EXCEPT ![s] = key]
              /\ pc' = [pc EXCEPT ![s] = "challenge"] /\ result' = result
           \/ /\ pc' = [pc EXCEPT ![s] = "done"] /\ ek' = ek
              /\ result' = [result EXCEPT ![s] = "ErrVerifyIdentity"]
    BY DEF FetchEK, Goto, Fail, Return, DeliveryInv, Delivery, Reach, deviceVars
  <1>2. idx[s] \in Position /\ data[s][idx[s]] \in CardData /\ idx[s] <= Count(s)
    BY <1>1 DEF OwnerInv, OwnerTypeOK, IndexOK
  <1>3. key \in Card \cup {NoCard}
    <2>1. Serial(data[s][idx[s]].id) \in CardId
      BY <1>2 DEF CardData, CardId, Serial
    <2> QED BY <2>1, HmacAssumption
  <1> HIDE DEF key
  <1>4. /\ pc' \in [Session -> Stage] /\ result' \in [Session -> Result]
        /\ pc'[s] \in {"challenge", "done"}
        /\ result'[s] \in {"none", "ErrVerifyIdentity"}
        /\ pc'[s] = "done" <=> result'[s] # "none"
        /\ \A t \in Session \ {s} : pc'[t] = pc[t] /\ result'[t] = result[t]
    BY <1>1 DEF OwnerInv, OwnerTypeOK, Stage, Result
  <1>5. HmacTypes' /\ \A t \in Session \ {s} : ek'[t] = ek[t]
    BY <1>1, <1>3 DEF HmacTypes
  <1>6. Standing(s)'
    <2>1. CASE pc'[s] = "done"
      BY <1>4, <2>1, FailedStanding
    <2>2. CASE pc'[s] = "challenge"
      <3>1. Unasked(s)'
        BY <1>1, <2>2 DEF Standing, Unasked
      <3>2. Positions(s)' = Positions(s)
        BY <1>1 DEF Positions, Count
      <3>3. Behind(s)'
        BY <1>1, <2>2, <3>2, VerifiedKept DEF Standing, Behind
      <3>4. pc' # [pc EXCEPT ![s] = "done"]
        BY <2>2 DEF OwnerInv, OwnerTypeOK
      <3>5. ek'[s] = key /\ key \in Card
        BY <1>1, <1>3, <3>4 DEF HmacTypes
      <3>6. Round(s)' /\ Past(s)'
        BY <1>1, <1>4, <2>2, <3>5 DEF Round, Past, Issuing, AfterAgree, AtCa, key
      <3> QED BY <3>1, <3>3, <3>6 DEF Standing
    <2> QED BY <1>4, <2>1, <2>2
  <1>7. idx' \in [Session -> Position] /\ data' \in [Session -> [Position -> CardData]]
    BY <1>1 DEF OwnerInv, OwnerTypeOK
  <1> QED BY <1>1, <1>2, <1>4, <1>5, <1>6, <1>7, CallStep DEF Verifying
\* Challenge: the answer that verifies is of the TPM that holds the EK.
LEMMA ChallengeInv ==
    ASSUME HmacInv, DeliveryInv, NEW s \in Session, Challenge(s)
    PROVE  HmacInv' /\ DeliveryInv'
  <1> USE DEF HmacInv
  <1>1. /\ pc[s] = "challenge" /\ result[s] = "none"
        /\ UNCHANGED <<req, idx, updates, issued, seat, installed, accepted, ek>>
        /\ answers' \in {answers, answers \cup FreshAnswers(s)}
        /\ \/ /\ \E a \in answers' :
                    /\ AnswerVerifies(s, a)
                    /\ data' = [data EXCEPT ![s][idx[s]].iak = a.iak]
              /\ pc' = [pc EXCEPT ![s] = "csr"] /\ result' = result
           \/ /\ pc' = [pc EXCEPT ![s] = "done"] /\ data' = data
              /\ result' = [result EXCEPT ![s] = "ErrVerifyIdentity"]
    BY DEF Challenge, Goto, Fail, Return, DeliveryInv, Delivery, Reach, deviceVars
  <1>2. idx[s] \in Position /\ data[s][idx[s]] \in CardData /\ idx[s] <= Count(s)
    BY <1>1 DEF OwnerInv, OwnerTypeOK, IndexOK
  <1>3. ek[s] = RotDB[Serial(data[s][idx[s]].id)] /\ ek[s] \in Card
    BY <1>1 DEF Standing, Round
  <1>4. \A a \in FreshAnswers(s) :
            a = [hmac |-> <<s, idx[s]>>, iak |-> ek[s]]
    BY DEF FreshAnswers
  <1>5. /\ HmacTypes' /\ answers \subseteq answers'
        /\ \A a \in answers' :
              a \in answers \/ a = [hmac |-> <<s, idx[s]>>, iak |-> ek[s]]
    BY <1>1, <1>2, <1>3, <1>4 DEF HmacTypes, Answer, HmacKey
  <1>6. /\ pc' \in [Session -> Stage] /\ result' \in [Session -> Result]
        /\ pc'[s] \in {"csr", "done"}
        /\ result'[s] \in {"none", "ErrVerifyIdentity"}
        /\ pc'[s] = "done" <=> result'[s] # "none"
        /\ \A t \in Session \ {s} : pc'[t] = pc[t] /\ result'[t] = result[t]
    BY <1>1 DEF OwnerInv, OwnerTypeOK, Stage, Result
  <1>7. CASE pc'[s] = "done"
    <2>1. Standing(s)'
      BY <1>6, <1>7, FailedStanding
    <2>2. data' = data
      <3>1. pc' # [pc EXCEPT ![s] = "csr"]
        BY <1>7 DEF OwnerInv, OwnerTypeOK
      <3> QED BY <1>1, <3>1
    <2>3. /\ idx' \in [Session -> Position]
          /\ data' \in [Session -> [Position -> CardData]]
      BY <1>1, <2>2 DEF OwnerInv, OwnerTypeOK
    <2> QED BY <1>1, <1>5, <1>6, <1>7, <2>1, <2>2, <2>3, CallStep DEF Verifying
  <1>8. CASE pc'[s] = "csr"
    <2>1. PICK a \in answers' :
              /\ AnswerVerifies(s, a)
              /\ data' = [data EXCEPT ![s][idx[s]].iak = a.iak]
      <3>1. pc' # [pc EXCEPT ![s] = "done"]
        BY <1>8 DEF OwnerInv, OwnerTypeOK
      <3> QED BY <1>1, <3>1
    <2>2. a = [hmac |-> <<s, idx[s]>>, iak |-> ek[s]] /\ a.iak \in GoodIak
      <3>1. idx[s] >= idx[s]
        BY <1>2 DEF Position
      <3>2. a \notin answers
        BY <1>1, <1>2, <2>1, <3>1 DEF AnswerVerifies, Standing, Unasked
      <3> QED BY <1>5, <2>1, <3>2 DEF AnswerVerifies
    <2>3. a.iak = ek[s]
      BY <2>2
    <2> DEFINE d == [data[s][idx[s]] EXCEPT !.iak = a.iak]
    <2>4. /\ d \in CardData /\ data' = [data EXCEPT ![s][idx[s]] = d]
          /\ d.iak = ek[s] /\ d.id = data[s][idx[s]].id
      BY <1>2, <1>3, <2>1, <2>3 DEF CardData
    <2> HIDE DEF d
    <2>5. /\ data' \in [Session -> [Position -> CardData]]
          /\ data'[s][idx[s]] = d
          /\ \A t \in Session, j \in Position :
                t # s \/ j # idx[s] => data'[t][j] = data[t][j]
          /\ \A t \in Session \ {s} : data'[t] = data[t]
      <3>1. d \in CardData /\ idx[s] \in Position /\ OwnerInv
            /\ data' = [data EXCEPT ![s][idx[s]] = d]
        BY <1>2, <2>4
      <3> QED BY <3>1, EntryWritten
    <2>6. IakVerified(s, idx[s])'
      <3>1. RotDB[Serial(d.id)] = d.iak
        BY <1>3, <2>4
      <3> QED BY <1>1, <1>3, <2>2, <2>4, <2>5, <3>1 DEF IakVerified, Answered
    <2>7. Unasked(s)'
      <3> SUFFICES ASSUME NEW b \in answers', NEW i \in Position, i > idx[s]
                   PROVE  b.hmac # <<s, i>>
        BY <1>1, <1>8 DEF Unasked
      <3>1. i >= idx[s] /\ i # idx[s]
        BY <1>2 DEF Position
      <3>2. CASE b \in answers
        BY <1>1, <3>1, <3>2 DEF Standing, Unasked
      <3>3. CASE b \notin answers
        BY <1>5, <3>1, <3>3
      <3> QED BY <3>2, <3>3
    <2>8. Behind(s)'
      <3>1. Positions(s)' = Positions(s) /\ Positions(s) \subseteq 1..2
        BY <1>1, IdxInPositions DEF Positions, Count, Position
      <3>2. \A i \in Positions(s) : i < idx[s] => i \in Position /\ i # idx[s]
        BY <1>2, <3>1 DEF Position
      <3> QED BY <1>1, <1>5, <1>8, <2>5, <3>1, <3>2, VerifiedKept DEF Standing, Behind
    <2>9. Round(s)' /\ Past(s)'
      <3>1. IakVerified(s, idx[s])' => Round(s)'
        BY <1>1, <1>8 DEF Round, IakVerified
      <3>2. Past(s)'
        BY <1>6, <1>8 DEF Past, Issuing, AfterAgree, AtCa
      <3> QED BY <2>6, <3>1, <3>2
    <2>10. Standing(s)'
      BY <2>7, <2>8, <2>9 DEF Standing
    <2>11. idx' \in [Session -> Position]
      BY <1>1 DEF OwnerInv, OwnerTypeOK
    <2>12. /\ data' \in [Session -> [Position -> CardData]]
           /\ \A t \in Session \ {s} : data'[t] = data[t]
      BY <2>5
    <2> QED BY <1>1, <1>2, <1>5, <1>6, <1>8, <2>10, <2>11, <2>12, CallStep DEF Verifying
  <1> QED BY <1>6, <1>7, <1>8

\* The call times out, and the TPM may answer all the same.
LEMMA ChallengeTimeoutInv ==
    ASSUME HmacInv, DeliveryInv, NEW s \in Session, ChallengeTimeout(s)
    PROVE  HmacInv' /\ DeliveryInv'
  <1>1. Challenge(s)
    BY DEF ChallengeTimeout, Challenge
  <1> QED BY <1>1, ChallengeInv

\* GetIdevidCsr, which ends the round: the IDevID key is of the verified IAK.
LEMMA GetCsrInv ==
    ASSUME HmacInv, DeliveryInv, NEW s \in Session, GetCsr(s)
    PROVE  HmacInv' /\ DeliveryInv'
  <1> USE DEF HmacInv
  <1> DEFINE old == data[s][idx[s]]
  <1>1. /\ pc[s] = "csr" /\ result[s] = "none"
        /\ UNCHANGED <<req, updates, issued, seat, installed, accepted, ek, answers>>
        /\ \/ /\ \E csr \in CsrResponses :
                    /\ CsrVerifies(s, csr)
                    /\ data' = [data EXCEPT ![s][idx[s]] = LearnIDevID(old, csr)]
              /\ idx' = [idx EXCEPT ![s] = NextIdx(s)]
              /\ pc' = [pc EXCEPT ![s] = IF Last(s) THEN "oidevid" ELSE "verify"]
              /\ result' = result
           \/ /\ pc' = [pc EXCEPT ![s] = "done"] /\ data' = data /\ idx' = idx
              /\ \E r \in {"ErrVerifyIdentity", "ErrKeyConversion"} :
                    result' = [result EXCEPT ![s] = r]
    BY DEF GetCsr, Goto, Fail, Return, DeliveryInv, Delivery, Reach, deviceVars,
           OwnerInv, OwnerTypeOK
  <1>2. idx[s] \in Position /\ old \in CardData /\ idx[s] <= Count(s)
    BY <1>1 DEF OwnerInv, OwnerTypeOK, IndexOK
  <1>3. NextIdx(s) \in Position /\ NextIdx(s) <= Count(s)
    BY <1>1, NextIdxInRange
  <1> HIDE DEF old
  <1>4. CASE /\ pc' = [pc EXCEPT ![s] = "done"] /\ data' = data /\ idx' = idx
             /\ \E r \in {"ErrVerifyIdentity", "ErrKeyConversion"} :
                   result' = [result EXCEPT ![s] = r]
    <2>1. /\ pc' \in [Session -> Stage] /\ result' \in [Session -> Result]
          /\ pc'[s] = "done" /\ result'[s] \in {"ErrVerifyIdentity", "ErrKeyConversion"}
          /\ \A t \in Session \ {s} : pc'[t] = pc[t] /\ result'[t] = result[t]
      BY <1>4 DEF OwnerInv, OwnerTypeOK, Stage, Result
    <2>2. Standing(s)'
      BY <2>1, FailedStanding
    <2>3. /\ idx' \in [Session -> Position]
          /\ data' \in [Session -> [Position -> CardData]]
          /\ HmacTypes'
      BY <1>1, <1>4 DEF OwnerInv, OwnerTypeOK, HmacTypes
    <2> QED BY <1>1, <1>4, <2>1, <2>2, <2>3, CallStep DEF Verifying
  <1>5. CASE /\ \E csr \in CsrResponses :
                   /\ CsrVerifies(s, csr)
                   /\ data' = [data EXCEPT ![s][idx[s]] = LearnIDevID(old, csr)]
             /\ idx' = [idx EXCEPT ![s] = NextIdx(s)]
             /\ pc' = [pc EXCEPT ![s] = IF Last(s) THEN "oidevid" ELSE "verify"]
             /\ result' = result
    <2>1. PICK csr \in CsrResponses :
              /\ CsrVerifies(s, csr)
              /\ data' = [data EXCEPT ![s][idx[s]] = LearnIDevID(old, csr)]
      BY <1>5
    <2>2. csr.idevid = old.iak /\ csr.idevid \in GoodIDevID /\ csr.idevid \in Card
      BY <2>1 DEF CsrResponses, CsrVerifies, old
    <2> DEFINE d == LearnIDevID(old, csr)
    <2>3. /\ d \in CardData /\ d.id = old.id /\ d.iak = old.iak
          /\ d.idevid = old.iak /\ d.atomic
      BY <1>2, <2>2 DEF LearnIDevID, CardData
    <2>4. data' = [data EXCEPT ![s][idx[s]] = d]
      BY <2>1
    <2> HIDE DEF d
    <2>5. /\ data' \in [Session -> [Position -> CardData]]
          /\ data'[s][idx[s]] = d
          /\ \A t \in Session, j \in Position :
                t # s \/ j # idx[s] => data'[t][j] = data[t][j]
          /\ \A t \in Session \ {s} : data'[t] = data[t]
      BY <1>2, <2>3, <2>4, EntryWritten
    <2>6. \A i : i = idx[s] => KeysVerified(s, i)'
      <3>1. IakVerified(s, idx[s])
        BY <1>1 DEF Standing, Round
      <3>2. /\ d.iak \in GoodIak /\ RotDB[Serial(d.id)] = d.iak
            /\ Answered(s, idx[s], d.iak)
        BY <2>3, <3>1 DEF IakVerified, old
      <3> QED BY <1>1, <2>2, <2>3, <2>5, <3>2 DEF KeysVerified, IakVerified, Answered
    <2>7. /\ Positions(s)' = Positions(s) /\ Positions(s) \subseteq Position
          /\ Positions(s) = 1..Count(s) /\ Count(s)' = Count(s) /\ Count(s) \in 1..2
      BY <1>1, IdxInPositions DEF Positions, Count, OwnerInv, IndexOK, Position
    <2>8. \A i \in Positions(s) : i <= idx[s] => KeysVerified(s, i)'
      <3> SUFFICES ASSUME NEW i \in Positions(s), i <= idx[s], i # idx[s]
                   PROVE  KeysVerified(s, i)'
        BY <2>6
      <3>1. i < idx[s] /\ i \in Position
        BY <1>2, <2>7 DEF Position
      <3>2. KeysVerified(s, i)
        BY <1>1, <3>1 DEF Standing, Behind
      <3> QED BY <1>1, <2>5, <3>1, <3>2, VerifiedKept
    <2>9. result'[s] = "none" /\ req[s] \in Requests
      BY <1>1, <1>5 DEF Standing, Behind
    <2>10. ASSUME Last(s) PROVE Standing(s)'
      <3>1. pc'[s] = "oidevid" /\ idx'[s] = 1
        BY <1>5, <2>10 DEF OwnerInv, OwnerTypeOK, NextIdx
      <3>2. \A i \in Positions(s) : i <= idx[s]
        BY <2>7, <2>10 DEF Last
      <3>3. Past(s)'
        BY <1>1, <2>7, <2>8, <2>9, <3>2 DEF Past, Position
      <3>4. Unasked(s)' /\ Round(s)' /\ Behind(s)'
        BY <3>1 DEF Unasked, Round, Behind
      <3> QED BY <3>3, <3>4 DEF Standing
    <2>11. ASSUME ~Last(s) PROVE Standing(s)'
      <3>1. pc'[s] = "verify" /\ idx'[s] = idx[s] + 1
        BY <1>5, <2>11 DEF OwnerInv, OwnerTypeOK, NextIdx
      <3>2. \A i \in Position : /\ i < idx'[s] => i <= idx[s]
                                /\ i >= idx'[s] => i > idx[s]
        BY <1>2, <3>1 DEF Position
      <3>3. Behind(s)'
        <4>1. \A i \in Positions(s) : i < idx'[s] => KeysVerified(s, i)'
          BY <2>7, <2>8, <3>2
        <4> QED BY <1>1, <2>7, <2>9, <4>1 DEF Behind
      <3>4. Unasked(s)'
        <4>1. \A a \in answers, i \in Position : i > idx[s] => a.hmac # <<s, i>>
          BY <1>1 DEF Standing, Unasked
        <4>2. \A a \in answers, i \in Position : i >= idx'[s] => a.hmac # <<s, i>>
          BY <3>2, <4>1
        <4> QED BY <1>1, <3>1, <4>2 DEF Unasked
      <3>5. Round(s)' /\ Past(s)'
        BY <2>9, <3>1 DEF Round, Past, Issuing, AfterAgree, AtCa
      <3> QED BY <3>3, <3>4, <3>5 DEF Standing
    <2>12. /\ pc' \in [Session -> Stage] /\ pc'[s] \in {"oidevid", "verify"}
           /\ idx' \in [Session -> Position] /\ idx'[s] <= Count(s)
           /\ pc'[s] = "oidevid" => idx'[s] = 1
           /\ \A t \in Session \ {s} : pc'[t] = pc[t] /\ idx'[t] = idx[t]
      BY <1>3, <1>5 DEF OwnerInv, OwnerTypeOK, Stage, NextIdx
    <2>13. /\ data' \in [Session -> [Position -> CardData]]
           /\ \A t \in Session \ {s} : data'[t] = data[t]
      BY <2>5
    <2>14. HmacTypes' /\ result' \in [Session -> Result]
      BY <1>1, <1>5 DEF HmacTypes, OwnerInv, OwnerTypeOK
    <2> QED BY <1>1, <1>5, <2>9, <2>10, <2>11, <2>12, <2>13, <2>14, CallStep
            DEF Verifying
  <1> QED BY <1>1, <1>4, <1>5

-----------------------------------------------------------------------------

\* A session that starts has asked for nothing.
LEMMA HmacStartInv ==
    ASSUME HmacInv, DeliveryInv, NEW s \in Session, NEW r \in Requests,
           Start(s, r), UNCHANGED <<ek, answers>>
    PROVE  HmacInv' /\ DeliveryInv'
  <1> USE DEF HmacInv
  <1>1. /\ pc[s] = "new" /\ result[s] = "none"
        /\ UNCHANGED <<idx, data, issued>>
        /\ req' = [req EXCEPT ![s] = r]
        /\ \/ pc' = [pc EXCEPT ![s] = "verify"] /\ result' = result
           \/ /\ pc' = [pc EXCEPT ![s] = "done"]
              /\ result' = [result EXCEPT ![s] = "ErrInvalidRequest"]
    BY DEF Start, Goto, Return, DeliveryInv, Delivery, Reach
  <1>2. OwnerInv' /\ DeliveryInv'
    BY StartInv, StartDelivery
  <1>3. HmacTypes' /\ Signed'
    BY <1>1 DEF HmacTypes, Signed, Answered
  <1>4. \A t \in Session \ {s} : Standing(t)'
    <2>1. \A t \in Session \ {s} :
            pc'[t] = pc[t] /\ result'[t] = result[t] /\ req'[t] = req[t]
      BY <1>1 DEF OwnerInv, OwnerTypeOK
    <2> QED BY <1>1, <2>1, StandingSame
  <1>5. Standing(s)'
    <2>1. CASE pc' = [pc EXCEPT ![s] = "verify"] /\ result' = result
      <3>1. pc'[s] = "verify" /\ result'[s] = "none" /\ req'[s] = r /\ idx'[s] = 1
        BY <1>1, <2>1 DEF OwnerInv, OwnerTypeOK, IndexOK
      <3>2. \A i \in Positions(s)' : ~(i < 1)
        BY DEF Positions
      <3>3. Unasked(s)'
        BY <1>1, <3>1 DEF Standing, Unasked
      <3> QED BY <3>1, <3>2, <3>3 DEF Standing, Round, Behind, Past, Issuing,
                 AfterAgree, AtCa
    <2>2. CASE /\ pc' = [pc EXCEPT ![s] = "done"]
               /\ result' = [result EXCEPT ![s] = "ErrInvalidRequest"]
      <3>1. pc'[s] = "done" /\ result'[s] = "ErrInvalidRequest"
        BY <2>2 DEF OwnerInv, OwnerTypeOK
      <3> QED BY <3>1, FailedStanding
    <2> QED BY <1>1, <2>1, <2>2
  <1> QED BY <1>2, <1>3, <1>4, <1>5

\* issueAndRotateOwnerCerts changes nothing it was given.
LEMMA PastStanding ==
    ASSUME HmacInv, DeliveryInv, NEW s \in Session, pc[s] \in AfterAgree,
           pc'[s] \in AfterAgree \cup {"done"},
           UNCHANGED <<req, data, ek, answers>>,
           \A t \in Session \ {s} :
               pc'[t] = pc[t] /\ result'[t] = result[t] /\ idx'[t] = idx[t]
    PROVE  \A t \in Session : Standing(t)'
  <1> USE DEF HmacInv
  <1>1. \A t \in Session \ {s} : Standing(t)'
    BY StandingSame
  <1>2. Positions(s)' = Positions(s) /\ Count(s)' = Count(s)
    BY DEF Positions, Count
  <1>3. Past(s)'
    BY <1>2, VerifiedKept DEF Standing, Past, Issuing
  <1>4. Standing(s)'
    BY <1>3 DEF Standing, Unasked, Round, Behind, AfterAgree, AtCa
  <1> QED BY <1>1, <1>4

\* The certificates asked for in session s are for the TPM on record.
LEMMA AskedFor ==
    ASSUME HmacInv, NEW s \in Session, pc[s] \in AtCa,
           Complete(data[s][idx[s]]),
           NEW type \in {"oiak", "oidevid"}, NEW key,
           key = IF type = "oiak" THEN data[s][idx[s]].iak ELSE data[s][idx[s]].idevid,
           NEW cert, cert = NewCert(s, type, data[s][idx[s]].id, key)
    PROVE  /\ RotDB[cert.id] = cert.key
           /\ cert.type = "oiak" => Answered(cert.session, cert.pos, cert.key)
  <1> USE DEF HmacInv
  <1>1. KeysVerified(s, idx[s])
    <2>1. idx[s] \in Positions(s)
      BY IdxInPositions DEF AtCa
    <2> QED BY <2>1 DEF Standing, Past, Issuing, AfterAgree
  <1>2. /\ cert.session = s /\ cert.pos = idx[s] /\ cert.type = type
        /\ cert.key = key /\ cert.id = data[s][idx[s]].id
    BY DEF NewCert
  <1> QED BY <1>1, <1>2 DEF KeysVerified, IakVerified, Complete, Serial

\* Every step of issueAndRotateOwnerCerts.
LEMMA HmacIssueAndRotateInv ==
    ASSUME HmacInv, DeliveryInv, NEW s \in Session,
           IssueAndRotate(s), UNCHANGED <<ek, answers>>
    PROVE  HmacInv' /\ DeliveryInv'
  <1> USE DEF HmacInv
  <1>1. OwnerInv' /\ DeliveryInv'
    BY IssueAndRotateInv, IssueAndRotateDelivery
  <1>2. HmacTypes'
    BY DEF HmacTypes
  <1>3. /\ pc[s] \in AfterAgree /\ UNCHANGED <<req, data>>
        /\ \/ pc' = pc
           \/ \E stage \in AfterAgree \cup {"done"} : pc' = [pc EXCEPT ![s] = stage]
        /\ \A t \in Session \ {s} : result'[t] = result[t] /\ idx'[t] = idx[t]
    BY DEF IssueAndRotate, IssueOIDevID, IssueOIak, RotateAll, RotateOne, RotateCall,
           CaFails, Goto, Return, AfterAgree, AtCa, OwnerInv, OwnerTypeOK
  <1>4. \A t \in Session : Standing(t)'
    <2>1. pc'[s] \in AfterAgree \cup {"done"} /\ \A t \in Session \ {s} : pc'[t] = pc[t]
      BY <1>3 DEF OwnerInv, OwnerTypeOK
    <2> QED BY <1>3, <2>1, PastStanding
  <1>5. Signed'
    <2>1. CASE issued' = issued
      BY <2>1 DEF Signed, Answered
    <2> DEFINE oiak == NewCert(s, "oiak", data[s][idx[s]].id, data[s][idx[s]].iak)
               oidevid == NewCert(s, "oidevid", data[s][idx[s]].id, data[s][idx[s]].idevid)
    <2>2. pc[s] = "oiak" => Complete(data[s][idx[s]])
      BY DEF OwnerInv, OiakComplete
    <2>3. \/ issued' = issued
          \/ /\ pc[s] \in AtCa /\ Complete(data[s][idx[s]])
             /\ issued' = issued \cup {oiak} \/ issued' = issued \cup {oidevid}
      BY <2>2 DEF IssueAndRotate, IssueOIDevID, IssueOIak, RotateAll, RotateOne,
                  CaFails, AtCa
    <2>4. ASSUME pc[s] \in AtCa, Complete(data[s][idx[s]]), NEW cert \in {oiak, oidevid}
          PROVE  /\ RotDB[cert.id] = cert.key
                 /\ cert.type = "oiak" => Answered(cert.session, cert.pos, cert.key)
      BY <2>4, AskedFor
    <2> HIDE DEF oiak, oidevid
    <2> QED BY <2>1, <2>3, <2>4 DEF Signed, Answered
  <1> QED BY <1>1, <1>2, <1>4, <1>5

\* A step in which no session and no certificate changes.
LEMMA HmacQuietInv ==
    ASSUME HmacInv, OwnerInv',
           UNCHANGED <<pc, result, req, idx, data, issued, ek, answers>>
    PROVE  HmacInv'
  <1>1. \A t \in Session : Standing(t)'
    BY StandingSame DEF HmacInv
  <1>2. HmacTypes' /\ Signed'
    BY DEF HmacInv, HmacTypes, Signed, Answered
  <1> QED BY <1>1, <1>2 DEF HmacInv

\* Every step of the workflow keeps the invariant.
LEMMA HmacNextInv == HmacInv /\ DeliveryInv /\ [Next]_hmacVars => HmacInv' /\ DeliveryInv'
  <1> SUFFICES ASSUME HmacInv, DeliveryInv, [Next]_hmacVars
               PROVE  HmacInv' /\ DeliveryInv'
    OBVIOUS
  <1>1. ASSUME NEW s \in Session, NEW r \in Requests,
               Start(s, r) /\ UNCHANGED <<ek, answers>>
        PROVE  HmacInv' /\ DeliveryInv'
    BY <1>1, HmacStartInv
  <1>2. ASSUME NEW s \in Session, SessionStep(s)
        PROVE  HmacInv' /\ DeliveryInv'
    BY <1>2, GetVendorIDInv, FetchEKInv, ChallengeInv, ChallengeTimeoutInv,
       GetCsrInv, HmacIssueAndRotateInv DEF SessionStep, Prompt
  <1>3. CASE Device /\ UNCHANGED <<ek, answers>>
    <2>1. OwnerInv' /\ DeliveryInv'
      BY <1>3, DeviceInv, DeviceDelivery DEF HmacInv
    <2>2. UNCHANGED <<pc, result, req, idx, data, issued>>
      BY <1>3 DEF Device, Switchover, HotSwap, sessionVars
    <2> QED BY <1>3, <2>1, <2>2, HmacQuietInv
  <1>4. CASE UNCHANGED hmacVars
    <2>1. UNCHANGED <<pc, result, req, idx, data, updates, issued, seat, installed,
                      accepted, ek, answers>>
      BY <1>4 DEF hmacVars, ownerVars
    <2>2. OwnerTypeOK' /\ IndexOK' /\ OiakComplete'
      BY <2>1 DEF HmacInv, OwnerInv, OwnerTypeOK, IndexOK, OiakComplete, Count
    <2>3. DeliveryInv'
      BY <2>1, QuietDelivery DEF DeliveryInv, TwoSeats
    <2> QED BY <2>1, <2>2, <2>3, HmacQuietInv DEF OwnerInv
  <1> QED BY <1>1, <1>2, <1>3, <1>4 DEF Next

-----------------------------------------------------------------------------
(* What follows for a session that has come to issue or to update.         *)

\* Every session with a certificate or an accepted update has verified all its
\* selections, and rotates atomically.
LEMMA IssuingIsPast ==
    ASSUME HmacInv, DeliveryInv, NEW s \in Session,
           IssuedBy(s) # {} \/ Accepted(s) # {} \/ result[s] = "ok"
    PROVE  /\ req[s] \in Requests /\ Count(s) \in 1..2 /\ Positions(s) = 1..Count(s)
           /\ \A i \in Positions(s) : KeysVerified(s, i)
           /\ data[s][1].atomic
  <1>1. Issuing(s)
    BY DEF DeliveryInv, Delivery, Reach, Issuing, AfterAgree
  <1>2. /\ req[s] \in Requests /\ Count(s) \in 1..2
        /\ \A i \in Positions(s) : KeysVerified(s, i)
    BY <1>1 DEF HmacInv, Standing, Past, Position
  <1>3. 1 \in Positions(s)
    BY <1>2 DEF Positions
  <1> QED BY <1>2, <1>3 DEF KeysVerified, Positions

\* A session that succeeds has one oIAK and one oIDevID for each selection, and
\* no other certificate.
LEMMA TwoForEach ==
    ASSUME HmacInv, DeliveryInv, NEW s \in Session, result[s] = "ok"
    PROVE  /\ \A i \in Positions(s) : \A type \in {"oiak", "oidevid"} :
                 /\ At(s, i, type) \in IssuedBy(s)
                 /\ At(s, i, type).pos = i /\ At(s, i, type).type = type
           /\ IssuedBy(s) = {At(s, i, type) : i \in Positions(s), type \in {"oiak", "oidevid"}}
  <1>1. req[s] \in Requests /\ \A i \in Positions(s) : KeysVerified(s, i)
    BY IssuingIsPast
  <1>2. \A i \in Positions(s) : \A type \in {"oiak", "oidevid"} : Wanted(s, i, type)
    <2>1. ~req[s].skip
      BY <1>1, HmacAssumption
    <2>2. \A i \in Positions(s) : data[s][i].idevid \in Card
      BY <1>1, HmacAssumption DEF KeysVerified
    <2>3. NoCard \notin Card
      BY CardAssumption
    <2> QED BY <2>1, <2>2, <2>3 DEF Wanted
  <1>3. \A i, type : ~Ahead(s, i, type)
    BY DEF DeliveryInv, Delivery, Reach, Ahead
  <1>4. \A i \in Positions(s) : \A type \in {"oiak", "oidevid"} :
            /\ At(s, i, type) \in IssuedBy(s)
            /\ At(s, i, type).pos = i /\ At(s, i, type).type = type
    BY <1>2, <1>3 DEF DeliveryInv, Delivery, Paid
  <1>5. \A cert \in IssuedBy(s) :
            /\ cert.pos \in Positions(s) /\ At(s, cert.pos, cert.type) = cert
            /\ cert.type \in {"oiak", "oidevid"}
    BY DEF DeliveryInv, Delivery, Spent, IssuedBy, HmacInv, OwnerInv, OwnerTypeOK, Cert
  <1> QED BY <1>4, <1>5

\* Four different things are four.
LEMMA FourCardinality ==
    ASSUME NEW a, NEW b, NEW c, NEW d, a # b, c # d, {a, b} \cap {c, d} = {}
    PROVE  Cardinality({a, b, c, d}) = 4
  <1>1. /\ IsFiniteSet({a, b}) /\ Cardinality({a, b}) = 2
        /\ IsFiniteSet({c, d}) /\ Cardinality({c, d}) = 2
    BY PairCardinality
  <1>2. {a, b, c} = {a, b} \cup {c} /\ c \notin {a, b}
    OBVIOUS
  <1>3. IsFiniteSet({a, b, c}) /\ Cardinality({a, b, c}) = 3
    BY <1>1, <1>2, FS_AddElement
  <1>4. {a, b, c, d} = {a, b, c} \cup {d} /\ d \notin {a, b, c}
    OBVIOUS
  <1> QED BY <1>3, <1>4, FS_AddElement

-----------------------------------------------------------------------------
(* Theorems.                                                               *)

\* The invariant holds in every state of the workflow.
THEOREM HmacAlways == Spec => [](HmacInv /\ DeliveryInv)
  BY HmacInitInv, HmacNextInv, PTL DEF Spec

\* Type correctness of EnrollSwitchWithHMACChallenge; an answer always names the
\* card whose TPM gave it.
THEOREM HmacTypeCorrect == Spec => []TypeOK
  <1>1. HmacInv => TypeOK
    BY DEF HmacInv, HmacTypes, OwnerInv, TypeOK
  <1> QED BY <1>1, HmacAlways, PTL

\* The identity in a certificate is that of the card whose TPM holds its key,
\* although each of the calls for a selection resolved it anew; without a serial
\* number the key is of the TPM on record under the empty one.
THEOREM HmacNamesTheTpm == Spec => []CertNamesTheTpm
  <1>1. HmacInv => CertNamesTheTpm
    <2> SUFFICES ASSUME HmacInv, NEW cert \in issued
                 PROVE  \/ cert.id \in Card /\ cert.key = cert.id
                        \/ cert.id = NoSerial /\ cert.key = RotDB[NoSerial]
      BY DEF CertNamesTheTpm
    <2>1. cert.id \in CardId /\ cert.key \in Card /\ RotDB[cert.id] = cert.key
      BY DEF HmacInv, OwnerInv, OwnerTypeOK, Cert, Signed
    <2>2. \A c \in Card : c # NoCard /\ RotDB[c] \in {c, NoCard}
      BY HmacAssumption, CardAssumption
    <2> QED BY <2>1, <2>2 DEF CardId
  <1> QED BY <1>1, HmacAlways, PTL

\* An oIAK is only issued for an IAK that answered the challenge of the same
\* session and selection, whatever other answers there are.
THEOREM HmacIssuesToChallenged == Spec => []IssuedToChallengedTpm
  <1>1. HmacInv => IssuedToChallengedTpm
    BY DEF HmacInv, Signed, Answered, IssuedToChallengedTpm
  <1> QED BY <1>1, HmacAlways, PTL

\* No certificate is issued for a session before the keys of all its selections
\* are verified (the loop of EnrollSwitchWithHMACChallenge ends before
\* issueAndRotateOwnerCerts).
THEOREM HmacIssuesAfterVerifying == Spec => []IssuedAfterAllVerified
  <1>1. HmacInv /\ DeliveryInv => IssuedAfterAllVerified
    <2> SUFFICES ASSUME HmacInv, DeliveryInv, NEW cert \in issued,
                        NEW i \in Positions(cert.session)
                 PROVE  /\ data[cert.session][i].iak \in GoodIak
                        /\ data[cert.session][i].idevid \in GoodIDevID
      BY DEF IssuedAfterAllVerified
    <2>1. cert.session \in Session
      BY DEF HmacInv, OwnerInv, OwnerTypeOK, Cert
    <2>2. IssuedBy(cert.session) # {}
      BY DEF IssuedBy
    <2> QED BY <2>1, <2>2, IssuingIsPast DEF KeysVerified, IakVerified
  <1> QED BY <1>1, HmacAlways, PTL

\* All selected cards are updated or none of them, even when the reply is lost.
THEOREM HmacAllOrNone == Spec => []AllCardsOrNone
  <1>1. HmacInv /\ DeliveryInv => AllCardsOrNone
    BY IssuingIsPast DEF AllCardsOrNone, DeliveryInv, Delivery, Taken
  <1> QED BY <1>1, HmacAlways, PTL

\* Success means an oIAK and an oIDevID for every selection, taken by the card
\* of their keys, and no certificate besides.
THEOREM HmacEnrollsFully == Spec => []SuccessEnrollsFully
  <1>1. HmacInv /\ DeliveryInv => SuccessEnrollsFully
    <2> SUFFICES ASSUME HmacInv, DeliveryInv, NEW s \in Session, result[s] = "ok"
                 PROVE  /\ Cardinality(IssuedBy(s)) = 2 * Len(req[s].sels)
                        /\ \A cert \in IssuedBy(s) : <<s, cert.pos, cert.key>> \in accepted
      BY DEF SuccessEnrollsFully
    <2>1. \A cert \in IssuedBy(s) : <<s, cert.pos, cert.key>> \in accepted
      BY SpentIsAccepted DEF HmacInv
    <2>2. Count(s) \in 1..2 /\ Positions(s) = 1..Count(s)
      BY IssuingIsPast
    <2>3. /\ \A i \in Positions(s) : \A type \in {"oiak", "oidevid"} :
                At(s, i, type).pos = i /\ At(s, i, type).type = type
          /\ IssuedBy(s) = {At(s, i, type) : i \in Positions(s), type \in {"oiak", "oidevid"}}
      BY TwoForEach
    <2>4. CASE Count(s) = 1
      <3>1. Positions(s) = {1}
        BY <2>2, <2>4
      <3> DEFINE a == At(s, 1, "oiak")  b == At(s, 1, "oidevid")
      <3>2. IssuedBy(s) = {a, b} /\ a # b
        BY <2>3, <3>1
      <3> HIDE DEF a, b
      <3>3. Cardinality({a, b}) = 2
        BY <3>2, PairCardinality
      <3>4. Cardinality(IssuedBy(s)) = 2
        BY <3>2, <3>3
      <3>5. Len(req[s].sels) = 1
        BY <2>4 DEF Count
      <3>6. 2 * Len(req[s].sels) = 2
        BY <3>5
      <3> QED BY <2>1, <3>4, <3>6
    <2>5. CASE Count(s) = 2
      <3>1. Positions(s) = {1, 2}
        BY <2>2, <2>5
      <3> DEFINE a == At(s, 1, "oiak")  b == At(s, 1, "oidevid")
                 c == At(s, 2, "oiak")  d == At(s, 2, "oidevid")
      <3>2. IssuedBy(s) = {a, b, c, d}
        BY <2>3, <3>1
      <3>3. /\ a.pos = 1 /\ a.type = "oiak" /\ b.pos = 1 /\ b.type = "oidevid"
            /\ c.pos = 2 /\ c.type = "oiak" /\ d.pos = 2 /\ d.type = "oidevid"
        BY <2>3, <3>1
      <3> HIDE DEF a, b, c, d
      <3>4. a # b /\ c # d /\ {a, b} \cap {c, d} = {}
        BY <3>3
      <3>5. Cardinality({a, b, c, d}) = 4
        BY <3>4, FourCardinality
      <3>6. Len(req[s].sels) = 2
        BY <2>5 DEF Count
      <3>7. 2 * Len(req[s].sels) = 4
        BY <3>6
      <3> QED BY <2>1, <3>2, <3>5, <3>7
    <2> QED BY <2>2, <2>4, <2>5
  <1> QED BY <1>1, HmacAlways, PTL

\* A session for both roles that succeeds has updated two cards.
THEOREM HmacEnrollsBothRoles == Spec => []SuccessEnrollsBothRoles
  <1>1. HmacInv /\ DeliveryInv => SuccessEnrollsBothRoles
    BY IssuingIsPast, TwoCardsEnrolled DEF AsksForBoth, SuccessEnrollsBothRoles
  <1> QED BY <1>1, HmacAlways, PTL

\* Every step of the workflow is one the owner was promised, or is not seen by
\* the owner.
LEMMA HmacNextPromise ==
    ASSUME HmacInv, DeliveryInv, [Next]_hmacVars
    PROVE  [Owner!Next]_Owner!vars
  <1> USE DEF HmacInv
  <1>1. ASSUME NEW s \in Session, NEW r \in Requests, Start(s, r)
        PROVE  [Owner!Next]_Owner!vars
    BY <1>1, StartPromise
  <1>2. ASSUME NEW s \in Session,
               \/ GetVendorID(s) \/ FetchEK(s) \/ GetCsr(s)
               \/ Challenge(s) \/ ChallengeTimeout(s)
        PROVE  [Owner!Next]_Owner!vars
    <2>1. /\ pc[s] \in Verifying /\ UNCHANGED <<issued, installed>>
          /\ \E stage \in Verifying \cup {"oidevid", "done"} :
                pc' = [pc EXCEPT ![s] = stage]
          /\ \A t \in Session \ {s} : data'[t] = data[t]
      BY <1>2 DEF GetVendorID, FetchEK, Challenge, ChallengeTimeout, GetCsr, Fail, Goto, Return,
                  deviceVars, Verifying, OwnerInv, OwnerTypeOK
    <2>2. /\ pc'[s] \in Verifying \cup {"oidevid", "done"}
          /\ \A t \in Session \ {s} : pc'[t] = pc[t]
      BY <2>1 DEF OwnerInv, OwnerTypeOK
    <2> QED BY <2>1, <2>2, EarlyPromise DEF AfterAgree, AtCa, Verifying
  <1>3. ASSUME NEW s \in Session, IssueAndRotate(s)
        PROVE  [Owner!Next]_Owner!vars
    BY <1>3, IssueAndRotatePromise
  <1>4. CASE Device
    BY <1>4, QuietPromise DEF Device, Switchover, HotSwap, sessionVars
  <1>5. CASE UNCHANGED hmacVars
    BY <1>5, QuietPromise DEF hmacVars, ownerVars
  <1> QED BY <1>1, <1>2, <1>3, <1>4, <1>5 DEF Next, SessionStep, Prompt

\* EnrollSwitchWithHMACChallenge implements the promise to the owner as well.
THEOREM HmacKeepsPromise == Spec => KeepsPromise
  <1>1. Init => Owner!Init
    BY PromiseInit DEF Init
  <1> QED BY <1>1, HmacAlways, HmacNextPromise, PTL DEF Spec, KeepsPromise, Owner!Spec
=============================================================================
