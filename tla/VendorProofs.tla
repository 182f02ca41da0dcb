----------------------------- MODULE VendorProofs -----------------------------
(***************************************************************************)
(* EnrollControlCard and RotateOwnerIakCert, for any number of sessions    *)
(* and cards and any set of requests: the types, that nothing is issued    *)
(* before every selection is verified, that the CA signs only verified     *)
(* keys, and that a card holds only certificates made for it.              *)
(*                                                                         *)
(* The inductive invariant says where a session stands: what its           *)
(* certDataList holds (Learnt), how far it has been filled (Admission),    *)
(* what the certificates already issued look like (Signed), and that       *)
(* controlCardCerts and the cards hold nothing else (Carried, Held).       *)
(***************************************************************************)
EXTENDS VendorEnrollment, OwnerCertsProofs

\* An entry of certDataList is empty, or all of it was verified for one card.
Learnt ==
    \A s \in Session, i \in Position :
        LET d == data[s][i] IN
        /\ d.iak # NoCard => d.iak = d.id /\ d.iak \in GoodIak
        /\ d.idevid # NoCard => d.idevid = d.id /\ d.idevid \in GoodIDevID

Verified(s) == \A i \in Positions(s) : data[s][i].id # NoCard

\* Before issueAndRotateOwnerCerts a session has no certificate; the loop has
\* verified the selections before its index; after the loop all of them are.
Admission ==
    \A s \in Session :
        /\ pc[s] \in {"new", "verify", "agree"} => IssuedBy(s) = {}
        /\ pc[s] = "verify" =>
              \A i \in Positions(s) : i < idx[s] => data[s][i].id # NoCard
        /\ pc[s] \in {"agree", "oidevid", "oiak", "rotate"} => Verified(s)
        /\ pc[s] \in {"oidevid", "oiak", "rotate"} => Agree(s)
        /\ IssuedBy(s) # {} => Verified(s) /\ Agree(s)

\* An oIDevID is only issued for a session that asked for it.
Signed ==
    /\ IssuedForVerifiedKeys
    /\ \A cert \in issued : cert.type = "oidevid" =>
          req[cert.session].profile /\ ~req[cert.session].skip

\* A pair of certificates out of a set, the oIDevID in its own place.
PairFrom(certs, pair) ==
    /\ pair.oiak # NoCert => pair.oiak \in certs
    /\ pair.oidevid # NoCert =>
          pair.oidevid \in certs /\ pair.oidevid.type = "oidevid"

Carried == \A s \in Session, i \in Position : PairFrom(issued, updates[s][i])

Held ==
    \A c \in Card :
        /\ PairFrom(issued, installed[c])
        /\ installed[c].oiak # NoCert => installed[c].oiak.id = c
        /\ installed[c].oidevid # NoCert => installed[c].oidevid.id = c

VendorInv == OwnerInv /\ Learnt /\ Admission /\ Signed /\ Carried /\ Held

\* The initial states satisfy the invariant: nothing is verified or issued.
LEMMA VendorInitInv == Init => VendorInv
  <1> SUFFICES ASSUME OwnerInit PROVE VendorInv
    BY DEF Init
  <1>1. OwnerInv
    BY OwnerInitInv
  <1>2. Learnt
    BY DEF OwnerInit, Learnt, NoData
  <1>3. Admission
    BY DEF OwnerInit, Admission, IssuedBy
  <1>4. Signed
    BY DEF OwnerInit, Signed, IssuedForVerifiedKeys
  <1>5. Carried /\ Held
    BY DEF OwnerInit, Carried, Held, PairFrom, NoPair
  <1> QED BY <1>1, <1>2, <1>3, <1>4, <1>5 DEF VendorInv

\* What a session has been found to be depends on its request and its
\* certDataList only.
LEMMA SameFindings ==
    ASSUME NEW t \in Session, req'[t] = req[t], data'[t] = data[t]
    PROVE  /\ Positions(t)' = Positions(t)
           /\ Verified(t)' = Verified(t)
           /\ Agree(t)' = Agree(t)
  BY DEF Positions, Count, Verified, Agree

\* A session that starts has verified nothing and asked for nothing.
LEMMA VendorStartInv ==
    ASSUME VendorInv, NEW s \in Session, NEW r \in Requests, Start(s, r)
    PROVE  VendorInv'
  <1>1. OwnerInv'
    BY StartInv DEF VendorInv
  <1>2. /\ UNCHANGED <<idx, data, updates, issued, installed>>
        /\ pc[s] = "new" /\ req' = [req EXCEPT ![s] = r]
        /\ \E stage \in {"verify", "done"} : pc' = [pc EXCEPT ![s] = stage]
    BY DEF Start, Goto, Return
  <1>3. Learnt'
    BY <1>2 DEF VendorInv, Learnt
  <1>4. IssuedBy(s) = {} /\ \A t \in Session : IssuedBy(t)' = IssuedBy(t)
    BY <1>2 DEF VendorInv, Admission, IssuedBy
  <1>5. Admission'
    <2> SUFFICES ASSUME NEW t \in Session
                 PROVE  /\ pc'[t] \in {"new", "verify", "agree"} =>
                              IssuedBy(t)' = {}
                        /\ pc'[t] = "verify" =>
                              \A i \in Positions(t)' :
                                  i < idx'[t] => data'[t][i].id # NoCard
                        /\ pc'[t] \in {"agree", "oidevid", "oiak", "rotate"}
                              => Verified(t)'
                        /\ pc'[t] \in {"oidevid", "oiak", "rotate"}
                              => Agree(t)'
                        /\ IssuedBy(t)' # {} => Verified(t)' /\ Agree(t)'
      BY DEF Admission
    <2>1. CASE t = s
      <3>1. pc'[s] \in {"verify", "done"} /\ idx'[s] = 1
        BY <1>2 DEF VendorInv, OwnerInv, OwnerTypeOK, IndexOK
      <3>2. \A i \in Positions(s)' : ~(i < 1)
        BY DEF Positions
      <3> QED BY <1>4, <2>1, <3>1, <3>2
    <2>2. CASE t # s
      <3>1. UNCHANGED <<pc[t], req[t], data[t], idx[t]>>
        BY <1>2, <2>2 DEF VendorInv, OwnerInv, OwnerTypeOK
      <3> QED BY <1>4, <3>1, SameFindings DEF VendorInv, Admission
    <2> QED BY <2>1, <2>2
  <1>6. Signed'
    <2>1. \A cert \in issued : cert.session # s
      BY <1>4 DEF IssuedBy
    <2>2. \A cert \in issued : cert.session \in Session
      BY DEF VendorInv, OwnerInv, OwnerTypeOK, Cert
    <2>3. \A cert \in issued : req'[cert.session] = req[cert.session]
      BY <1>2, <2>1, <2>2 DEF VendorInv, OwnerInv, OwnerTypeOK
    <2> QED BY <1>2, <2>3 DEF VendorInv, Signed, IssuedForVerifiedKeys
  <1>7. Carried' /\ Held'
    BY <1>2 DEF VendorInv, Carried, Held, PairFrom
  <1> QED BY <1>1, <1>3, <1>5, <1>6, <1>7 DEF VendorInv

\* One round of verifyIdentityWithVendorCerts, as far as one entry goes: the
\* entry written was verified for the card that answered.
LEMMA LearnedEntry ==
    ASSUME NEW r, NEW c \in Card, NEW resp \in GetIakCertResponses(c),
           CertsVerify(r, resp)
    PROVE  /\ Learned(r, resp) \in CardData
           /\ Learned(r, resp).id = c /\ c # NoCard
           /\ Learned(r, resp).iak = c /\ c \in GoodIak
           /\ Learned(r, resp).idevid # NoCard =>
                 Learned(r, resp).idevid = c /\ c \in GoodIDevID
  <1>1. c # NoCard
    BY CardAssumption
  <1>2. /\ resp \in CardData /\ resp.id = c /\ resp.iak = c
        /\ resp.idevid \in {c, NoCard}
    <2>1. PICK d \in {c, NoCard} :
              resp = [id |-> c, iak |-> c, idevid |-> d,
                      atomic |-> c \in AtomicCards]
      BY DEF GetIakCertResponses
    <2>2. (c \in AtomicCards) \in BOOLEAN
      OBVIOUS
    <2> QED BY <2>1, <2>2 DEF CardData, CardId
  <1>3. CASE VerifyIDevID(r)
    BY <1>1, <1>2, <1>3 DEF Learned, CertsVerify
  <1>4. CASE ~VerifyIDevID(r)
    <2>1. Learned(r, resp) = [resp EXCEPT !.idevid = NoCard]
      BY <1>4 DEF Learned
    <2>2. [resp EXCEPT !.idevid = NoCard] \in CardData
      BY <1>2 DEF CardData
    <2>3. /\ [resp EXCEPT !.idevid = NoCard].id = c
          /\ [resp EXCEPT !.idevid = NoCard].iak = c
          /\ [resp EXCEPT !.idevid = NoCard].idevid = NoCard
      BY <1>2 DEF CardData
    <2> QED BY <1>1, <1>2, <2>1, <2>2, <2>3 DEF CertsVerify
  <1> QED BY <1>3, <1>4

\* The outcomes of a round: an entry is added and the session goes on, or the
\* session returns with certDataList as it was.
LEMMA VerifyIdentityEffect ==
    ASSUME VendorInv, NEW s \in Session, VerifyIdentity(s)
    PROVE  /\ pc[s] = "verify"
           /\ UNCHANGED <<req, updates, issued, seat, installed, accepted>>
           /\ \/ /\ \E d \in CardData :
                       /\ d.id # NoCard /\ d.iak = d.id /\ d.iak \in GoodIak
                       /\ d.idevid # NoCard =>
                             d.idevid = d.id /\ d.idevid \in GoodIDevID
                       /\ data' = [data EXCEPT ![s][idx[s]] = d]
                 /\ idx' = [idx EXCEPT ![s] = NextIdx(s)]
                 /\ pc' = [pc EXCEPT ![s] = IF Last(s) THEN "agree"
                                                       ELSE "verify"]
                 /\ UNCHANGED result
              \/ /\ UNCHANGED <<data, idx>>
                 /\ pc' = [pc EXCEPT ![s] = "done"]
                 /\ result' = [result EXCEPT ![s] = "ErrVerifyIdentity"]
  <1> DEFINE c == Resolve(req[s].sels[idx[s]])
  <1>1. CASE \E resp \in GetIakCertResponses(c) :
                /\ c \in Card
                /\ CertsVerify(req[s], resp)
                /\ data' = [data EXCEPT ![s][idx[s]] = Learned(req[s], resp)]
                /\ idx' = [idx EXCEPT ![s] = NextIdx(s)]
                /\ Goto(s, IF Last(s) THEN "agree" ELSE "verify")
    <2> HIDE DEF c
    <2>1. PICK resp \in GetIakCertResponses(c) :
                /\ c \in Card
                /\ CertsVerify(req[s], resp)
                /\ data' = [data EXCEPT ![s][idx[s]] = Learned(req[s], resp)]
                /\ idx' = [idx EXCEPT ![s] = NextIdx(s)]
                /\ Goto(s, IF Last(s) THEN "agree" ELSE "verify")
      BY <1>1
    <2> DEFINE d == Learned(req[s], resp)
    <2>2. /\ d \in CardData /\ d.id # NoCard
          /\ d.iak = d.id /\ d.iak \in GoodIak
          /\ d.idevid # NoCard => d.idevid = d.id /\ d.idevid \in GoodIDevID
      BY <2>1, LearnedEntry
    <2>3. data' = [data EXCEPT ![s][idx[s]] = d]
      BY <2>1
    <2> HIDE DEF d
    <2> QED BY <2>1, <2>2, <2>3 DEF VerifyIdentity, Goto
  <1>2. CASE Return(s, "ErrVerifyIdentity") /\ UNCHANGED <<data, idx>>
    BY <1>2 DEF VerifyIdentity, Return
  <1> QED BY <1>1, <1>2 DEF VerifyIdentity

\* A round of verifyIdentityWithVendorCerts extends what is verified by the
\* selection at hand; the last one leaves every selection verified.
LEMMA VerifyIdentityInv ==
    ASSUME VendorInv, NEW s \in Session, VerifyIdentity(s)
    PROVE  VendorInv'
  <1>1. /\ pc[s] = "verify" /\ idx[s] \in Position
        /\ UNCHANGED <<req, updates, issued, seat, installed, accepted>>
    BY VerifyIdentityEffect DEF VendorInv, OwnerInv, OwnerTypeOK
  <1>2. NextIdx(s) \in Position /\ NextIdx(s) <= Count(s)
    BY <1>1, NextIdxInRange DEF VendorInv
  <1>3. OwnerInv'
    <2> data \in [Session -> [Position -> CardData]]
        /\ idx \in [Session -> Position]
      BY DEF VendorInv, OwnerInv, OwnerTypeOK
    <2>1. data' \in [Session -> [Position -> CardData]]
      <3>1. CASE \E d \in CardData : data' = [data EXCEPT ![s][idx[s]] = d]
        BY <1>1, <3>1, EntryType
      <3>2. CASE UNCHANGED data
        BY <3>2
      <3> QED BY <3>1, <3>2, VerifyIdentityEffect
    <2>2. idx' \in [Session -> Position]
      <3>1. idx' = idx \/ idx' = [idx EXCEPT ![s] = NextIdx(s)]
        BY VerifyIdentityEffect
      <3> QED BY <1>2, <3>1
    <2>3. pc' \in [Session -> Stage] /\ result' \in [Session -> Result]
      BY VerifyIdentityEffect
         DEF VendorInv, OwnerInv, OwnerTypeOK, Stage, Result
    <2>4. OwnerTypeOK'
      BY <1>1, <2>1, <2>2, <2>3 DEF VendorInv, OwnerInv, OwnerTypeOK
    <2>5. /\ pc'[s] # "done" => idx'[s] = NextIdx(s)
          /\ pc'[s] # "new" /\ pc'[s] # "oiak"
          /\ pc'[s] = "agree" => idx'[s] = 1
          /\ \A t \in Session \ {s} :
                UNCHANGED <<pc[t], idx[t], data[t]>>
      BY VerifyIdentityEffect DEF VendorInv, OwnerInv, OwnerTypeOK, NextIdx
    <2>6. IndexOK'
      BY <1>1, <1>2, <2>5, IndexKept DEF VendorInv
    <2>7. OiakComplete'
      BY <2>5 DEF VendorInv, OwnerInv, OiakComplete, Complete
    <2> QED BY <2>4, <2>6, <2>7 DEF OwnerInv
  <1>4. Learnt'
    <2>1. CASE UNCHANGED data
      BY <2>1 DEF VendorInv, Learnt
    <2>2. CASE data' # data
      <3>1. PICK d \in CardData :
                /\ d.iak = d.id /\ d.iak \in GoodIak
                /\ d.idevid # NoCard => d.idevid = d.id /\ d.idevid \in GoodIDevID
                /\ data' = [data EXCEPT ![s][idx[s]] = d]
        BY <2>2, VerifyIdentityEffect
      <3>2. \A t \in Session, i \in Position :
                data'[t][i] = data[t][i] \/ data'[t][i] = d
        BY <3>1 DEF VendorInv, OwnerInv, OwnerTypeOK
      <3> QED BY <3>1, <3>2 DEF VendorInv, Learnt
    <2> QED BY <2>1, <2>2
  <1>5. Admission'
    <2>1. \A t \in Session : IssuedBy(t)' = IssuedBy(t)
      BY <1>1 DEF IssuedBy
    <2>2. ASSUME NEW t \in Session, t # s
          PROVE  /\ UNCHANGED <<pc[t], req[t], data[t], idx[t]>>
                 /\ Positions(t)' = Positions(t)
                 /\ Verified(t)' = Verified(t) /\ Agree(t)' = Agree(t)
      <3>1. UNCHANGED <<pc[t], req[t], data[t], idx[t]>>
        BY <2>2, VerifyIdentityEffect DEF VendorInv, OwnerInv, OwnerTypeOK
      <3> QED BY <3>1, SameFindings
    <2>3. IssuedBy(s) = {}
      BY <1>1 DEF VendorInv, Admission
    <2>4. CASE pc'[s] = "done"
      <3>1. pc'[s] \notin {"new", "verify", "agree", "oidevid", "oiak", "rotate"}
        BY <2>4
      <3> QED BY <2>1, <2>2, <2>3, <3>1 DEF VendorInv, Admission
    <2>5. pc' = [pc EXCEPT ![s] = "done"] => pc'[s] = "done"
      BY DEF VendorInv, OwnerInv, OwnerTypeOK
    <2>6. CASE pc'[s] # "done"
      <3>1. PICK d \in CardData :
                d.id # NoCard /\ data' = [data EXCEPT ![s][idx[s]] = d]
        BY <2>5, <2>6, VerifyIdentityEffect
      <3>2. /\ pc'[s] = IF Last(s) THEN "agree" ELSE "verify"
            /\ idx'[s] = NextIdx(s)
        BY <2>5, <2>6, VerifyIdentityEffect DEF VendorInv, OwnerInv, OwnerTypeOK
      <3>3. Positions(s)' = Positions(s) /\ Positions(s) \subseteq Position
        <4>1. Count(s) \in 1..2
          BY <1>1 DEF VendorInv, OwnerInv, IndexOK, Position
        <4>2. Positions(s) \subseteq Position
          BY <4>1 DEF Positions, Position
        <4> QED BY <1>1, <4>2 DEF Positions, Count
      <3>4. \A i \in Positions(s) : i <= idx[s] => data'[s][i].id # NoCard
        <4>1. \A i \in Positions(s) : i < idx[s] => data[s][i].id # NoCard
          BY <1>1 DEF VendorInv, Admission
        <4>2. \A i \in Position : data'[s][i] = IF i = idx[s] THEN d
                                                              ELSE data[s][i]
          BY <3>1 DEF VendorInv, OwnerInv, OwnerTypeOK
        <4>3. \A i \in Position : i <= idx[s] /\ i # idx[s] => i < idx[s]
          BY <1>1 DEF Position
        <4> QED BY <3>1, <3>3, <4>1, <4>2, <4>3
      <3>5. CASE Last(s)
        <4>1. \A i \in Positions(s) : i <= idx[s]
          BY <3>5 DEF Last, Positions
        <4>2. Verified(s)'
          BY <3>3, <3>4, <4>1 DEF Verified
        <4>3. pc'[s] = "agree"
          BY <3>2, <3>5
        <4> QED BY <2>1, <2>2, <2>3, <4>2, <4>3 DEF VendorInv, Admission
      <3>6. CASE ~Last(s)
        <4>1. pc'[s] = "verify" /\ idx'[s] = idx[s] + 1
          BY <3>2, <3>6 DEF NextIdx
        <4>2. \A i \in Position : i < idx[s] + 1 => i <= idx[s]
          BY <1>1 DEF Position
        <4>3. \A i \in Positions(s)' : i < idx'[s] => data'[s][i].id # NoCard
          BY <3>3, <3>4, <4>1, <4>2
        <4> QED BY <2>1, <2>2, <2>3, <4>1, <4>3 DEF VendorInv, Admission
      <3> QED BY <3>5, <3>6
    <2> QED BY <2>4, <2>6
  <1>6. Signed' /\ Carried' /\ Held'
    BY <1>1 DEF VendorInv, Signed, IssuedForVerifiedKeys, Carried, Held, PairFrom
  <1> QED BY <1>3, <1>4, <1>5, <1>6 DEF VendorInv

\* Only a session whose cards agree on atomic rotation goes on to the CA.
LEMMA CheckAtomicInv ==
    ASSUME VendorInv, NEW s \in Session, CheckAtomic(s)
    PROVE  VendorInv'
  <1>1. /\ pc[s] = "agree"
        /\ UNCHANGED <<req, idx, data, updates, issued, seat, installed, accepted>>
        /\ \E stage \in {"oidevid", "done"} :
              /\ pc' = [pc EXCEPT ![s] = stage]
              /\ stage = "oidevid" => Agree(s)
        /\ result' \in [Session -> Result]
    BY DEF CheckAtomic, Goto, Return, VendorInv, OwnerInv, OwnerTypeOK, Result
  <1>2. OwnerInv'
    <2>1. OwnerTypeOK'
      BY <1>1 DEF VendorInv, OwnerInv, OwnerTypeOK, Stage
    <2>2. IndexOK'
      <3>1. idx[s] <= Count(s)
        BY <1>1 DEF VendorInv, OwnerInv, IndexOK
      <3> QED BY <1>1, <3>1, IndexKept DEF VendorInv, OwnerInv, OwnerTypeOK
    <2>3. OiakComplete'
      BY <1>1 DEF VendorInv, OwnerInv, OwnerTypeOK, OiakComplete
    <2> QED BY <2>1, <2>2, <2>3 DEF OwnerInv
  <1>3. Admission'
    <2>1. \A t \in Session :
            /\ IssuedBy(t)' = IssuedBy(t) /\ Positions(t)' = Positions(t)
            /\ Verified(t)' = Verified(t) /\ Agree(t)' = Agree(t)
      BY <1>1, SameFindings DEF IssuedBy
    <2> QED BY <1>1, <2>1 DEF VendorInv, OwnerInv, OwnerTypeOK, Admission
  <1>4. Learnt' /\ Signed' /\ Carried' /\ Held'
    BY <1>1 DEF VendorInv, Learnt, Signed, IssuedForVerifiedKeys, Carried,
       Held, PairFrom
  <1> QED BY <1>2, <1>3, <1>4 DEF VendorInv

\* The certificates issueAndRotateOwnerCerts asks for in session s.
MayAskFor(s, cert) ==
    /\ cert.session = s
    /\ cert.key = cert.id
    /\ cert.key \in IF cert.type = "oiak" THEN GoodIak ELSE GoodIDevID
    /\ cert.type = "oidevid" => req[s].profile /\ ~req[s].skip

\* An issuing step of session s adds at most one certificate it may ask for;
\* whatever it was for, admission and the signatures stay sound.
LEMMA SignStep ==
    ASSUME VendorInv, NEW s \in Session, pc[s] \in {"oidevid", "oiak"},
           \/ issued' = issued
           \/ \E cert \in Cert :
                 MayAskFor(s, cert) /\ issued' = issued \cup {cert},
           \E stage \in {"oidevid", "oiak", "rotate", "done"} :
               pc' = [pc EXCEPT ![s] = stage],
           \A t \in Session \ {s} : idx'[t] = idx[t],
           UNCHANGED <<req, data>>
    PROVE  Admission' /\ Signed' /\ issued \subseteq issued'
  <1>1. \A t \in Session : /\ Positions(t)' = Positions(t)
                           /\ Verified(t)' = Verified(t)
                           /\ Agree(t)' = Agree(t)
    BY SameFindings
  <1>2. \A t \in Session \ {s} : IssuedBy(t)' = IssuedBy(t)
    BY DEF IssuedBy, MayAskFor
  <1>3. Admission'
    <2>1. Verified(s) /\ Agree(s)
      BY DEF VendorInv, Admission
    <2>2. pc'[s] \notin {"new", "verify", "agree"}
      BY DEF VendorInv, OwnerInv, OwnerTypeOK
    <2>3. \A t \in Session \ {s} : pc'[t] = pc[t]
      BY DEF VendorInv, OwnerInv, OwnerTypeOK
    <2> QED BY <1>1, <1>2, <2>1, <2>2, <2>3 DEF VendorInv, Admission
  <1>4. Signed'
    BY DEF VendorInv, Signed, IssuedForVerifiedKeys, MayAskFor
  <1> QED BY <1>3, <1>4

\* The oIDevID asked for is for a verified IDevID key, with a profile.
LEMMA VendorIssueOIDevIDInv ==
    ASSUME VendorInv, NEW s \in Session, IssueOIDevID(s)
    PROVE  VendorInv'
  <1> DEFINE d    == data[s][idx[s]]
             cert == NewCert(s, "oidevid", d.id, d.idevid)
  <1>1. OwnerInv'
    BY IssueOIDevIDInv DEF VendorInv
  <1>2. /\ pc[s] = "oidevid"
        /\ UNCHANGED <<req, data, idx, seat, installed, accepted>>
        /\ \E stage \in {"oiak", "done"} : pc' = [pc EXCEPT ![s] = stage]
        /\ \/ UNCHANGED <<updates, issued>>
           \/ /\ Complete(d) /\ ~SkipsOIDevID(s) /\ req[s].profile
              /\ issued' \in {issued, issued \cup {cert}}
              /\ \/ UNCHANGED updates
                 \/ /\ issued' = issued \cup {cert}
                    /\ updates' = [updates EXCEPT ![s][idx[s]].oidevid = cert]
    BY DEF IssueOIDevID, CaFails, Goto, Return
  <1>3. ASSUME Complete(d), ~SkipsOIDevID(s), req[s].profile
        PROVE  cert \in Cert /\ cert.type = "oidevid" /\ MayAskFor(s, cert)
    <2>1. idx[s] \in Position /\ d \in CardData
      BY DEF VendorInv, OwnerInv, OwnerTypeOK
    <2>2. d.id \in CardId /\ d.idevid \in Card /\ ~req[s].skip
      BY <1>3, <2>1 DEF CardData, Complete, SkipsOIDevID
    <2>3. d.idevid = d.id /\ d.idevid \in GoodIDevID
      BY <2>1, <2>2, CardAssumption DEF VendorInv, Learnt
    <2>4. cert \in Cert
      BY <2>2, NewCertType DEF VendorInv
    <2>5. /\ cert.session = s /\ cert.type = "oidevid"
          /\ cert.key = d.idevid /\ cert.id = d.id
      BY DEF NewCert
    <2> HIDE DEF cert, d
    <2> QED BY <1>3, <2>2, <2>3, <2>4, <2>5 DEF MayAskFor
  <1> HIDE DEF cert, d
  <1>4. Admission' /\ Signed' /\ issued \subseteq issued'
    BY <1>2, <1>3, SignStep
  <1>5. Carried'
    <2>1. \A pair : PairFrom(issued, pair) => PairFrom(issued', pair)
      BY <1>4 DEF PairFrom
    <2>2. CASE UNCHANGED updates
      BY <2>1, <2>2 DEF VendorInv, Carried
    <2>3. CASE /\ issued' = issued \cup {cert} /\ cert.type = "oidevid"
               /\ updates' = [updates EXCEPT ![s][idx[s]].oidevid = cert]
      <3>1. ASSUME NEW t \in Session, NEW i \in Position
            PROVE  PairFrom(issued', updates'[t][i])
        <4>1. updates[t][i] \in CertPair /\ PairFrom(issued, updates[t][i])
          BY DEF VendorInv, OwnerInv, OwnerTypeOK, Carried
        <4>2. \/ updates'[t][i] = updates[t][i]
              \/ updates'[t][i] = [updates[t][i] EXCEPT !.oidevid = cert]
          BY <2>3 DEF VendorInv, OwnerInv, OwnerTypeOK
        <4>3. PairFrom(issued', [updates[t][i] EXCEPT !.oidevid = cert])
          BY <2>3, <4>1 DEF PairFrom, CertPair
        <4> QED BY <2>1, <4>1, <4>2, <4>3
      <3> QED BY <3>1 DEF Carried
    <2> QED BY <1>2, <1>3, <2>2, <2>3
  <1>6. Learnt' /\ Held'
    BY <1>2, <1>4 DEF VendorInv, Learnt, Held, PairFrom
  <1> QED BY <1>1, <1>4, <1>5, <1>6 DEF VendorInv

\* The oIAK asked for is for a verified IAK.
LEMMA VendorIssueOIakInv ==
    ASSUME VendorInv, NEW s \in Session, IssueOIak(s)
    PROVE  VendorInv'
  <1> DEFINE d    == data[s][idx[s]]
             cert == NewCert(s, "oiak", d.id, d.iak)
  <1>1. OwnerInv'
    BY IssueOIakInv DEF VendorInv
  <1>2. /\ pc[s] = "oiak"
        /\ UNCHANGED <<req, data, seat, installed, accepted>>
        /\ \A t \in Session \ {s} : idx'[t] = idx[t]
        /\ \E stage \in {"oidevid", "rotate", "done"} :
              pc' = [pc EXCEPT ![s] = stage]
        /\ issued' \in {issued, issued \cup {cert}}
        /\ \/ UNCHANGED updates
           \/ /\ issued' = issued \cup {cert}
              /\ updates' = [updates EXCEPT ![s][idx[s]].oiak = cert]
    BY DEF IssueOIak, CaFails, Goto, Return, VendorInv, OwnerInv, OwnerTypeOK
  <1>3. cert \in Cert /\ MayAskFor(s, cert)
    <2>1. idx[s] \in Position /\ d \in CardData /\ Complete(d)
      BY <1>2 DEF VendorInv, OwnerInv, OwnerTypeOK, OiakComplete
    <2>2. d.id \in CardId /\ d.iak \in Card
      BY <2>1 DEF CardData, Complete
    <2>3. d.iak = d.id /\ d.iak \in GoodIak
      BY <2>1, <2>2, CardAssumption DEF VendorInv, Learnt
    <2>4. cert \in Cert
      BY <2>2, NewCertType DEF VendorInv
    <2>5. /\ cert.session = s /\ cert.type = "oiak"
          /\ cert.key = d.iak /\ cert.id = d.id
      BY DEF NewCert
    <2> HIDE DEF cert, d
    <2> QED BY <2>3, <2>4, <2>5 DEF MayAskFor
  <1> HIDE DEF cert, d
  <1>4. Admission' /\ Signed' /\ issued \subseteq issued'
    BY <1>2, <1>3, SignStep
  <1>5. Carried'
    <2>1. \A pair : PairFrom(issued, pair) => PairFrom(issued', pair)
      BY <1>4 DEF PairFrom
    <2>2. CASE UNCHANGED updates
      BY <2>1, <2>2 DEF VendorInv, Carried
    <2>3. CASE /\ issued' = issued \cup {cert}
               /\ updates' = [updates EXCEPT ![s][idx[s]].oiak = cert]
      <3>1. ASSUME NEW t \in Session, NEW i \in Position
            PROVE  PairFrom(issued', updates'[t][i])
        <4>1. updates[t][i] \in CertPair /\ PairFrom(issued, updates[t][i])
          BY DEF VendorInv, OwnerInv, OwnerTypeOK, Carried
        <4>2. \/ updates'[t][i] = updates[t][i]
              \/ updates'[t][i] = [updates[t][i] EXCEPT !.oiak = cert]
          BY <2>3 DEF VendorInv, OwnerInv, OwnerTypeOK
        <4>3. PairFrom(issued', [updates[t][i] EXCEPT !.oiak = cert])
          BY <2>3, <4>1 DEF PairFrom, CertPair
        <4> QED BY <2>1, <4>1, <4>2, <4>3
      <3> QED BY <3>1 DEF Carried
    <2> QED BY <1>2, <2>2, <2>3
  <1>6. Learnt' /\ Held'
    BY <1>2, <1>4 DEF VendorInv, Learnt, Held, PairFrom
  <1> QED BY <1>1, <1>4, <1>5, <1>6 DEF VendorInv

\* Whatever a RotateOIakCert call does, a card ends up with certificates of the
\* CA for its own keys: it refuses keys that are not its own.
LEMMA InstallHeld ==
    ASSUME VendorInv, NEW s \in Session, NEW P \in SUBSET Position,
           Install(s, P), UNCHANGED issued
    PROVE  Held'
  <1> SUFFICES ASSUME NEW c \in Card
               PROVE  /\ PairFrom(issued, installed'[c])
                      /\ installed'[c].oiak # NoCert =>
                            installed'[c].oiak.id = c
                      /\ installed'[c].oidevid # NoCert =>
                            installed'[c].oidevid.id = c
    BY DEF Held, PairFrom
  <1>1. /\ PairFrom(issued, installed[c])
        /\ installed[c].oiak # NoCert => installed[c].oiak.id = c
        /\ installed[c].oidevid # NoCert => installed[c].oidevid.id = c
    BY DEF VendorInv, Held
  <1>2. CASE installed'[c] = installed[c]
    BY <1>1, <1>2
  <1>3. CASE \E i \in P : /\ Fits(c, updates[s][i])
                          /\ installed'[c] = Store(installed[c], updates[s][i])
    <2>1. PICK i \in P : /\ Fits(c, updates[s][i])
                         /\ installed'[c] = Store(installed[c], updates[s][i])
      BY <1>3
    <2> DEFINE new == updates[s][i]
    <2>2. PairFrom(issued, new)
      BY DEF VendorInv, Carried
    <2>3. \A cert \in issued : cert.key = cert.id
      BY DEF VendorInv, Signed, IssuedForVerifiedKeys
    <2> HIDE DEF new
    <2>4. /\ new.oiak # NoCert => new.oiak \in issued /\ new.oiak.id = c
          /\ new.oidevid # NoCert =>
                /\ new.oidevid \in issued /\ new.oidevid.id = c
                /\ new.oidevid.type = "oidevid"
      BY <2>1, <2>2, <2>3 DEF Fits, PairFrom, new
    <2>5. /\ installed'[c].oiak = new.oiak
          /\ installed'[c].oidevid = IF new.oidevid = NoCert
                                     THEN installed[c].oidevid
                                     ELSE new.oidevid
      BY <2>1 DEF Store, new
    <2> QED BY <1>1, <2>4, <2>5 DEF PairFrom
  <1> QED BY <1>2, <1>3, InstallEffect DEF VendorInv

\* RotateOIakCert puts on a card only what the CA issued for that card.
LEMMA VendorRotateInv ==
    ASSUME VendorInv, NEW s \in Session, RotateAll(s) \/ RotateOne(s)
    PROVE  VendorInv'
  <1>1. OwnerInv'
    BY RotateAllInv, RotateOneInv DEF VendorInv
  <1>2. /\ UNCHANGED <<req, data, updates, issued, seat>>
        /\ pc[s] = "rotate"
        /\ UNCHANGED pc \/ pc' = [pc EXCEPT ![s] = "done"]
        /\ \A t \in Session \ {s} : idx'[t] = idx[t]
        /\ \/ UNCHANGED <<installed, accepted>>
           \/ Install(s, Positions(s))
           \/ Install(s, {idx[s]})
    BY DEF RotateAll, RotateOne, RotateCall, Return, VendorInv, OwnerInv,
       OwnerTypeOK
  <1>3. Held'
    <2>1. CASE UNCHANGED <<installed, accepted>>
      BY <1>2, <2>1 DEF VendorInv, Held, PairFrom
    <2>2. CASE Install(s, Positions(s))
      <3>1. Count(s) \in 1..2
        BY <1>2 DEF VendorInv, OwnerInv, IndexOK, Position
      <3>2. Positions(s) \in SUBSET Position
        BY <3>1 DEF Positions, Position
      <3> QED BY <1>2, <2>2, <3>2, InstallHeld
    <2>3. CASE Install(s, {idx[s]})
      <3>1. {idx[s]} \in SUBSET Position
        BY DEF VendorInv, OwnerInv, OwnerTypeOK
      <3> QED BY <1>2, <2>3, <3>1, InstallHeld
    <2> QED BY <1>2, <2>1, <2>2, <2>3
  <1>4. Admission'
    <2>1. \A t \in Session :
            /\ IssuedBy(t)' = IssuedBy(t) /\ Positions(t)' = Positions(t)
            /\ Verified(t)' = Verified(t) /\ Agree(t)' = Agree(t)
      BY <1>2, SameFindings DEF IssuedBy
    <2>2. pc'[s] \in {"rotate", "done"} /\ \A t \in Session \ {s} : pc'[t] = pc[t]
      BY <1>2 DEF VendorInv, OwnerInv, OwnerTypeOK
    <2> QED BY <1>2, <2>1, <2>2 DEF VendorInv, Admission
  <1>5. Learnt' /\ Signed' /\ Carried'
    BY <1>2 DEF VendorInv, Learnt, Signed, IssuedForVerifiedKeys, Carried,
       PairFrom
  <1> QED BY <1>1, <1>3, <1>4, <1>5 DEF VendorInv

\* A step in which no session, certificate or card's storage changes.
LEMMA VendorQuietInv ==
    ASSUME VendorInv, OwnerInv',
           UNCHANGED <<pc, req, idx, data, updates, issued, installed>>
    PROVE  VendorInv'
  <1>1. Admission'
    BY DEF VendorInv, Admission, IssuedBy, Verified, Agree, Positions, Count
  <1>2. Learnt' /\ Signed' /\ Carried' /\ Held'
    BY DEF VendorInv, Learnt, Signed, IssuedForVerifiedKeys, Carried, Held,
       PairFrom
  <1> QED BY <1>1, <1>2 DEF VendorInv

\* Switchovers and replacements move cards, with what they hold.
LEMMA VendorDeviceInv ==
    ASSUME VendorInv, Device
    PROVE  VendorInv'
  <1>1. OwnerInv'
    BY DeviceInv DEF VendorInv
  <1>2. UNCHANGED <<pc, req, idx, data, updates, issued, installed>>
    BY DEF Device, Switchover, HotSwap, sessionVars
  <1> QED BY <1>1, <1>2, VendorQuietInv

\* Every step of the two workflows keeps the invariant.
LEMMA VendorNextInv == VendorInv /\ [Next]_ownerVars => VendorInv'
  <1> SUFFICES ASSUME VendorInv, [Next]_ownerVars PROVE VendorInv'
    OBVIOUS
  <1>1. ASSUME NEW s \in Session, NEW r \in Requests, Start(s, r)
        PROVE  VendorInv'
    BY <1>1, VendorStartInv
  <1>2. ASSUME NEW s \in Session, VerifyIdentity(s) PROVE VendorInv'
    BY <1>2, VerifyIdentityInv
  <1>3. ASSUME NEW s \in Session, CheckAtomic(s) PROVE VendorInv'
    BY <1>3, CheckAtomicInv
  <1>4. ASSUME NEW s \in Session, IssueAndRotate(s) PROVE VendorInv'
    BY <1>4, VendorIssueOIDevIDInv, VendorIssueOIakInv, VendorRotateInv
       DEF IssueAndRotate
  <1>5. CASE Device
    BY <1>5, VendorDeviceInv
  <1>6. CASE UNCHANGED ownerVars
    <2>1. UNCHANGED <<pc, result, req, idx, data, updates, issued, seat,
                      installed, accepted>>
      BY <1>6 DEF ownerVars
    <2>2. OwnerTypeOK'
      BY <2>1 DEF VendorInv, OwnerInv, OwnerTypeOK
    <2>3. IndexOK' /\ OiakComplete'
      BY <2>1 DEF VendorInv, OwnerInv, IndexOK, OiakComplete, Count
    <2> QED BY <2>1, <2>2, <2>3, VendorQuietInv DEF OwnerInv
  <1> QED BY <1>1, <1>2, <1>3, <1>4, <1>5, <1>6 DEF Next, SessionStep

\* Every step of the two workflows keeps what holds of the delivery.
LEMMA VendorNextDelivery ==
    VendorInv /\ DeliveryInv /\ [Next]_ownerVars => DeliveryInv'
  <1> SUFFICES ASSUME VendorInv, DeliveryInv, [Next]_ownerVars PROVE DeliveryInv'
    OBVIOUS
  <1> USE DEF VendorInv
  <1>1. ASSUME NEW s \in Session, NEW r \in Requests, Start(s, r)
        PROVE  DeliveryInv'
    BY <1>1, StartDelivery
  <1>2. ASSUME NEW s \in Session, VerifyIdentity(s) PROVE DeliveryInv'
    <2>1. result[s] = "none"
      BY <1>2, VerifyIdentityEffect DEF DeliveryInv, Delivery, Reach
    <2>2. /\ pc'[s] = "done" <=> result'[s] # "none"
          /\ pc'[s] \notin AfterAgree /\ result'[s] # "ok"
          /\ \A t \in Session \ {s} :
                /\ pc'[t] = pc[t] /\ result'[t] = result[t] /\ req'[t] = req[t]
                /\ idx'[t] = idx[t] /\ data'[t] = data[t]
      BY <1>2, <2>1, VerifyIdentityEffect DEF OwnerInv, OwnerTypeOK, AfterAgree, AtCa
    <2> QED BY <1>2, <2>2, VerifyIdentityEffect, EarlyDelivery DEF AfterAgree, AtCa
  <1>3. ASSUME NEW s \in Session, CheckAtomic(s) PROVE DeliveryInv'
    <2>1. /\ pc[s] = "agree" /\ result[s] = "none" /\ idx[s] = 1
          /\ UNCHANGED <<req, idx, data, updates, issued, seat, accepted>>
          /\ \/ pc' = [pc EXCEPT ![s] = "oidevid"] /\ result' = result
             \/ /\ pc' = [pc EXCEPT ![s] = "done"]
                /\ result' = [result EXCEPT ![s] = "ErrAtomicRotationMismatch"]
      BY <1>3 DEF CheckAtomic, Goto, Return, DeliveryInv, Delivery, Reach, OwnerInv,
                  IndexOK
    <2>2. /\ pc'[s] = "done" <=> result'[s] # "none"
          /\ pc'[s] \in {"oidevid", "done"} /\ result'[s] # "ok"
          /\ \A t \in Session \ {s} : pc'[t] = pc[t] /\ result'[t] = result[t]
      BY <2>1 DEF OwnerInv, OwnerTypeOK
    <2> QED BY <2>1, <2>2, EarlyDelivery DEF AfterAgree, AtCa
  <1>4. ASSUME NEW s \in Session, IssueAndRotate(s) PROVE DeliveryInv'
    BY <1>4, IssueAndRotateDelivery
  <1>5. CASE Device
    BY <1>5, DeviceDelivery
  <1>6. CASE UNCHANGED ownerVars
    BY <1>6, QuietDelivery DEF ownerVars, DeliveryInv, TwoSeats
  <1> QED BY <1>1, <1>2, <1>3, <1>4, <1>5, <1>6 DEF Next, SessionStep

-----------------------------------------------------------------------------
(* Theorems.                                                               *)

\* The invariant holds in every state of both workflows.
THEOREM VendorAlways == Spec => []VendorInv
  BY VendorInitInv, VendorNextInv, PTL DEF Spec

\* Type correctness of EnrollControlCard and RotateOwnerIakCert, and with it
\* that every index into certDataList and controlCardCerts is in range.
THEOREM VendorTypeCorrect == Spec => []TypeOK
  <1>1. VendorInv => TypeOK
    BY DEF VendorInv, OwnerInv, TypeOK
  <1> QED BY <1>1, VendorAlways, PTL

\* No certificate is issued for a session before all its selections are
\* verified and agree on atomic rotation (the two loops of EnrollControlCard
\* and RotateOwnerIakCert come before issueAndRotateOwnerCerts).
THEOREM VendorIssuesAfterVerifying == Spec => []IssuedAfterAllVerified
  <1>1. VendorInv => IssuedAfterAllVerified
    <2> SUFFICES ASSUME VendorInv, NEW cert \in issued
                 PROVE  /\ \A i \in Positions(cert.session) :
                              data[cert.session][i].id # NoCard
                        /\ Agree(cert.session)
      BY DEF IssuedAfterAllVerified
    <2>1. cert.session \in Session
      BY DEF VendorInv, OwnerInv, OwnerTypeOK, Cert
    <2>2. IssuedBy(cert.session) # {}
      BY DEF IssuedBy
    <2> QED BY <2>1, <2>2 DEF VendorInv, Admission, Verified
  <1> QED BY <1>1, VendorAlways, PTL

\* The owner CA signs only keys whose vendor certificates verified, under the
\* identity of the card that holds them.
THEOREM VendorSignsVerifiedKeys == Spec => []IssuedForVerifiedKeys
  <1>1. VendorInv => IssuedForVerifiedKeys
    BY DEF VendorInv, Signed
  <1> QED BY <1>1, VendorAlways, PTL

\* A card holds only certificates the CA made for it, and an oIDevID only
\* from a session that asked for one, whatever replies were lost and whatever
\* cards were switched over or replaced meanwhile.
THEOREM VendorInstallsOwn == Spec => []InstalledIsOwn
  <1>1. VendorInv => InstalledIsOwn
    BY DEF VendorInv, Held, PairFrom, Signed, InstalledIsOwn
  <1> QED BY <1>1, VendorAlways, PTL

\* What holds of the delivery of certificates, in every state of both workflows.
THEOREM VendorDelivers == Spec => []DeliveryInv
  <1>1. Init => DeliveryInv
    BY DeliveryInitInv DEF Init
  <1> QED BY <1>1, VendorAlways, VendorNextDelivery, PTL DEF Spec

\* The class of the returned error tells whether certificates were issued and
\* whether the switch may have changed (the error returns of EnrollControlCard,
\* RotateOwnerIakCert and issueAndRotateOwnerCerts).
THEOREM VendorErrorTellsReach == Spec => []ErrorTellsReach
  <1>1. DeliveryInv => ErrorTellsReach
    BY DEF DeliveryInv, Delivery, Reach, AfterAgree, AtCa, ErrorTellsReach
  <1> QED BY <1>1, VendorDelivers, PTL

\* Atomic sessions update all selections or none, the others a prefix of them,
\* whatever replies are lost (rotateOIakCert).
THEOREM VendorAllOrPrefix == Spec => []AcceptedAllOrPrefix
  <1>1. DeliveryInv => AcceptedAllOrPrefix
    BY DEF DeliveryInv, Delivery, Taken, AcceptedAllOrPrefix
  <1> QED BY <1>1, VendorDelivers, PTL

\* A session that succeeds has lost no certificate: each one issued for it is
\* in the update of its selection, which the card of its key has taken.
THEOREM VendorLeavesNoOrphan == Spec => []SuccessLeavesNoOrphan
  <1>1. VendorInv /\ DeliveryInv => SuccessLeavesNoOrphan
    <2> SUFFICES ASSUME VendorInv, DeliveryInv, NEW s \in Session, result[s] = "ok"
                 PROVE  /\ Accepted(s) = Positions(s)
                        /\ \A cert \in IssuedBy(s) :
                              /\ cert \in {updates[s][cert.pos].oiak,
                                           updates[s][cert.pos].oidevid}
                              /\ <<s, cert.pos, cert.key>> \in accepted
      BY DEF SuccessLeavesNoOrphan
    <2>1. Accepted(s) = Positions(s)
      BY DEF DeliveryInv, Delivery, Taken
    <2>2. ASSUME NEW cert \in IssuedBy(s)
          PROVE  /\ cert \in {updates[s][cert.pos].oiak, updates[s][cert.pos].oidevid}
                 /\ <<s, cert.pos, cert.key>> \in accepted
      BY <2>1, SpentIsAccepted DEF VendorInv
    <2> QED BY <2>1, <2>2
  <1> QED BY <1>1, VendorAlways, VendorDelivers, PTL

\* An atomic session for both roles that succeeds has updated two cards: no
\* switchover makes one card pass for both.
THEOREM VendorEnrollsBothRoles == Spec => []AtomicEnrollsBothRoles
  <1>1. DeliveryInv => AtomicEnrollsBothRoles
    BY TwoCardsEnrolled DEF AsksForBoth, AtomicEnrollsBothRoles
  <1> QED BY <1>1, VendorDelivers, PTL

\* Every step of the two workflows is one the owner was promised, or is not seen
\* by the owner.
LEMMA VendorNextPromise ==
    ASSUME VendorInv, DeliveryInv, [Next]_ownerVars
    PROVE  [Owner!Next]_Owner!vars
  <1> USE DEF VendorInv
  <1>1. ASSUME NEW s \in Session, NEW r \in Requests, Start(s, r)
        PROVE  [Owner!Next]_Owner!vars
    BY <1>1, StartPromise
  <1>2. ASSUME NEW s \in Session, VerifyIdentity(s)
        PROVE  [Owner!Next]_Owner!vars
    <2>1. /\ pc[s] = "verify" /\ pc'[s] \in {"verify", "agree", "done"}
          /\ UNCHANGED <<issued, installed>>
          /\ \A t \in Session \ {s} : pc'[t] = pc[t] /\ data'[t] = data[t]
      BY <1>2, VerifyIdentityEffect DEF OwnerInv, OwnerTypeOK
    <2> QED BY <2>1, EarlyPromise DEF AfterAgree, AtCa
  <1>3. ASSUME NEW s \in Session, CheckAtomic(s)
        PROVE  [Owner!Next]_Owner!vars
    <2>1. /\ pc[s] = "agree" /\ UNCHANGED <<data, issued, installed>>
          /\ \E stage \in {"oidevid", "done"} : pc' = [pc EXCEPT ![s] = stage]
      BY <1>3 DEF CheckAtomic, Goto, Return
    <2>2. /\ pc'[s] \in {"oidevid", "done"}
          /\ \A t \in Session \ {s} : pc'[t] = pc[t]
      BY <2>1 DEF OwnerInv, OwnerTypeOK
    <2> QED BY <2>1, <2>2, EarlyPromise DEF AfterAgree, AtCa
  <1>4. ASSUME NEW s \in Session, IssueAndRotate(s)
        PROVE  [Owner!Next]_Owner!vars
    BY <1>4, IssueAndRotatePromise
  <1>5. CASE Device
    BY <1>5, QuietPromise DEF Device, Switchover, HotSwap, sessionVars
  <1>6. CASE UNCHANGED ownerVars
    BY <1>6, QuietPromise DEF ownerVars
  <1> QED BY <1>1, <1>2, <1>3, <1>4, <1>5, <1>6 DEF Next, SessionStep

\* EnrollControlCard and RotateOwnerIakCert implement the promise to the owner:
\* a switch is admitted as a whole before anything is signed, cards get only
\* what their own session signed for, and an atomic session delivers to all its
\* cards in one step.
THEOREM VendorKeepsPromise == Spec => KeepsPromise
  <1>1. Init => Owner!Init
    BY PromiseInit DEF Init
  <1> QED BY <1>1, VendorAlways, VendorDelivers, VendorNextPromise, PTL
          DEF Spec, KeepsPromise, Owner!Spec
=============================================================================
