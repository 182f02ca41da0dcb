--------------------------- MODULE OwnerCertsProofs ---------------------------
(***************************************************************************)
(* What the steps shared by the two TPM 2.0 workflows preserve, for any    *)
(* number of sessions and cards: first the types, and the index of a       *)
(* session inside the selections of its request; then how far a session of *)
(* issueAndRotateOwnerCerts gets, what its error tells about it, where the *)
(* certificates it paid for are, and which updates the switch has taken.   *)
(* Last, the workflows keep the promise to the owner: every step of theirs *)
(* is a step of OwnerPromise, or none, under the mapping of OwnerCerts.    *)
(***************************************************************************)
EXTENDS OwnerCerts, TLAPS, FiniteSetTheorems

\* The index starts at 1, does so again after the loop that verifies the cards,
\* and stays among the selections of a valid request.
IndexOK ==
    \A s \in Session :
        /\ pc[s] \in {"new", "agree"} => idx[s] = 1
        /\ pc[s] \notin {"new", "done"} =>
              /\ req[s] \in Request
              /\ Count(s) \in Position
              /\ idx[s] <= Count(s)

\* An oIAK is only asked for when the card's data are complete.
OiakComplete ==
    \A s \in Session : pc[s] = "oiak" => Complete(data[s][idx[s]])

OwnerInv == OwnerTypeOK /\ IndexOK /\ OiakComplete

\* NextIdx stays among the selections of the request.
LEMMA NextIdxInRange ==
    ASSUME OwnerInv, NEW s \in Session, pc[s] \notin {"new", "done"}
    PROVE  NextIdx(s) \in Position /\ NextIdx(s) <= Count(s)
  <1>1. idx[s] \in 1..2
    BY DEF OwnerInv, OwnerTypeOK, Position
  <1>2. Count(s) \in 1..2 /\ idx[s] <= Count(s)
    BY DEF OwnerInv, IndexOK, Position
  <1> QED BY <1>1, <1>2 DEF NextIdx, Last, Position

\* The initial states of both workflows satisfy the shared invariant.
LEMMA OwnerInitInv == OwnerInit => OwnerInv
  <1> SUFFICES ASSUME OwnerInit PROVE OwnerInv
    OBVIOUS
  <1>1. OwnerTypeOK
    BY DEF OwnerInit, OwnerTypeOK, Stage, Result, Position, CardData, NoData,
           CertPair, NoPair
  <1>2. IndexOK /\ OiakComplete
    BY DEF OwnerInit, IndexOK, OiakComplete
  <1> QED BY <1>1, <1>2 DEF OwnerInv

\* Start takes a request from the caller and leaves everything else alone.
LEMMA StartInv ==
    ASSUME OwnerInv, NEW s \in Session, NEW r \in Requests, Start(s, r)
    PROVE  OwnerInv'
  <1> r \in Request
    BY RequestAssumption
  <1>1. OwnerTypeOK'
    BY DEF OwnerInv, OwnerTypeOK, Start, Goto, Return, Stage, Result
  <1>2. IndexOK'
    <2> SUFFICES ASSUME NEW t \in Session
                 PROVE  /\ pc'[t] \in {"new", "agree"} => idx'[t] = 1
                        /\ pc'[t] \notin {"new", "done"} =>
                              /\ req'[t] \in Request
                              /\ Count(t)' \in Position
                              /\ idx'[t] <= Count(t)'
      BY DEF IndexOK
    <2>1. CASE t = s
      <3>1. idx'[s] = 1 /\ req'[s] = r
        BY DEF OwnerInv, OwnerTypeOK, IndexOK, Start, Goto, Return
      <3>2. pc'[s] # "done" => Count(s)' \in Position
        BY DEF OwnerInv, OwnerTypeOK, Start, Goto, Return, Count
      <3> QED BY <2>1, <3>1, <3>2 DEF Position
    <2>2. CASE t # s
      <3>1. UNCHANGED <<pc[t], idx[t], req[t]>>
        BY <2>2 DEF OwnerInv, OwnerTypeOK, Start, Goto, Return
      <3>2. Count(t)' = Count(t)
        BY <3>1 DEF Count
      <3> QED BY <3>1, <3>2 DEF OwnerInv, IndexOK
    <2> QED BY <2>1, <2>2
  <1>3. OiakComplete'
    BY DEF OwnerInv, OwnerTypeOK, OiakComplete, Start, Goto, Return, Stage
  <1> QED BY <1>1, <1>2, <1>3 DEF OwnerInv

\* A certificate for an identity and a key is well formed, whosever they are.
LEMMA NewCertType ==
    ASSUME OwnerInv, NEW s \in Session, NEW type \in {"oiak", "oidevid"},
           NEW id \in CardId, NEW key \in Card
    PROVE  NewCert(s, type, id, key) \in Cert
  BY DEF OwnerInv, OwnerTypeOK, NewCert, Cert

\* A step of one session that does not touch the requests.
LEMMA IndexKept ==
    ASSUME OwnerInv, NEW s \in Session, req' = req,
           pc[s] \notin {"new", "done"}, pc'[s] # "new",
           pc'[s] # "done" => idx'[s] <= Count(s),
           pc'[s] = "agree" => idx'[s] = 1,
           \A t \in Session \ {s} : pc'[t] = pc[t] /\ idx'[t] = idx[t]
    PROVE  IndexOK'
  <1>1. \A t \in Session : Count(t)' = Count(t)
    BY DEF Count
  <1> QED BY <1>1 DEF OwnerInv, IndexOK

\* Writing one entry of a table of rows, one row for each session.
LEMMA EntryType ==
    ASSUME NEW S, NEW f \in [Session -> [Position -> S]],
           NEW s \in Session, NEW i \in Position, NEW v \in S
    PROVE  [f EXCEPT ![s][i] = v] \in [Session -> [Position -> S]]
  <1>1. [f[s] EXCEPT ![i] = v] \in [Position -> S]
    OBVIOUS
  <1> QED BY <1>1

\* The validation and issueOwnerIDevIDCert write at most the oIDevID of the
\* selection at hand.
LEMMA IssueOIDevIDInv ==
    ASSUME OwnerInv, NEW s \in Session, IssueOIDevID(s)
    PROVE  OwnerInv'
  <1> DEFINE d    == data[s][idx[s]]
             cert == NewCert(s, "oidevid", d.id, d.idevid)
             pair == [updates[s][idx[s]] EXCEPT !.oidevid = cert]
  <1>1. idx[s] \in Position /\ d \in CardData /\ updates[s][idx[s]] \in CertPair
    BY DEF OwnerInv, OwnerTypeOK
  <1>2. ASSUME Complete(d), ~SkipsOIDevID(s)
        PROVE  cert \in Cert /\ pair \in CertPair
    <2>1. d.id \in CardId /\ d.idevid \in Card
      BY <1>1, <1>2 DEF CardData, Complete, SkipsOIDevID
    <2>2. cert \in Cert
      BY <2>1, NewCertType
    <2> HIDE DEF cert
    <2> QED BY <1>1, <2>2 DEF CertPair
  <1>3. OwnerTypeOK'
    <2>1. issued' \subseteq Cert
      <3> HIDE DEF cert
      <3> QED BY <1>2 DEF OwnerInv, OwnerTypeOK, IssueOIDevID, CaFails, cert
    <2>2. updates' \in [Session -> [Position -> CertPair]]
      <3>1. CASE updates' = updates
        BY <3>1 DEF OwnerInv, OwnerTypeOK
      <3>2. CASE Complete(d) /\ ~SkipsOIDevID(s)
                 /\ updates' = [updates EXCEPT ![s][idx[s]].oidevid = cert]
        <4>1. updates' = [updates EXCEPT ![s][idx[s]] = pair]
          BY <3>2
        <4>2. pair \in CertPair
          BY <1>2, <3>2
        <4> HIDE DEF pair
        <4> QED BY <1>1, <4>1, <4>2, EntryType DEF OwnerInv, OwnerTypeOK
      <3> QED BY <3>1, <3>2 DEF IssueOIDevID, CaFails
    <2> QED BY <2>1, <2>2 DEF OwnerInv, OwnerTypeOK, IssueOIDevID, CaFails,
               Goto, Return, Stage, Result
  <1>4. IndexOK'
    <2>1. /\ req' = req /\ idx' = idx /\ pc[s] = "oidevid"
          /\ \E stage \in {"oiak", "done"} : pc' = [pc EXCEPT ![s] = stage]
      BY DEF IssueOIDevID, CaFails, Goto, Return
    <2> QED BY <2>1, IndexKept DEF OwnerInv, OwnerTypeOK, IndexOK
  <1>5. OiakComplete'
    BY DEF OwnerInv, OwnerTypeOK, OiakComplete, IssueOIDevID, CaFails,
       Goto, Return, Stage
  <1> QED BY <1>3, <1>4, <1>5 DEF OwnerInv

\* A round of the issuing loop ends with an oIAK for the selection at hand, so
\* that all selections have one when the loop is over.
LEMMA IssueOIakInv ==
    ASSUME OwnerInv, NEW s \in Session, IssueOIak(s)
    PROVE  OwnerInv'
  <1> DEFINE d    == data[s][idx[s]]
             cert == NewCert(s, "oiak", d.id, d.iak)
             pair == [updates[s][idx[s]] EXCEPT !.oiak = cert]
  <1>1. /\ idx[s] \in Position /\ d \in CardData /\ Complete(d)
        /\ updates[s][idx[s]] \in CertPair
    BY DEF OwnerInv, OwnerTypeOK, OiakComplete, IssueOIak
  <1>2. cert \in Cert /\ pair \in CertPair
    <2>1. d.id \in CardId /\ d.iak \in Card
      BY <1>1 DEF CardData, Complete
    <2>2. cert \in Cert
      BY <2>1, NewCertType
    <2> HIDE DEF cert
    <2> QED BY <1>1, <2>2 DEF CertPair
  <1>3. NextIdx(s) \in Position /\ NextIdx(s) <= Count(s)
    BY NextIdxInRange DEF IssueOIak
  <1>4. OwnerTypeOK'
    <2>1. issued' \subseteq Cert
      <3> HIDE DEF cert
      <3> QED BY <1>2 DEF OwnerInv, OwnerTypeOK, IssueOIak, CaFails, cert
    <2>2. updates' \in [Session -> [Position -> CertPair]]
      <3>1. CASE updates' = updates
        BY <3>1 DEF OwnerInv, OwnerTypeOK
      <3>2. CASE updates' = [updates EXCEPT ![s][idx[s]].oiak = cert]
        <4>1. updates' = [updates EXCEPT ![s][idx[s]] = pair]
          BY <3>2
        <4> HIDE DEF pair
        <4> QED BY <1>1, <1>2, <4>1, EntryType DEF OwnerInv, OwnerTypeOK
      <3> QED BY <3>1, <3>2 DEF IssueOIak, CaFails
    <2>3. idx' \in [Session -> Position]
      BY <1>3 DEF OwnerInv, OwnerTypeOK, IssueOIak, CaFails
    <2> QED BY <2>1, <2>2, <2>3 DEF OwnerInv, OwnerTypeOK, IssueOIak, CaFails,
               Goto, Return, Stage, Result
  <1>5. IndexOK'
    <2>1. /\ req' = req /\ pc[s] = "oiak"
          /\ \E stage \in {"oidevid", "rotate", "done"} :
                pc' = [pc EXCEPT ![s] = stage]
          /\ pc'[s] # "done" => idx'[s] = NextIdx(s)
          /\ \A t \in Session \ {s} : idx'[t] = idx[t]
      BY DEF OwnerInv, OwnerTypeOK, IssueOIak, CaFails, Goto, Return
    <2> QED BY <1>3, <2>1, IndexKept DEF OwnerInv, OwnerTypeOK
  <1>6. OiakComplete'
    BY DEF OwnerInv, OwnerTypeOK, OiakComplete, IssueOIak, CaFails, Goto,
       Return, Stage
  <1> QED BY <1>4, <1>5, <1>6 DEF OwnerInv

\* The later one of at most two updates.
LEMMA MaxIn ==
    ASSUME NEW I \in SUBSET Position, I # {}
    PROVE  Max(I) \in I
  <1>1. \E i \in I : \A j \in I : i >= j
    <2> I \subseteq {1, 2}
      BY DEF Position
    <2>1. CASE 2 \in I
      <3>1. \A j \in I : 2 >= j
        OBVIOUS
      <3> QED BY <2>1, <3>1
    <2>2. CASE 2 \notin I
      <3>1. I = {1}
        BY <2>2
      <3>2. \A j \in I : 1 >= j
        BY <3>1
      <3> QED BY <3>1, <3>2
    <2> QED BY <2>1, <2>2
  <1> QED BY <1>1 DEF Max

\* A card's storage after an update is the old entry, or the new one, each
\* certificate for itself.
LEMMA InstallEffect ==
    ASSUME OwnerInv, NEW s \in Session, NEW P \in SUBSET Position,
           Install(s, P), NEW c \in Card
    PROVE  \/ installed'[c] = installed[c]
           \/ \E i \in P :
                 /\ Fits(c, updates[s][i])
                 /\ installed'[c] = Store(installed[c], updates[s][i])
  <1>1. CASE For(s, P, c) = {}
    BY <1>1 DEF Install
  <1>2. CASE For(s, P, c) # {}
    <2> DEFINE i == Max(For(s, P, c))
    <2>1. For(s, P, c) \in SUBSET Position
      BY DEF For
    <2>2. i \in For(s, P, c)
      BY <1>2, <2>1, MaxIn
    <2>3. i \in P /\ Resolve(req[s].sels[i]) = c
      BY <2>2 DEF For
    <2>4. installed'[c] = Store(installed[c], updates[s][i])
      BY <1>2 DEF Install
    <2> HIDE DEF i
    <2> QED BY <2>3, <2>4 DEF Install
  <1> QED BY <1>1, <1>2

\* RotateOIakCert stores well-formed pairs and records accepted positions.
LEMMA InstallType ==
    ASSUME OwnerInv, NEW s \in Session, NEW P \in SUBSET Position,
           Install(s, P)
    PROVE  /\ installed' \in [Card -> CertPair]
           /\ accepted' \subseteq Session \X Position \X Card
  <1>1. ASSUME NEW c \in Card PROVE installed'[c] \in CertPair
    <2>1. installed[c] \in CertPair
          /\ \A i \in Position : updates[s][i] \in CertPair
      BY DEF OwnerInv, OwnerTypeOK
    <2>2. \A new \in CertPair : Store(installed[c], new) \in CertPair
      BY <2>1 DEF Store, CertPair
    <2> QED BY <2>1, <2>2, InstallEffect
  <1>2. \A i \in P : Resolve(req[s].sels[i]) \in Card
    BY DEF Install, Fits
  <1>3. accepted' \subseteq Session \X Position \X Card
    BY <1>2 DEF Install, OwnerInv, OwnerTypeOK
  <1> QED BY <1>1, <1>3 DEF Install

\* Every outcome of a RotateOIakCert call keeps the invariant.
LEMMA RotateAllInv ==
    ASSUME OwnerInv, NEW s \in Session, RotateAll(s)
    PROVE  OwnerInv'
  <1>1. Positions(s) \in SUBSET Position
    BY DEF OwnerInv, IndexOK, RotateAll, Positions, Position
  <1>2. /\ installed' \in [Card -> CertPair]
        /\ accepted' \subseteq Session \X Position \X Card
    <2>1. CASE Install(s, Positions(s))
      BY <1>1, <2>1, InstallType
    <2>2. CASE UNCHANGED <<installed, accepted>>
      BY <2>2 DEF OwnerInv, OwnerTypeOK
    <2> QED BY <2>1, <2>2 DEF RotateAll, RotateCall
  <1>3. /\ UNCHANGED <<req, idx, data, updates, issued, seat>>
        /\ pc[s] = "rotate" /\ pc' = [pc EXCEPT ![s] = "done"]
        /\ \E r \in Result : result' = [result EXCEPT ![s] = r]
    BY DEF RotateAll, RotateCall, Return, Result
  <1>4. OwnerTypeOK'
    BY <1>2, <1>3 DEF OwnerInv, OwnerTypeOK, Stage
  <1>5. IndexOK'
    BY <1>3, IndexKept DEF OwnerInv, OwnerTypeOK
  <1>6. OiakComplete'
    BY <1>3 DEF OwnerInv, OwnerTypeOK, OiakComplete
  <1> QED BY <1>4, <1>5, <1>6 DEF OwnerInv

\* The same for the loop that updates the cards one by one.
LEMMA RotateOneInv ==
    ASSUME OwnerInv, NEW s \in Session, RotateOne(s)
    PROVE  OwnerInv'
  <1>1. idx[s] \in Position
    BY DEF OwnerInv, OwnerTypeOK
  <1>2. /\ installed' \in [Card -> CertPair]
        /\ accepted' \subseteq Session \X Position \X Card
    <2>1. CASE Install(s, {idx[s]})
      BY <1>1, <2>1, InstallType
    <2>2. CASE UNCHANGED <<installed, accepted>>
      BY <2>2 DEF OwnerInv, OwnerTypeOK
    <2> QED BY <2>1, <2>2 DEF RotateOne, RotateCall
  <1>3. /\ UNCHANGED <<req, data, updates, issued, seat>>
        /\ pc[s] = "rotate"
        /\ \/ /\ pc' = [pc EXCEPT ![s] = "done"]
              /\ \E r \in Result : result' = [result EXCEPT ![s] = r]
              /\ idx' = idx
           \/ /\ UNCHANGED <<pc, result>>
              /\ idx' = [idx EXCEPT ![s] = NextIdx(s)]
    BY DEF RotateOne, RotateCall, Return, Result
  <1>4. NextIdx(s) \in Position /\ NextIdx(s) <= Count(s)
    BY <1>3, NextIdxInRange
  <1>5. OwnerTypeOK'
    <2>1. idx' \in [Session -> Position]
      BY <1>3, <1>4 DEF OwnerInv, OwnerTypeOK
    <2>2. pc \in [Session -> Stage] /\ result \in [Session -> Result]
      BY DEF OwnerInv, OwnerTypeOK
    <2>3. "done" \in Stage
      BY DEF Stage
    <2>4. CASE UNCHANGED <<pc, result>>
      BY <1>2, <1>3, <2>1, <2>4 DEF OwnerInv, OwnerTypeOK
    <2>5. CASE pc' = [pc EXCEPT ![s] = "done"]
               /\ \E r \in Result : result' = [result EXCEPT ![s] = r]
      <3>1. pc' \in [Session -> Stage]
        BY <2>2, <2>3, <2>5
      <3>2. result' \in [Session -> Result]
        BY <2>2, <2>5
      <3> QED BY <1>2, <1>3, <2>1, <3>1, <3>2 DEF OwnerInv, OwnerTypeOK
    <2> QED BY <1>3, <2>4, <2>5
  <1>6. IndexOK'
    <2>1. /\ pc'[s] # "done" => idx'[s] = NextIdx(s)
          /\ pc'[s] \notin {"new", "agree"}
          /\ \A t \in Session \ {s} : pc'[t] = pc[t] /\ idx'[t] = idx[t]
      BY <1>3 DEF OwnerInv, OwnerTypeOK
    <2> QED BY <1>3, <1>4, <2>1, IndexKept
  <1>7. OiakComplete'
    BY <1>3 DEF OwnerInv, OwnerTypeOK, OiakComplete
  <1> QED BY <1>5, <1>6, <1>7 DEF OwnerInv

\* Every step of issueAndRotateOwnerCerts keeps the shared invariant.
LEMMA IssueAndRotateInv ==
    ASSUME OwnerInv, NEW s \in Session, IssueAndRotate(s)
    PROVE  OwnerInv'
  BY IssueOIDevIDInv, IssueOIakInv, RotateAllInv, RotateOneInv
     DEF IssueAndRotate

\* What happens to the switch leaves the sessions and the cards' storage alone.
LEMMA DeviceInv ==
    ASSUME OwnerInv, Device
    PROVE  OwnerInv'
  <1>1. UNCHANGED <<pc, result, req, idx, data, updates, issued, installed,
                    accepted>>
    BY DEF Device, Switchover, HotSwap, sessionVars
  <1>2. seat' \in [Role -> Card \cup {NoCard}]
    BY DEF OwnerInv, OwnerTypeOK, Device, Switchover, HotSwap, Role
  <1>3. OwnerTypeOK'
    BY <1>1, <1>2 DEF OwnerInv, OwnerTypeOK
  <1>4. IndexOK'
    BY <1>1 DEF OwnerInv, IndexOK, Count
  <1>5. OiakComplete'
    BY <1>1 DEF OwnerInv, OiakComplete
  <1> QED BY <1>3, <1>4, <1>5 DEF OwnerInv

-----------------------------------------------------------------------------
(* How far a session gets.                                                 *)

AtCa       == {"oidevid", "oiak"}
AfterAgree == AtCa \cup {"rotate"}

\* A session has a result when it is done; certificates exist only from the
\* issuing loop on, accepted updates only from the first RotateOIakCert call.
Reach(s) ==
    /\ pc[s] = "done" <=> result[s] # "none"
    /\ IssuedBy(s) # {} =>
          \/ pc[s] \in AfterAgree
          \/ result[s] \in {"ok", "ErrEmptyField", "ErrFailedToIssueOwnerCert",
                            "ErrRotateOIakCert"}
    /\ Accepted(s) # {} => \/ pc[s] = "rotate"
                           \/ result[s] \in {"ok", "ErrRotateOIakCert"}

\* The updates taken so far: none or all where the calls are atomic, those of
\* the cards before the index where they are not.
Taken(s) ==
    /\ pc[s] = "rotate" =>
          Accepted(s) = IF data[s][1].atomic THEN {}
                        ELSE {i \in Position : i < idx[s]}
    /\ result[s] = "ok" => Accepted(s) = Positions(s)
    /\ \/ Accepted(s) = {}
       \/ Accepted(s) = Positions(s)
       \/ ~data[s][1].atomic /\ Accepted(s) = {1}

\* The certificate at one place of an update.
At(s, i, type) == IF type = "oiak" THEN updates[s][i].oiak
                                   ELSE updates[s][i].oidevid

\* The issuing loop has not come to this place yet.
Ahead(s, i, type) ==
    \/ pc[s] = "oidevid" /\ i >= idx[s]
    \/ pc[s] = "oiak" /\ i > idx[s]
    \/ pc[s] = "oiak" /\ i = idx[s] /\ type = "oiak"

\* Before an error no certificate of a session is lost: each is in the update
\* it was issued for.
Spent(s) ==
    pc[s] \in AfterAgree \/ result[s] = "ok" =>
        \A cert \in IssuedBy(s) :
            /\ cert.pos \in Positions(s)
            /\ ~Ahead(s, cert.pos, cert.type)
            /\ At(s, cert.pos, cert.type) = cert

\* The certificates a session is to get for a selection.
Wanted(s, i, type) ==
    type = "oiak" \/ (~req[s].skip /\ data[s][i].idevid # NoCard)

\* And it has been issued what its selections behind the index want.
Paid(s) ==
    pc[s] \in AfterAgree \/ result[s] = "ok" =>
        \A i \in Positions(s) : \A type \in {"oiak", "oidevid"} :
            Wanted(s, i, type) /\ ~Ahead(s, i, type) =>
                /\ At(s, i, type) \in IssuedBy(s)
                /\ At(s, i, type).pos = i
                /\ At(s, i, type).type = type

\* An update is taken by the card its keys are of.
TakenByOwner(s) ==
    \A i \in Position, c \in Card :
        <<s, i, c>> \in accepted => Fits(c, updates[s][i])

AsksForBoth(s) == Role \subseteq {req[s].sels[i] : i \in Positions(s)}

\* An atomic session that asked for both roles has updated two cards.
BothTaken(s) ==
    result[s] = "ok" /\ data[s][1].atomic /\ AsksForBoth(s) =>
        \E c, d \in Card : c # d /\ EnrolledBy(s) = {c, d}

Delivery(s) ==
    /\ Reach(s) /\ Taken(s)
    /\ Spent(s) /\ Paid(s)
    /\ TakenByOwner(s) /\ BothTaken(s)

\* A card sits in one slot.
TwoSeats == seat["active"] \in Card /\ seat["standby"] # seat["active"]

DeliveryInv == TwoSeats /\ \A s \in Session : Delivery(s)

-----------------------------------------------------------------------------

\* A session without certificates and accepted updates, as all are before the
\* issuing loop and some when they return an error.
LEMMA NothingDelivered ==
    ASSUME NEW s \in Session, IssuedBy(s) = {}, Accepted(s) = {},
           pc[s] \in AfterAgree => pc[s] = "oidevid" /\ idx[s] = 1,
           result[s] # "ok", pc[s] = "done" <=> result[s] # "none"
    PROVE  Delivery(s)
  <1>1. TakenByOwner(s)
    BY DEF TakenByOwner, Accepted
  <1>2. pc[s] # "rotate"
    BY DEF AfterAgree
  <1>3. Paid(s)
    <2>1. \A i \in Positions(s) : i >= 1
      BY DEF Positions
    <2> QED BY <2>1 DEF Paid, Ahead
  <1> QED BY <1>1, <1>2, <1>3 DEF Delivery, Reach, Taken, Spent, BothTaken

\* Nothing is issued or accepted before the first call.
LEMMA DeliveryInitInv == OwnerInit => DeliveryInv
  <1> SUFFICES ASSUME OwnerInit PROVE DeliveryInv
    OBVIOUS
  <1>1. TwoSeats
    BY DEF OwnerInit, TwoSeats
  <1>2. ASSUME NEW s \in Session PROVE Delivery(s)
    <2>1. /\ pc[s] = "new" /\ result[s] = "none"
          /\ IssuedBy(s) = {} /\ Accepted(s) = {}
      BY DEF OwnerInit, IssuedBy, Accepted
    <2> QED BY <2>1, NothingDelivered DEF AfterAgree, AtCa
  <1> QED BY <1>1, <1>2 DEF DeliveryInv

\* A step of another session, or of the switch, that leaves a session's own
\* state, its certificates and its accepted updates alone.
LEMMA DeliverySame ==
    ASSUME NEW t \in Session, Delivery(t),
           pc'[t] = pc[t], result'[t] = result[t], req'[t] = req[t],
           idx'[t] = idx[t], data'[t] = data[t], updates'[t] = updates[t],
           IssuedBy(t)' = IssuedBy(t),
           \A i \in Position, c \in Card :
               <<t, i, c>> \in accepted' <=> <<t, i, c>> \in accepted
    PROVE  Delivery(t)'
  <1>1. Positions(t)' = Positions(t) /\ AsksForBoth(t)' = AsksForBoth(t)
    BY DEF Positions, Count, AsksForBoth
  <1>2. Accepted(t)' = Accepted(t) /\ EnrolledBy(t)' = EnrolledBy(t)
    BY DEF Accepted, EnrolledBy
  <1>3. Reach(t)' /\ Taken(t)' /\ BothTaken(t)'
    BY <1>1, <1>2 DEF Delivery, Reach, Taken, BothTaken
  <1>4. \A i, type : At(t, i, type)' = At(t, i, type)
                     /\ (Ahead(t, i, type)' <=> Ahead(t, i, type))
    BY DEF At, Ahead
  <1>5. Spent(t)' /\ Paid(t)'
    BY <1>1, <1>4 DEF Delivery, Spent, Paid, Wanted
  <1>6. TakenByOwner(t)'
    BY DEF Delivery, TakenByOwner, Fits
  <1> QED BY <1>3, <1>5, <1>6 DEF Delivery

\* The steps that start a session and verify its cards.
LEMMA EarlyDelivery ==
    ASSUME OwnerInv, DeliveryInv, NEW s \in Session,
           pc[s] \notin AfterAgree \cup {"done"},
           UNCHANGED <<updates, issued, accepted, seat>>,
           pc'[s] \in AfterAgree => pc'[s] = "oidevid" /\ idx'[s] = 1,
           result'[s] # "ok", pc'[s] = "done" <=> result'[s] # "none",
           \A t \in Session \ {s} :
               /\ pc'[t] = pc[t] /\ result'[t] = result[t] /\ req'[t] = req[t]
               /\ idx'[t] = idx[t] /\ data'[t] = data[t]
    PROVE  DeliveryInv'
  <1>1. TwoSeats'
    BY DEF DeliveryInv, TwoSeats
  <1>2. IssuedBy(s)' = {} /\ Accepted(s)' = {}
    <2>1. result[s] = "none"
      BY DEF DeliveryInv, Delivery, Reach
    <2>2. IssuedBy(s) = {} /\ Accepted(s) = {}
      BY <2>1 DEF DeliveryInv, Delivery, Reach, AfterAgree
    <2> QED BY <2>2 DEF IssuedBy, Accepted
  <1>3. Delivery(s)'
    <2>1. \A i \in Positions(s)' : i >= 1
      BY DEF Positions
    <2>2. pc'[s] # "rotate"
      BY DEF AfterAgree
    <2> QED BY <1>2, <2>1, <2>2 DEF Delivery, Reach, Taken, Spent, Paid, BothTaken,
               TakenByOwner, Accepted, Ahead
  <1>4. ASSUME NEW t \in Session, t # s PROVE Delivery(t)'
    <2>1. IssuedBy(t)' = IssuedBy(t)
      BY DEF IssuedBy
    <2> QED BY <1>4, <2>1, DeliverySame DEF DeliveryInv
  <1> QED BY <1>1, <1>3, <1>4 DEF DeliveryInv

-----------------------------------------------------------------------------
(* The issuing loop.                                                       *)

\* A step of the issuing loop that loses no certificate before an error.
LEMMA CaStep ==
    ASSUME OwnerInv, DeliveryInv, NEW s \in Session, pc[s] \in AtCa,
           UNCHANGED <<req, data, seat, accepted>>,
           pc'[s] \in AfterAgree \cup {"done"},
           pc'[s] = "rotate" => idx'[s] = 1,
           IF pc'[s] = "done"
           THEN result'[s] \in {"ErrEmptyField", "ErrFailedToIssueOwnerCert"}
           ELSE result'[s] = "none",
           Spent(s)', Paid(s)',
           \A t \in Session \ {s} :
               /\ pc'[t] = pc[t] /\ result'[t] = result[t]
               /\ idx'[t] = idx[t] /\ updates'[t] = updates[t]
               /\ IssuedBy(t)' = IssuedBy(t)
    PROVE  DeliveryInv'
  <1>1. TwoSeats'
    BY DEF DeliveryInv, TwoSeats
  <1>2. Accepted(s) = {}
    BY DEF DeliveryInv, Delivery, Reach, AtCa
  <1>3. Accepted(s)' = {}
    BY <1>2 DEF Accepted
  <1>4. Reach(s)'
    BY <1>3 DEF Reach, AfterAgree, AtCa
  <1>5. Taken(s)'
    <2>1. {i \in Position : i < 1} = {}
      BY DEF Position
    <2>2. result'[s] # "ok"
      OBVIOUS
    <2> QED BY <1>3, <2>1, <2>2 DEF Taken
  <1>6. TakenByOwner(s)' /\ BothTaken(s)'
    BY <1>3 DEF TakenByOwner, BothTaken, Accepted
  <1>7. ASSUME NEW t \in Session, t # s PROVE Delivery(t)'
    BY <1>7, DeliverySame DEF DeliveryInv
  <1> QED BY <1>1, <1>4, <1>5, <1>6, <1>7 DEF DeliveryInv, Delivery

\* A selection at hand is one of the request's.
LEMMA IdxInPositions ==
    ASSUME OwnerInv, NEW s \in Session, pc[s] \notin {"new", "done"}
    PROVE  idx[s] \in Positions(s) /\ Positions(s) \subseteq Position
  <1>1. idx[s] \in 1..2 /\ Count(s) \in 1..2 /\ idx[s] <= Count(s)
    BY DEF OwnerInv, OwnerTypeOK, IndexOK, Position
  <1> QED BY <1>1 DEF Positions, Position

\* An oIDevID is put where no certificate has been.
LEMMA IssueOIDevIDDelivery ==
    ASSUME OwnerInv, DeliveryInv, NEW s \in Session, IssueOIDevID(s)
    PROVE  DeliveryInv'
  <1> DEFINE cert == NewCert(s, "oidevid", data[s][idx[s]].id, data[s][idx[s]].idevid)
  <1>1. /\ pc[s] = "oidevid" /\ idx' = idx
        /\ UNCHANGED <<req, data, seat, accepted>>
        /\ \/ /\ pc' = [pc EXCEPT ![s] = "done"]
              /\ \E r \in {"ErrEmptyField", "ErrFailedToIssueOwnerCert"} :
                    result' = [result EXCEPT ![s] = r]
              /\ updates' = updates
              /\ issued' = issued \/ issued' = issued \cup {cert}
           \/ /\ pc' = [pc EXCEPT ![s] = "oiak"] /\ result' = result
              /\ \/ UNCHANGED <<updates, issued>> /\ SkipsOIDevID(s)
                 \/ /\ issued' = issued \cup {cert}
                    /\ updates' = [updates EXCEPT ![s][idx[s]].oidevid = cert]
    BY DEF IssueOIDevID, CaFails, Goto, Return
  <1>2. cert.session = s /\ cert.pos = idx[s] /\ cert.type = "oidevid"
    BY DEF NewCert
  <1> HIDE DEF cert
  <1>3. idx[s] \in Positions(s) /\ Positions(s) \subseteq 1..2 /\ idx[s] \in 1..2
    BY <1>1, IdxInPositions DEF Position
  <1>4. Positions(s)' = Positions(s)
    BY <1>1 DEF Positions, Count
  <1>5. result[s] = "none"
    BY <1>1 DEF DeliveryInv, Delivery, Reach
  <1>6. \A t \in Session \ {s} :
          /\ pc'[t] = pc[t] /\ result'[t] = result[t] /\ idx'[t] = idx[t]
          /\ updates'[t] = updates[t] /\ IssuedBy(t)' = IssuedBy(t)
    <2>1. \A t \in Session \ {s} : IssuedBy(t)' = IssuedBy(t)
      BY <1>1, <1>2 DEF IssuedBy
    <2> QED BY <1>1, <2>1 DEF OwnerInv, OwnerTypeOK
  <1>7. CASE pc' = [pc EXCEPT ![s] = "done"]
    <2>1. pc'[s] = "done"
          /\ result'[s] \in {"ErrEmptyField", "ErrFailedToIssueOwnerCert"}
      BY <1>1, <1>7 DEF OwnerInv, OwnerTypeOK
    <2>2. Spent(s)' /\ Paid(s)'
      BY <2>1 DEF Spent, Paid, AfterAgree, AtCa
    <2> QED BY <1>1, <1>6, <2>1, <2>2, CaStep DEF AtCa
  <1>8. CASE /\ pc' = [pc EXCEPT ![s] = "oiak"] /\ result' = result
             /\ \/ UNCHANGED <<updates, issued>> /\ SkipsOIDevID(s)
                \/ /\ issued' = issued \cup {cert}
                   /\ updates' = [updates EXCEPT ![s][idx[s]].oidevid = cert]
    <2>1. pc'[s] = "oiak"
      BY <1>8 DEF OwnerInv, OwnerTypeOK
    <2>2. \A old \in IssuedBy(s) :
            /\ old.pos \in Positions(s) /\ old.pos < idx[s]
            /\ At(s, old.pos, old.type) = old
      BY <1>1, <1>3 DEF DeliveryInv, Delivery, Spent, Ahead, AfterAgree, AtCa
    <2>3. \A i \in Position \ {idx[s]} : \A type : At(s, i, type)' = At(s, i, type)
      BY <1>8 DEF At, OwnerInv, OwnerTypeOK
    <2>4. ASSUME NEW new \in IssuedBy(s)'
          PROVE  /\ new.pos \in Positions(s)' /\ ~Ahead(s, new.pos, new.type)'
                 /\ At(s, new.pos, new.type)' = new
      <3>1. CASE new \in IssuedBy(s)
        <4>1. new.pos # idx[s] /\ ~(new.pos > idx[s]) /\ new.pos \in Position
          BY <1>3, <2>2, <3>1 DEF Position
        <4>2. At(s, new.pos, new.type)' = new
          BY <2>2, <2>3, <3>1, <4>1
        <4> QED BY <1>1, <1>4, <2>1, <2>2, <3>1, <4>1, <4>2 DEF Ahead
      <3>2. CASE new \notin IssuedBy(s)
        <4>1. new = cert /\ updates' = [updates EXCEPT ![s][idx[s]].oidevid = cert]
          BY <1>8, <3>2 DEF IssuedBy
        <4>2. At(s, idx[s], "oidevid")' = cert
          BY <1>1, <1>3, <4>1 DEF At, OwnerInv, OwnerTypeOK, CertPair, Position
        <4>3. ~(idx[s] > idx[s])
          BY <1>3
        <4> QED BY <1>1, <1>2, <1>3, <1>4, <2>1, <4>1, <4>2, <4>3 DEF Ahead
      <3> QED BY <3>1, <3>2
    <2>5. Spent(s)'
      BY <2>4 DEF Spent
    <2>6. ASSUME NEW i \in Positions(s), NEW type \in {"oiak", "oidevid"},
                 Wanted(s, i, type)', ~Ahead(s, i, type)'
          PROVE  /\ At(s, i, type)' \in IssuedBy(s)'
                 /\ At(s, i, type).pos' = i /\ At(s, i, type).type' = type
      <3>1. i < idx[s] \/ (i = idx[s] /\ type = "oidevid")
        BY <1>1, <1>3, <2>1, <2>6 DEF Ahead
      <3>2. CASE i < idx[s]
        <4>1. ~Ahead(s, i, type) /\ Wanted(s, i, type) /\ i \in Position \ {idx[s]}
          BY <1>1, <1>3, <2>6, <3>2 DEF Ahead, Wanted, Position
        <4>2. /\ At(s, i, type) \in IssuedBy(s)
              /\ At(s, i, type).pos = i /\ At(s, i, type).type = type
          BY <1>1, <4>1 DEF DeliveryInv, Delivery, Paid, AfterAgree, AtCa
        <4>3. At(s, i, type)' = At(s, i, type)
          BY <2>3, <4>1
        <4>4. IssuedBy(s) \subseteq IssuedBy(s)'
          BY <1>8 DEF IssuedBy
        <4> QED BY <4>2, <4>3, <4>4
      <3>3. CASE i = idx[s] /\ type = "oidevid"
        <4>1. ~SkipsOIDevID(s)
          BY <1>1, <2>6, <3>3 DEF Wanted, SkipsOIDevID
        <4>2. issued' = issued \cup {cert}
              /\ updates' = [updates EXCEPT ![s][idx[s]].oidevid = cert]
          BY <1>8, <4>1
        <4>3. At(s, i, type)' = cert
          BY <1>1, <1>3, <3>3, <4>2 DEF At, OwnerInv, OwnerTypeOK, CertPair, Position
        <4> QED BY <1>2, <3>3, <4>2, <4>3 DEF IssuedBy
      <3> QED BY <3>1, <3>2, <3>3
    <2>7. Paid(s)'
      BY <1>4, <2>6 DEF Paid
    <2> QED BY <1>1, <1>5, <1>6, <1>8, <2>1, <2>5, <2>7, CaStep DEF AtCa, AfterAgree
  <1> QED BY <1>1, <1>7, <1>8

\* An oIAK is put where no certificate has been, and ends the round.
LEMMA IssueOIakDelivery ==
    ASSUME OwnerInv, DeliveryInv, NEW s \in Session, IssueOIak(s)
    PROVE  DeliveryInv'
  <1> DEFINE cert == NewCert(s, "oiak", data[s][idx[s]].id, data[s][idx[s]].iak)
  <1>1. /\ pc[s] = "oiak"
        /\ UNCHANGED <<req, data, seat, accepted>>
        /\ \/ /\ pc' = [pc EXCEPT ![s] = "done"]
              /\ result' = [result EXCEPT ![s] = "ErrFailedToIssueOwnerCert"]
              /\ UNCHANGED <<updates, idx>>
              /\ issued' = issued \/ issued' = issued \cup {cert}
           \/ /\ pc' = [pc EXCEPT ![s] = IF Last(s) THEN "rotate" ELSE "oidevid"]
              /\ idx' = [idx EXCEPT ![s] = NextIdx(s)]
              /\ result' = result
              /\ issued' = issued \cup {cert}
              /\ updates' = [updates EXCEPT ![s][idx[s]].oiak = cert]
    BY DEF IssueOIak, CaFails, Goto, Return
  <1>2. cert.session = s /\ cert.pos = idx[s] /\ cert.type = "oiak"
    BY DEF NewCert
  <1> HIDE DEF cert
  <1>3. idx[s] \in Positions(s) /\ Positions(s) \subseteq 1..2 /\ idx[s] \in 1..2
    BY <1>1, IdxInPositions DEF Position
  <1>4. Positions(s)' = Positions(s)
    BY <1>1 DEF Positions, Count
  <1>5. result[s] = "none"
    BY <1>1 DEF DeliveryInv, Delivery, Reach
  <1>6. \A t \in Session \ {s} :
          /\ pc'[t] = pc[t] /\ result'[t] = result[t] /\ idx'[t] = idx[t]
          /\ updates'[t] = updates[t] /\ IssuedBy(t)' = IssuedBy(t)
    <2>1. \A t \in Session \ {s} : IssuedBy(t)' = IssuedBy(t)
      BY <1>1, <1>2 DEF IssuedBy
    <2> QED BY <1>1, <2>1 DEF OwnerInv, OwnerTypeOK
  <1>7. CASE pc' = [pc EXCEPT ![s] = "done"]
             /\ result' = [result EXCEPT ![s] = "ErrFailedToIssueOwnerCert"]
    <2>1. pc'[s] = "done" /\ result'[s] = "ErrFailedToIssueOwnerCert"
      BY <1>7 DEF OwnerInv, OwnerTypeOK
    <2>2. Spent(s)' /\ Paid(s)'
      BY <2>1 DEF Spent, Paid, AfterAgree, AtCa
    <2> QED BY <1>1, <1>6, <2>1, <2>2, CaStep DEF AtCa
  <1>8. CASE /\ pc' = [pc EXCEPT ![s] = IF Last(s) THEN "rotate" ELSE "oidevid"]
             /\ idx' = [idx EXCEPT ![s] = NextIdx(s)]
             /\ result' = result
             /\ issued' = issued \cup {cert}
             /\ updates' = [updates EXCEPT ![s][idx[s]].oiak = cert]
    <2>1. IF Last(s) THEN pc'[s] = "rotate" /\ idx'[s] = 1
                     ELSE pc'[s] = "oidevid" /\ idx'[s] = idx[s] + 1
      BY <1>8 DEF OwnerInv, OwnerTypeOK, NextIdx
    <2>2. \A old \in IssuedBy(s) :
            /\ old.pos \in Positions(s) /\ ~(old.pos > idx[s])
            /\ ~(old.pos = idx[s] /\ old.type = "oiak")
            /\ At(s, old.pos, old.type) = old
      BY <1>1, <1>3 DEF DeliveryInv, Delivery, Spent, Ahead, AfterAgree, AtCa
    <2>3. \A i \in Position : \A type : i # idx[s] \/ type # "oiak" =>
            At(s, i, type)' = At(s, i, type)
      BY <1>8 DEF At, OwnerInv, OwnerTypeOK, CertPair
    <2>4. \A i \in Positions(s) : \A type : ~(i > idx[s]) => ~Ahead(s, i, type)'
      BY <1>3, <2>1 DEF Ahead
    <2>5. ASSUME NEW new \in IssuedBy(s)'
          PROVE  /\ new.pos \in Positions(s)' /\ ~Ahead(s, new.pos, new.type)'
                 /\ At(s, new.pos, new.type)' = new
      <3>1. CASE new \in IssuedBy(s)
        <4>1. new.pos \in Position
          BY <1>3, <2>2, <3>1 DEF Position
        <4> QED BY <1>4, <2>2, <2>3, <2>4, <3>1, <4>1
      <3>2. CASE new \notin IssuedBy(s)
        <4>1. new = cert
          BY <1>8, <3>2 DEF IssuedBy
        <4>2. At(s, new.pos, new.type)' = cert
          BY <1>2, <1>3, <1>8, <4>1 DEF At, OwnerInv, OwnerTypeOK, CertPair, Position
        <4>3. ~(idx[s] > idx[s])
          BY <1>3
        <4> QED BY <1>2, <1>3, <1>4, <2>4, <4>1, <4>2, <4>3
      <3> QED BY <3>1, <3>2
    <2>6. Spent(s)'
      BY <2>5 DEF Spent
    <2>7. ASSUME NEW i \in Positions(s), NEW type \in {"oiak", "oidevid"},
                 Wanted(s, i, type)', ~Ahead(s, i, type)'
          PROVE  /\ At(s, i, type)' \in IssuedBy(s)'
                 /\ At(s, i, type).pos' = i /\ At(s, i, type).type' = type
      <3>1. ~(i > idx[s]) /\ i \in Position
        BY <1>3, <2>1, <2>7 DEF Ahead, Last, Positions, Position
      <3>2. CASE i # idx[s] \/ type # "oiak"
        <4>1. ~Ahead(s, i, type) /\ Wanted(s, i, type)
          BY <1>1, <2>7, <3>1, <3>2 DEF Ahead, Wanted
        <4>2. /\ At(s, i, type) \in IssuedBy(s)
              /\ At(s, i, type).pos = i /\ At(s, i, type).type = type
          BY <1>1, <4>1 DEF DeliveryInv, Delivery, Paid, AfterAgree, AtCa
        <4>3. At(s, i, type)' = At(s, i, type)
          BY <2>3, <3>1, <3>2
        <4>4. IssuedBy(s) \subseteq IssuedBy(s)'
          BY <1>8 DEF IssuedBy
        <4> QED BY <4>2, <4>3, <4>4
      <3>3. CASE i = idx[s] /\ type = "oiak"
        <4>1. At(s, i, type)' = cert
          BY <1>3, <1>8, <3>3 DEF At, OwnerInv, OwnerTypeOK, CertPair, Position
        <4> QED BY <1>2, <1>8, <3>3, <4>1 DEF IssuedBy
      <3> QED BY <3>2, <3>3
    <2>8. Paid(s)'
      BY <1>4, <2>7 DEF Paid
    <2> QED BY <1>1, <1>5, <1>6, <1>8, <2>1, <2>6, <2>8, CaStep DEF AtCa, AfterAgree
  <1> QED BY <1>1, <1>7, <1>8

-----------------------------------------------------------------------------
(* RotateOIakCert.                                                         *)

\* What a call that is taken adds to the accepted updates.
LEMMA InstallAccepts ==
    ASSUME NEW s \in Session, NEW P \in SUBSET Position, Install(s, P)
    PROVE  /\ Accepted(s)' = Accepted(s) \cup P
           /\ \A i \in P : Fits(Resolve(req[s].sels[i]), updates[s][i])
           /\ \A t \in Session, i \in Position, c \in Card :
                <<t, i, c>> \in accepted' <=>
                    \/ <<t, i, c>> \in accepted
                    \/ t = s /\ i \in P /\ c = Resolve(req[s].sels[i])
  <1>1. \A i \in P : Fits(Resolve(req[s].sels[i]), updates[s][i])
    BY DEF Install
  <1>2. \A i \in P : Resolve(req[s].sels[i]) \in Card
    BY <1>1 DEF Fits
  <1>3. accepted' = accepted \cup {<<s, i, Resolve(req[s].sels[i])>> : i \in P}
    BY DEF Install
  <1>4. \A t \in Session, i \in Position, c \in Card :
            <<t, i, c>> \in accepted' <=>
                \/ <<t, i, c>> \in accepted
                \/ t = s /\ i \in P /\ c = Resolve(req[s].sels[i])
    BY <1>3
  <1>5. \A i \in Position :
            i \in Accepted(s)' <=> i \in Accepted(s) \/ i \in P
    BY <1>2, <1>4 DEF Accepted
  <1>6. Accepted(s)' \subseteq Position /\ Accepted(s) \subseteq Position
    BY DEF Accepted
  <1> QED BY <1>1, <1>4, <1>5, <1>6

\* A call of session s changes nothing for other sessions, and no certificate.
LEMMA RotateStep ==
    ASSUME OwnerInv, DeliveryInv, NEW s \in Session, pc[s] = "rotate",
           UNCHANGED <<req, data, updates, issued, seat>>,
           \/ pc'[s] = "rotate" /\ result'[s] = "none"
           \/ pc'[s] = "done" /\ result'[s] \in {"ok", "ErrRotateOIakCert"},
           \A t \in Session \ {s} :
               pc'[t] = pc[t] /\ result'[t] = result[t] /\ idx'[t] = idx[t],
           \/ accepted' = accepted
           \/ \E P \in SUBSET Position : Install(s, P),
           Taken(s)', BothTaken(s)'
    PROVE  DeliveryInv'
  <1>1. TwoSeats'
    BY DEF DeliveryInv, TwoSeats
  <1>2. \A t \in Session : /\ IssuedBy(t)' = IssuedBy(t)
                           /\ Positions(t)' = Positions(t)
    BY DEF IssuedBy, Positions, Count
  <1>3. Reach(s)'
    BY DEF Reach, AfterAgree
  <1>4. Spent(s)' /\ Paid(s)'
    <2>1. \A i, type : At(s, i, type)' = At(s, i, type) /\ (~Ahead(s, i, type) /\ ~Ahead(s, i, type)')
      BY DEF At, Ahead
    <2> QED BY <1>2, <2>1 DEF Spent, Paid, Wanted, DeliveryInv, Delivery, AfterAgree
  <1>5. TakenByOwner(s)'
    <2> SUFFICES ASSUME NEW i \in Position, NEW c \in Card, <<s, i, c>> \in accepted'
                 PROVE  Fits(c, updates[s][i])
      BY DEF TakenByOwner, Fits
    <2>1. CASE <<s, i, c>> \in accepted
      BY <2>1 DEF DeliveryInv, Delivery, TakenByOwner
    <2>2. CASE <<s, i, c>> \notin accepted
      BY <2>2, InstallAccepts
    <2> QED BY <2>1, <2>2
  <1>6. ASSUME NEW t \in Session, t # s PROVE Delivery(t)'
    <2>1. \A i \in Position, c \in Card :
            <<t, i, c>> \in accepted' <=> <<t, i, c>> \in accepted
      BY <1>6, InstallAccepts
    <2> QED BY <1>2, <1>6, <2>1, DeliverySame DEF DeliveryInv
  <1> QED BY <1>1, <1>3, <1>4, <1>5, <1>6 DEF DeliveryInv, Delivery

\* What holds of the updates of a session that is not to be finished ok.
LEMMA NotTaken ==
    ASSUME NEW s \in Session, accepted' = accepted, UNCHANGED <<req, data>>,
           \/ Accepted(s) = {}
           \/ ~data[s][1].atomic /\ Accepted(s) = {1},
           pc'[s] = "done", result'[s] # "ok"
    PROVE  Taken(s)' /\ BothTaken(s)'
  <1>1. Accepted(s)' = Accepted(s)
    BY DEF Accepted
  <1> QED BY <1>1 DEF Taken, BothTaken

\* One call takes the updates of all selections; the two roles are two cards at
\* that moment.
LEMMA RotateAllDelivery ==
    ASSUME OwnerInv, DeliveryInv, NEW s \in Session, RotateAll(s)
    PROVE  DeliveryInv'
  <1>1. /\ pc[s] = "rotate" /\ data[s][1].atomic
        /\ UNCHANGED <<req, idx, data, updates, issued, seat>>
        /\ pc' = [pc EXCEPT ![s] = "done"]
        /\ \/ /\ Install(s, Positions(s))
              /\ \E r \in {"ok", "ErrRotateOIakCert"} : result' = [result EXCEPT ![s] = r]
           \/ /\ accepted' = accepted
              /\ result' = [result EXCEPT ![s] = "ErrRotateOIakCert"]
    BY DEF RotateAll, RotateCall, Return
  <1>2. pc'[s] = "done" /\ result'[s] \in {"ok", "ErrRotateOIakCert"}
    BY <1>1 DEF OwnerInv, OwnerTypeOK
  <1>3. \A t \in Session \ {s} :
            pc'[t] = pc[t] /\ result'[t] = result[t] /\ idx'[t] = idx[t]
    BY <1>1 DEF OwnerInv, OwnerTypeOK
  <1>4. Accepted(s) = {}
    BY <1>1 DEF DeliveryInv, Delivery, Taken
  <1>5. Positions(s) \in SUBSET Position /\ Positions(s)' = Positions(s)
    BY <1>1, IdxInPositions DEF Positions, Count
  <1>6. CASE Install(s, Positions(s))
    <2>1. Accepted(s)' = Positions(s)'
      BY <1>4, <1>5, <1>6, InstallAccepts
    <2>2. Taken(s)'
      BY <1>2, <2>1 DEF Taken
    <2>3. BothTaken(s)'
      <3> DEFINE c == seat["active"]
                 d == seat["standby"]
      <3> SUFFICES ASSUME AsksForBoth(s)'
                   PROVE  /\ c \in Card /\ d \in Card /\ c # d
                          /\ EnrolledBy(s)' = {c, d}
        BY DEF BothTaken
      <3>1. PICK i \in Positions(s), j \in Positions(s) :
                req[s].sels[i] = "active" /\ req[s].sels[j] = "standby"
        BY <1>1, <1>5 DEF AsksForBoth, Role
      <3>2. i # j
        BY <3>1
      <3>3. Positions(s) = {i, j}
        BY <1>5, <3>1, <3>2 DEF Position, Positions
      <3>4. Resolve(req[s].sels[i]) = c /\ Resolve(req[s].sels[j]) = d
        BY <3>1 DEF Resolve, Role
      <3>5. c \in Card /\ d \in Card
        BY <1>5, <1>6, <3>1, <3>4, InstallAccepts DEF Fits
      <3>6. c # d
        BY DEF DeliveryInv, TwoSeats
      <3>7. \A k \in Position, e \in Card : <<s, k, e>> \notin accepted
        BY <1>4 DEF Accepted
      <3>8. \A k \in Position, e \in Card : <<s, k, e>> \in accepted' <=>
                (k = i /\ e = c) \/ (k = j /\ e = d)
        BY <1>5, <1>6, <3>3, <3>4, <3>7, InstallAccepts
      <3>9. i \in Position /\ j \in Position
        BY <1>5, <3>1
      <3>10. \A e \in Card : e \in EnrolledBy(s)' <=> e \in {c, d}
        BY <3>8, <3>9 DEF EnrolledBy
      <3> HIDE DEF c, d
      <3> QED BY <3>5, <3>6, <3>10 DEF EnrolledBy
    <2> QED BY <1>1, <1>2, <1>3, <1>5, <1>6, <2>2, <2>3, RotateStep
  <1>7. CASE accepted' = accepted /\ result' = [result EXCEPT ![s] = "ErrRotateOIakCert"]
    <2>1. result'[s] # "ok"
      BY <1>7 DEF OwnerInv, OwnerTypeOK
    <2>2. Taken(s)' /\ BothTaken(s)'
      BY <1>1, <1>2, <1>4, <1>7, <2>1, NotTaken
    <2> QED BY <1>1, <1>2, <1>3, <1>7, <2>2, RotateStep
  <1> QED BY <1>1, <1>6, <1>7

\* One call takes the update of the selection at hand, after those before it.
LEMMA RotateOneDelivery ==
    ASSUME OwnerInv, DeliveryInv, NEW s \in Session, RotateOne(s)
    PROVE  DeliveryInv'
  <1>1. /\ pc[s] = "rotate" /\ ~data[s][1].atomic
        /\ UNCHANGED <<req, data, updates, issued, seat>>
        /\ \/ /\ Install(s, {idx[s]})
              /\ \/ /\ Last(s) /\ pc' = [pc EXCEPT ![s] = "done"] /\ idx' = idx
                    /\ result' = [result EXCEPT ![s] = "ok"]
                 \/ /\ ~Last(s) /\ idx' = [idx EXCEPT ![s] = NextIdx(s)]
                    /\ UNCHANGED <<pc, result>>
                 \/ /\ pc' = [pc EXCEPT ![s] = "done"] /\ idx' = idx
                    /\ result' = [result EXCEPT ![s] = "ErrRotateOIakCert"]
           \/ /\ accepted' = accepted
              /\ pc' = [pc EXCEPT ![s] = "done"] /\ idx' = idx
              /\ result' = [result EXCEPT ![s] = "ErrRotateOIakCert"]
    BY DEF RotateOne, RotateCall, Return
  <1>2. result[s] = "none"
    BY <1>1 DEF DeliveryInv, Delivery, Reach
  <1>3. \A t \in Session \ {s} :
            pc'[t] = pc[t] /\ result'[t] = result[t] /\ idx'[t] = idx[t]
    BY <1>1 DEF OwnerInv, OwnerTypeOK
  <1>4. idx[s] \in 1..2 /\ Count(s) \in 1..2 /\ idx[s] <= Count(s)
    BY <1>1 DEF OwnerInv, OwnerTypeOK, IndexOK, Position
  <1>5. Accepted(s) = {i \in 1..2 : i < idx[s]} /\ Positions(s)' = 1..Count(s)
    BY <1>1 DEF DeliveryInv, Delivery, Taken, Position, Positions, Count
  <1>6. CASE Install(s, {idx[s]})
    <2>1. {idx[s]} \in SUBSET Position
      BY <1>4 DEF Position
    <2>2. Accepted(s)' = {i \in 1..2 : i <= idx[s]}
      <3>1. Accepted(s)' = {i \in 1..2 : i < idx[s]} \cup {idx[s]}
        BY <1>5, <1>6, <2>1, InstallAccepts
      <3> QED BY <1>4, <3>1
    <2>3. CASE /\ Last(s) /\ pc' = [pc EXCEPT ![s] = "done"] /\ idx' = idx
               /\ result' = [result EXCEPT ![s] = "ok"]
      <3>1. pc'[s] = "done" /\ result'[s] = "ok"
        BY <2>3 DEF OwnerInv, OwnerTypeOK
      <3>2. Accepted(s)' = Positions(s)'
        BY <1>4, <1>5, <2>2, <2>3 DEF Last
      <3>3. Taken(s)' /\ BothTaken(s)'
        BY <1>1, <3>1, <3>2 DEF Taken, BothTaken
      <3> QED BY <1>1, <1>3, <1>6, <2>1, <3>1, <3>3, RotateStep
    <2>4. CASE /\ ~Last(s) /\ idx' = [idx EXCEPT ![s] = NextIdx(s)]
               /\ UNCHANGED <<pc, result>>
      <3>1. /\ pc'[s] = "rotate" /\ result'[s] = "none"
            /\ idx'[s] = idx[s] + 1 /\ idx[s] = 1
        BY <1>1, <1>2, <1>4, <2>4 DEF OwnerInv, OwnerTypeOK, NextIdx, Last
      <3>2. Accepted(s)' = {1} /\ {i \in 1..2 : i < 2} = {1}
        BY <2>2, <3>1
      <3>3. Taken(s)' /\ BothTaken(s)'
        BY <1>1, <3>1, <3>2 DEF Taken, BothTaken, Position
      <3> QED BY <1>1, <1>3, <1>6, <2>1, <3>1, <3>3, RotateStep
    <2>5. CASE /\ pc' = [pc EXCEPT ![s] = "done"] /\ idx' = idx
               /\ result' = [result EXCEPT ![s] = "ErrRotateOIakCert"]
      <3>1. pc'[s] = "done" /\ result'[s] = "ErrRotateOIakCert"
        BY <2>5 DEF OwnerInv, OwnerTypeOK
      <3>2. Accepted(s)' = {1} \/ Accepted(s)' = Positions(s)'
        BY <1>4, <1>5, <2>2
      <3>3. Taken(s)' /\ BothTaken(s)'
        BY <1>1, <3>1, <3>2 DEF Taken, BothTaken
      <3> QED BY <1>1, <1>3, <1>6, <2>1, <3>1, <3>3, RotateStep
    <2> QED BY <1>1, <1>6, <2>3, <2>4, <2>5
  <1>7. CASE /\ accepted' = accepted
             /\ pc' = [pc EXCEPT ![s] = "done"] /\ idx' = idx
             /\ result' = [result EXCEPT ![s] = "ErrRotateOIakCert"]
    <2>1. pc'[s] = "done" /\ result'[s] = "ErrRotateOIakCert"
      BY <1>7 DEF OwnerInv, OwnerTypeOK
    <2>2. Accepted(s) = {} \/ Accepted(s) = {1}
      BY <1>4, <1>5
    <2>3. Taken(s)' /\ BothTaken(s)'
      BY <1>1, <1>7, <2>1, <2>2, NotTaken
    <2> QED BY <1>1, <1>3, <1>7, <2>1, <2>3, RotateStep
  <1> QED BY <1>1, <1>2, <1>6, <1>7

-----------------------------------------------------------------------------

\* Every step of issueAndRotateOwnerCerts.
LEMMA IssueAndRotateDelivery ==
    ASSUME OwnerInv, DeliveryInv, NEW s \in Session, IssueAndRotate(s)
    PROVE  DeliveryInv'
  BY IssueOIDevIDDelivery, IssueOIakDelivery, RotateAllDelivery, RotateOneDelivery
     DEF IssueAndRotate

\* A step in which no session and no accepted update changes.
LEMMA QuietDelivery ==
    ASSUME DeliveryInv, TwoSeats',
           UNCHANGED <<pc, result, req, idx, data, updates, issued, accepted>>
    PROVE  DeliveryInv'
  <1> SUFFICES ASSUME NEW t \in Session PROVE Delivery(t)'
    BY DEF DeliveryInv
  <1>1. IssuedBy(t)' = IssuedBy(t)
    BY DEF IssuedBy
  <1> QED BY <1>1, DeliverySame DEF DeliveryInv

\* Switchovers and replacements keep every card in one slot, and the active
\* slot occupied.
LEMMA DeviceDelivery ==
    ASSUME OwnerInv, DeliveryInv, Device
    PROVE  DeliveryInv'
  <1>1. UNCHANGED <<pc, result, req, idx, data, updates, issued, accepted>>
    BY DEF Device, Switchover, HotSwap, sessionVars
  <1>2. TwoSeats'
    BY DEF OwnerInv, OwnerTypeOK, DeliveryInv, TwoSeats, Device, Switchover, HotSwap,
       Role
  <1> QED BY <1>1, <1>2, QuietDelivery

\* Start is an early step.
LEMMA StartDelivery ==
    ASSUME OwnerInv, DeliveryInv, NEW s \in Session, NEW r \in Requests, Start(s, r)
    PROVE  DeliveryInv'
  <1>1. /\ pc[s] = "new" /\ result[s] = "none"
        /\ UNCHANGED <<idx, data, updates, issued, accepted, seat>>
        /\ req' = [req EXCEPT ![s] = r]
        /\ \/ pc' = [pc EXCEPT ![s] = "verify"] /\ result' = result
           \/ /\ pc' = [pc EXCEPT ![s] = "done"]
              /\ result' = [result EXCEPT ![s] = "ErrInvalidRequest"]
    BY DEF Start, Goto, Return, DeliveryInv, Delivery, Reach
  <1>2. /\ pc'[s] = "done" <=> result'[s] # "none"
        /\ pc'[s] \notin AfterAgree /\ result'[s] # "ok"
        /\ \A t \in Session \ {s} :
              /\ pc'[t] = pc[t] /\ result'[t] = result[t] /\ req'[t] = req[t]
              /\ idx'[t] = idx[t] /\ data'[t] = data[t]
    BY <1>1 DEF OwnerInv, OwnerTypeOK, AfterAgree, AtCa
  <1> QED BY <1>1, <1>2, EarlyDelivery DEF AfterAgree, AtCa

-----------------------------------------------------------------------------

\* A certificate of a session that succeeded is in its update, and the card of
\* its key has taken that update.
LEMMA SpentIsAccepted ==
    ASSUME OwnerInv, DeliveryInv, NEW s \in Session, result[s] = "ok",
           NEW cert \in IssuedBy(s)
    PROVE  /\ cert \in {updates[s][cert.pos].oiak, updates[s][cert.pos].oidevid}
           /\ <<s, cert.pos, cert.key>> \in accepted
  <1>1. cert.pos \in Positions(s) /\ At(s, cert.pos, cert.type) = cert
    BY DEF DeliveryInv, Delivery, Spent
  <1>2. cert.pos \in Accepted(s)
    BY <1>1 DEF DeliveryInv, Delivery, Taken
  <1>3. PICK c \in Card : <<s, cert.pos, c>> \in accepted
    BY <1>2 DEF Accepted
  <1>4. Fits(c, updates[s][cert.pos])
    BY <1>2, <1>3 DEF DeliveryInv, Delivery, TakenByOwner, Accepted
  <1>5. cert # NoCert
    BY CertAssumption DEF OwnerInv, OwnerTypeOK, IssuedBy
  <1> QED BY <1>1, <1>3, <1>4, <1>5 DEF At, Fits

\* Two different cards are two.
LEMMA PairCardinality ==
    ASSUME NEW c, NEW d, c # d
    PROVE  IsFiniteSet({c, d}) /\ Cardinality({c, d}) = 2
  <1>1. IsFiniteSet({c}) /\ Cardinality({c}) = 1
    BY FS_Singleton
  <1>2. {c, d} = {c} \cup {d} /\ d \notin {c}
    OBVIOUS
  <1> QED BY <1>1, <1>2, FS_AddElement

\* The cards of a successful atomic session for both roles.
LEMMA TwoCardsEnrolled ==
    ASSUME DeliveryInv, NEW s \in Session,
           result[s] = "ok", data[s][1].atomic, AsksForBoth(s)
    PROVE  Cardinality(EnrolledBy(s)) = 2
  <1>1. PICK c \in Card, d \in Card : c # d /\ EnrolledBy(s) = {c, d}
    BY DEF DeliveryInv, Delivery, BothTaken
  <1> QED BY <1>1, PairCardinality

-----------------------------------------------------------------------------
(* The steps of OwnerPromise, in terms of what a step of the code does to  *)
(* each session and card; then the steps of the code.                      *)

\* No other session than s moves.
OthersKeep(s) ==
    \A t \in Session \ {s} :
        PromiseStage(t)' = PromiseStage(t) /\ Together(t)' = Together(t)

SignaturesKept == \A t \in Session : SignedFor(t)' = SignedFor(t)
OwnersKept     == \A c \in Card : OwnerOf(c)' = OwnerOf(c)

\* The session returns.
Closes(s) == PromiseStage(s)' = "closed" /\ Together(s)' = FALSE

\* The session moves to a stage, or stays.
MovesTo(s, new) == PromiseStage(s)' = new /\ Together(s)' = Together(s)

\* What these say of the mapped functions.
LEMMA MappedSame ==
    ASSUME NEW s \in Session, OthersKeep(s), MovesTo(s, PromiseStage(s))
    PROVE  /\ [t \in Session |-> PromiseStage(t)]' = [t \in Session |-> PromiseStage(t)]
           /\ [t \in Session |-> Together(t)]' = [t \in Session |-> Together(t)]
  BY DEF OthersKeep, MovesTo

LEMMA MappedMove ==
    ASSUME NEW s \in Session, OthersKeep(s), NEW new, MovesTo(s, new)
    PROVE  /\ [t \in Session |-> PromiseStage(t)]' =
                  [[t \in Session |-> PromiseStage(t)] EXCEPT ![s] = new]
           /\ [t \in Session |-> Together(t)]' = [t \in Session |-> Together(t)]
  BY DEF OthersKeep, MovesTo

LEMMA MappedClose ==
    ASSUME NEW s \in Session, OthersKeep(s), Closes(s)
    PROVE  /\ [t \in Session |-> PromiseStage(t)]' =
                  [[t \in Session |-> PromiseStage(t)] EXCEPT ![s] = "closed"]
           /\ [t \in Session |-> Together(t)]' =
                  [[t \in Session |-> Together(t)] EXCEPT ![s] = FALSE]
  BY DEF OthersKeep, Closes

LEMMA MappedData ==
    /\ SignaturesKept =>
          [t \in Session |-> SignedFor(t)]' = [t \in Session |-> SignedFor(t)]
    /\ OwnersKept => [c \in Card |-> OwnerOf(c)]' = [c \in Card |-> OwnerOf(c)]
  BY DEF SignaturesKept, OwnersKept

\* Nothing the owner sees changes.
LEMMA PromiseStutters ==
    ASSUME NEW s \in Session, OthersKeep(s), MovesTo(s, PromiseStage(s)),
           SignaturesKept, OwnersKept
    PROVE  UNCHANGED Owner!vars
  BY MappedSame, MappedData DEF Owner!vars

\* An error return.
LEMMA PromiseGiveUp ==
    ASSUME NEW s \in Session, OthersKeep(s), PromiseStage(s) # "closed", Closes(s),
           SignaturesKept, OwnersKept
    PROVE  Owner!GiveUp(s)
  BY MappedClose, MappedData DEF Owner!GiveUp, Owner!Close

\* Admission of a session, whether its cards rotate together or not.
LEMMA PromiseAdmit ==
    ASSUME NEW s \in Session, OthersKeep(s), PromiseStage(s) = "open",
           PromiseStage(s)' = "signing", Together(s)' \in BOOLEAN,
           SignaturesKept, OwnersKept
    PROVE  Owner!Admit(s)
  <1>1. [t \in Session |-> PromiseStage(t)]' =
            [[t \in Session |-> PromiseStage(t)] EXCEPT ![s] = "signing"]
    BY DEF OthersKeep
  <1>2. \E b \in BOOLEAN :
            [t \in Session |-> Together(t)]' =
            [[t \in Session |-> Together(t)] EXCEPT ![s] = b]
    BY DEF OthersKeep
  <1> QED BY <1>1, <1>2, MappedData DEF Owner!Admit

\* The CA signs the oIAK of a card, at the end of the list or not, or the
\* signature is lost.
LEMMA PromiseSign ==
    ASSUME NEW s \in Session, OthersKeep(s), PromiseStage(s) = "signing",
           NEW c \in Card,
           \A t \in Session :
               SignedFor(t)' = IF t = s THEN SignedFor(s) \cup {c} ELSE SignedFor(t),
           \/ MovesTo(s, "delivering")
           \/ MovesTo(s, PromiseStage(s))
           \/ Closes(s),
           OwnersKept
    PROVE  Owner!Sign(s, c)
  <1>1. [t \in Session |-> SignedFor(t)]' =
            [[t \in Session |-> SignedFor(t)] EXCEPT ![s] = @ \cup {c}]
    OBVIOUS
  <1>2. CASE MovesTo(s, "delivering")
    BY <1>1, <1>2, MappedMove, MappedData DEF Owner!Sign
  <1>3. CASE MovesTo(s, PromiseStage(s))
    BY <1>1, <1>3, MappedSame, MappedData DEF Owner!Sign
  <1>4. CASE Closes(s)
    BY <1>1, <1>4, MappedClose, MappedData DEF Owner!Sign, Owner!Close
  <1> QED BY <1>2, <1>3, <1>4

\* Cards take their updates, and the session ends or goes on.
LEMMA PromiseDeliver ==
    ASSUME NEW s \in Session, OthersKeep(s), PromiseStage(s) = "delivering",
           NEW D \in SUBSET Card, D # {}, D \subseteq SignedFor(s),
           Together(s) => D = SignedFor(s),
           \A c \in Card : OwnerOf(c)' = IF c \in D THEN s ELSE OwnerOf(c),
           \/ Closes(s)
           \/ ~Together(s) /\ MovesTo(s, PromiseStage(s)),
           SignaturesKept
    PROVE  Owner!Deliver(s, D)
  <1>1. [c \in Card |-> OwnerOf(c)]' =
            [c \in Card |-> IF c \in D THEN s ELSE [e \in Card |-> OwnerOf(e)][c]]
    OBVIOUS
  <1>2. CASE Closes(s)
    BY <1>1, <1>2, MappedClose, MappedData DEF Owner!Deliver, Owner!Close
  <1>3. CASE ~Together(s) /\ MovesTo(s, PromiseStage(s))
    BY <1>1, <1>3, MappedSame, MappedData DEF Owner!Deliver
  <1> QED BY <1>2, <1>3

-----------------------------------------------------------------------------
(* The steps of the code.                                                  *)

\* A step that moves one session and no certificate.
LEMMA QuietKeeps ==
    /\ issued' = issued => SignaturesKept
    /\ installed' = installed => OwnersKept
  BY DEF SignaturesKept, SignedFor, IssuedBy, OwnersKept, OwnerOf

LEMMA OthersStay ==
    ASSUME NEW s \in Session,
           \A t \in Session \ {s} : pc'[t] = pc[t] /\ data'[t] = data[t]
    PROVE  OthersKeep(s)
  BY DEF OthersKeep, PromiseStage, Together

LEMMA ReturnCloses ==
    ASSUME NEW s \in Session, pc'[s] = "done"
    PROVE  Closes(s)
  BY DEF Closes, PromiseStage, Together

\* An error return is a step of the promise from any stage.
LEMMA ReturnKeepsPromise ==
    ASSUME NEW s \in Session, pc[s] # "done", pc'[s] = "done", OthersKeep(s),
           SignaturesKept, OwnersKept
    PROVE  [Owner!Next]_Owner!vars
  <1>1. PromiseStage(s) # "closed"
    BY DEF PromiseStage
  <1> QED BY <1>1, ReturnCloses, PromiseGiveUp DEF Owner!Next

\* Until a session comes to the CA it is not admitted; then all at once.
LEMMA EarlyPromise ==
    ASSUME NEW s \in Session, pc[s] \notin AfterAgree \cup {"done"},
           UNCHANGED <<issued, installed>>,
           pc'[s] \notin {"oiak", "rotate"},
           \A t \in Session \ {s} : pc'[t] = pc[t] /\ data'[t] = data[t]
    PROVE  [Owner!Next]_Owner!vars
  <1>1. OthersKeep(s) /\ SignaturesKept /\ OwnersKept
    BY OthersStay, QuietKeeps
  <1>2. PromiseStage(s) = "open" /\ Together(s) = FALSE
    BY DEF PromiseStage, Together, AfterAgree, AtCa
  <1>3. CASE pc'[s] = "done"
    BY <1>1, <1>3, ReturnKeepsPromise
  <1>4. CASE pc'[s] = "oidevid"
    <2>1. PromiseStage(s)' = "signing" /\ Together(s)' \in BOOLEAN
      BY <1>4 DEF PromiseStage, Together
    <2> QED BY <1>1, <1>2, <2>1, PromiseAdmit DEF Owner!Next
  <1>5. CASE pc'[s] \notin {"done", "oidevid"}
    <2>1. MovesTo(s, PromiseStage(s))
      BY <1>2, <1>5 DEF MovesTo, PromiseStage, Together
    <2> QED BY <1>1, <2>1, PromiseStutters
  <1> QED BY <1>3, <1>4, <1>5

\* oIDevID certificates are no part of the promise.
LEMMA IssueOIDevIDPromise ==
    ASSUME OwnerInv, NEW s \in Session, IssueOIDevID(s)
    PROVE  [Owner!Next]_Owner!vars
  <1> DEFINE cert == NewCert(s, "oidevid", data[s][idx[s]].id, data[s][idx[s]].idevid)
  <1>1. /\ pc[s] = "oidevid" /\ UNCHANGED <<data, installed>>
        /\ issued' = issued \/ issued' = issued \cup {cert}
        /\ \E stage \in {"oiak", "done"} : pc' = [pc EXCEPT ![s] = stage]
    BY DEF IssueOIDevID, CaFails, Goto, Return
  <1>2. SignaturesKept /\ OwnersKept
    <2>1. cert.type = "oidevid"
      BY DEF NewCert
    <2> HIDE DEF cert
    <2> QED BY <1>1, <2>1, QuietKeeps DEF SignaturesKept, SignedFor, IssuedBy
  <1>3. /\ pc'[s] \in {"oiak", "done"} /\ OthersKeep(s)
    BY <1>1, OthersStay DEF OwnerInv, OwnerTypeOK
  <1>4. CASE pc'[s] = "done"
    BY <1>1, <1>2, <1>3, <1>4, ReturnKeepsPromise
  <1>5. CASE pc'[s] = "oiak"
    <2>1. MovesTo(s, PromiseStage(s))
      BY <1>1, <1>5 DEF MovesTo, PromiseStage, Together
    <2> QED BY <1>2, <1>3, <2>1, PromiseStutters
  <1> QED BY <1>3, <1>4, <1>5

\* An oIAK is the signature for the card of the IAK.
LEMMA IssueOIakPromise ==
    ASSUME OwnerInv, NEW s \in Session, IssueOIak(s)
    PROVE  [Owner!Next]_Owner!vars
  <1> DEFINE cert == NewCert(s, "oiak", data[s][idx[s]].id, data[s][idx[s]].iak)
             c    == data[s][idx[s]].iak
  <1>1. /\ pc[s] = "oiak" /\ UNCHANGED <<data, installed>>
        /\ \/ /\ issued' = issued \cup {cert}
              /\ \E stage \in {"oidevid", "rotate", "done"} : pc' = [pc EXCEPT ![s] = stage]
           \/ issued' = issued /\ pc' = [pc EXCEPT ![s] = "done"]
    BY DEF IssueOIak, CaFails, Goto, Return
  <1>2. OthersKeep(s) /\ OwnersKept
    BY <1>1, OthersStay, QuietKeeps DEF OwnerInv, OwnerTypeOK
  <1>3. CASE issued' = issued /\ pc' = [pc EXCEPT ![s] = "done"]
    <2>1. pc'[s] = "done"
      BY <1>3 DEF OwnerInv, OwnerTypeOK
    <2> QED BY <1>1, <1>2, <1>3, <2>1, QuietKeeps, ReturnKeepsPromise
  <1>4. CASE /\ issued' = issued \cup {cert}
             /\ \E stage \in {"oidevid", "rotate", "done"} : pc' = [pc EXCEPT ![s] = stage]
    <2>1. pc'[s] \in {"oidevid", "rotate", "done"}
      BY <1>4 DEF OwnerInv, OwnerTypeOK
    <2>2. c \in Card
      BY <1>1 DEF OwnerInv, OwnerTypeOK, OiakComplete, Complete, CardData
    <2>3. cert.type = "oiak" /\ cert.key = c /\ cert.session = s
      BY DEF NewCert
    <2> HIDE DEF cert, c
    <2>4. \A t \in Session :
              SignedFor(t)' = IF t = s THEN SignedFor(s) \cup {c} ELSE SignedFor(t)
      BY <1>4, <2>3 DEF SignedFor, IssuedBy
    <2>5. PromiseStage(s) = "signing"
      BY <1>1 DEF PromiseStage
    <2>6. \/ MovesTo(s, "delivering")
          \/ MovesTo(s, PromiseStage(s))
          \/ Closes(s)
      BY <1>1, <2>1, <2>5, ReturnCloses DEF MovesTo, PromiseStage, Together
    <2> QED BY <1>2, <2>2, <2>4, <2>5, <2>6, PromiseSign DEF Owner!Next
  <1> QED BY <1>1, <1>3, <1>4

\* The cards that take the updates at positions P of a session.
Takers(s, P) == {Resolve(req[s].sels[i]) : i \in P}

\* A call that is taken delivers what the session was signed for, and with all
\* updates everything it was signed for.
LEMMA InstallDelivers ==
    ASSUME OwnerInv, DeliveryInv, NEW s \in Session, pc[s] = "rotate",
           NEW P \in SUBSET Positions(s), Install(s, P)
    PROVE  /\ Takers(s, P) \subseteq Card /\ Takers(s, P) \subseteq SignedFor(s)
           /\ P = Positions(s) => Takers(s, P) = SignedFor(s)
           /\ \A c \in Card :
                 OwnerOf(c)' = IF c \in Takers(s, P) THEN s ELSE OwnerOf(c)
  <1>1. P \in SUBSET Position
    BY IdxInPositions
  <1>2. \A i \in P : /\ updates[s][i].oiak \in IssuedBy(s)
                     /\ updates[s][i].oiak.type = "oiak"
    BY DEF DeliveryInv, Delivery, Paid, AfterAgree, Wanted, Ahead, At
  <1>3. \A i \in P : /\ Resolve(req[s].sels[i]) \in Card
                     /\ updates[s][i].oiak.key = Resolve(req[s].sels[i])
    BY DEF Install, Fits
  <1>4. Takers(s, P) \subseteq Card
    BY <1>3 DEF Takers
  <1>5. Takers(s, P) \subseteq SignedFor(s)
    BY <1>2, <1>3 DEF Takers, SignedFor
  <1>6. ASSUME P = Positions(s) PROVE SignedFor(s) \subseteq Takers(s, P)
    <2> SUFFICES ASSUME NEW cert \in IssuedBy(s), cert.type = "oiak"
                 PROVE  cert.key \in Takers(s, P)
      BY DEF SignedFor
    <2>1. cert.pos \in P /\ updates[s][cert.pos].oiak = cert
      BY <1>6 DEF DeliveryInv, Delivery, Spent, AfterAgree, At
    <2> QED BY <1>3, <2>1 DEF Takers
  <1>7. ASSUME NEW c \in Card
        PROVE  OwnerOf(c)' = IF c \in Takers(s, P) THEN s ELSE OwnerOf(c)
    <2>1. c \in Takers(s, P) <=> For(s, P, c) # {}
      BY DEF Takers, For
    <2>2. CASE For(s, P, c) = {}
      <3>1. installed'[c] = installed[c]
        BY <2>2 DEF Install
      <3> QED BY <2>1, <2>2, <3>1 DEF OwnerOf
    <2>3. CASE For(s, P, c) # {}
      <3> DEFINE i == Max(For(s, P, c))
      <3>1. i \in P
        <4>1. For(s, P, c) \in SUBSET Position
          BY <1>1 DEF For
        <4> QED BY <2>3, <4>1, MaxIn DEF For
      <3>2. installed'[c] = Store(installed[c], updates[s][i])
        BY <2>3 DEF Install
      <3> HIDE DEF i
      <3>3. installed'[c].oiak = updates[s][i].oiak
        BY <3>2 DEF Store
      <3>4. updates[s][i].oiak \in Cert /\ updates[s][i].oiak.session = s
        BY <1>2, <3>1 DEF IssuedBy, OwnerInv, OwnerTypeOK
      <3> QED BY <2>1, <2>3, <3>3, <3>4, CertAssumption DEF OwnerOf
    <2> QED BY <2>2, <2>3
  <1> QED BY <1>4, <1>5, <1>6, <1>7

\* RotateOIakCert for all cards delivers to all of them.
LEMMA RotateAllPromise ==
    ASSUME OwnerInv, DeliveryInv, NEW s \in Session, RotateAll(s)
    PROVE  [Owner!Next]_Owner!vars
  <1>1. /\ pc[s] = "rotate" /\ pc' = [pc EXCEPT ![s] = "done"]
        /\ UNCHANGED <<data, issued>>
        /\ installed' = installed \/ Install(s, Positions(s))
    BY DEF RotateAll, RotateCall, Return
  <1>2. pc'[s] = "done" /\ OthersKeep(s) /\ SignaturesKept
    BY <1>1, OthersStay, QuietKeeps DEF OwnerInv, OwnerTypeOK
  <1>3. CASE installed' = installed
    BY <1>1, <1>2, <1>3, QuietKeeps, ReturnKeepsPromise
  <1>4. CASE Install(s, Positions(s))
    <2> DEFINE D == Takers(s, Positions(s))
    <2>1. /\ D \in SUBSET Card /\ D \subseteq SignedFor(s) /\ D = SignedFor(s)
          /\ \A c \in Card : OwnerOf(c)' = IF c \in D THEN s ELSE OwnerOf(c)
      BY <1>1, <1>4, InstallDelivers
    <2>2. D # {}
      BY <1>1, IdxInPositions DEF Takers
    <2>3. PromiseStage(s) = "delivering" /\ Closes(s)
      BY <1>1, <1>2, ReturnCloses DEF PromiseStage
    <2> HIDE DEF D
    <2> QED BY <1>2, <2>1, <2>2, <2>3, PromiseDeliver DEF Owner!Next
  <1> QED BY <1>1, <1>3, <1>4

\* RotateOIakCert for one card, in a session that was not to deliver together.
LEMMA RotateOnePromise ==
    ASSUME OwnerInv, DeliveryInv, NEW s \in Session, RotateOne(s)
    PROVE  [Owner!Next]_Owner!vars
  <1>1. /\ pc[s] = "rotate" /\ ~data[s][1].atomic
        /\ UNCHANGED <<data, issued>>
        /\ \/ pc' = [pc EXCEPT ![s] = "done"]
           \/ pc' = pc /\ Install(s, {idx[s]})
        /\ installed' = installed \/ Install(s, {idx[s]})
    BY DEF RotateOne, RotateCall, Return
  <1>2. /\ pc'[s] = "done" \/ (pc'[s] = "rotate" /\ Install(s, {idx[s]}))
        /\ OthersKeep(s) /\ SignaturesKept
    BY <1>1, OthersStay, QuietKeeps DEF OwnerInv, OwnerTypeOK
  <1>3. CASE installed' = installed /\ pc'[s] = "done"
    BY <1>1, <1>2, <1>3, QuietKeeps, ReturnKeepsPromise
  <1>4. CASE Install(s, {idx[s]})
    <2> DEFINE D == Takers(s, {idx[s]})
    <2>1. {idx[s]} \in SUBSET Positions(s)
      BY <1>1, IdxInPositions
    <2>2. /\ D \in SUBSET Card /\ D \subseteq SignedFor(s)
          /\ \A c \in Card : OwnerOf(c)' = IF c \in D THEN s ELSE OwnerOf(c)
      BY <1>1, <1>4, <2>1, InstallDelivers
    <2>3. D # {}
      BY DEF Takers
    <2>4. PromiseStage(s) = "delivering" /\ ~Together(s)
      BY <1>1 DEF PromiseStage, Together
    <2>5. Closes(s) \/ MovesTo(s, PromiseStage(s))
      BY <1>1, <1>2, ReturnCloses DEF MovesTo, PromiseStage, Together
    <2> HIDE DEF D
    <2> QED BY <1>2, <2>2, <2>3, <2>4, <2>5, PromiseDeliver DEF Owner!Next
  <1> QED BY <1>1, <1>2, <1>3, <1>4

-----------------------------------------------------------------------------

\* Every step of issueAndRotateOwnerCerts.
LEMMA IssueAndRotatePromise ==
    ASSUME OwnerInv, DeliveryInv, NEW s \in Session, IssueAndRotate(s)
    PROVE  [Owner!Next]_Owner!vars
  BY IssueOIDevIDPromise, IssueOIakPromise, RotateAllPromise, RotateOnePromise
     DEF IssueAndRotate

\* A call of a workflow is not seen by the owner, or is refused.
LEMMA StartPromise ==
    ASSUME OwnerInv, NEW s \in Session, NEW r \in Requests, Start(s, r)
    PROVE  [Owner!Next]_Owner!vars
  <1>1. /\ pc[s] = "new" /\ UNCHANGED <<data, issued, installed>>
        /\ \E stage \in {"verify", "done"} : pc' = [pc EXCEPT ![s] = stage]
    BY DEF Start, Goto, Return
  <1>2. /\ pc'[s] \in {"verify", "done"}
        /\ \A t \in Session \ {s} : pc'[t] = pc[t]
    BY <1>1 DEF OwnerInv, OwnerTypeOK
  <1> QED BY <1>1, <1>2, EarlyPromise DEF AfterAgree, AtCa

\* Cards change places without the owner noticing.
LEMMA QuietPromise ==
    ASSUME UNCHANGED <<pc, data, issued, installed>>
    PROVE  UNCHANGED Owner!vars
  <1>1. \A t \in Session : PromiseStage(t)' = PromiseStage(t)
                           /\ Together(t)' = Together(t)
    BY DEF PromiseStage, Together
  <1>2. /\ [t \in Session |-> PromiseStage(t)]' = [t \in Session |-> PromiseStage(t)]
        /\ [t \in Session |-> Together(t)]' = [t \in Session |-> Together(t)]
    BY <1>1
  <1> QED BY <1>2, QuietKeeps, MappedData DEF Owner!vars

\* No session is admitted, no card signed for.
LEMMA PromiseInit == OwnerInit => Owner!Init
  <1> SUFFICES ASSUME OwnerInit PROVE Owner!Init
    OBVIOUS
  <1>1. \A s \in Session : /\ PromiseStage(s) = "open" /\ Together(s) = FALSE
                           /\ SignedFor(s) = {}
    BY DEF OwnerInit, PromiseStage, Together, SignedFor, IssuedBy
  <1>2. \A c \in Card : OwnerOf(c) = NoRequest
    BY DEF OwnerInit, OwnerOf, NoPair
  <1> QED BY <1>1, <1>2 DEF Owner!Init
=============================================================================
