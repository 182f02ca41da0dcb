--------------------------- MODULE VendorEnrollment ---------------------------
(***************************************************************************)
(* The two workflows that trust vendor-issued certificates:                *)
(* EnrollControlCard and RotateOwnerIakCert (service/biz/enrollz_biz.go).  *)
(* For each selection the session fetches the card's IAK and IDevID        *)
(* certificates and verifies them; when every selection is verified and    *)
(* the cards agree on atomic rotation, OwnerCerts issues and rotates.      *)
(***************************************************************************)
EXTENDS OwnerCerts

CONSTANTS GoodIak,      \* cards whose IAK certificate verifies
          GoodIDevID,   \* cards whose IDevID certificate verifies
          AtomicCards   \* cards whose software supports atomic rotation

ASSUME VendorAssumption ==
    /\ GoodIak \subseteq Card
    /\ GoodIDevID \subseteq Card
    /\ \A r \in Requests : r.kind \in {"enroll", "rotate"}

VerifyIDevID(r) == r.kind = "enroll" \/ ~r.skip

\* What a card answers to GetIakCert; the IDevID certificate is optional.
GetIakCertResponses(c) ==
    {[id |-> c, iak |-> c, idevid |-> d, atomic |-> c \in AtomicCards] :
        d \in {c, NoCard}}

\* Mutant: the IDevID certificate is taken unverified.
CertsVerifyIakOnly(r, resp) == resp.iak \in GoodIak

\* VerifyIakAndIDevIDCerts, or VerifyTpmCert when only the IAK is verified.
CertsVerify(r, resp) ==
    /\ resp.iak \in GoodIak
    /\ VerifyIDevID(r) => resp.idevid \in GoodIDevID \cup {NoCard}

Learned(r, resp) ==
    IF VerifyIDevID(r) THEN resp ELSE [resp EXCEPT !.idevid = NoCard]

\* verifyIdentityWithVendorCerts for one selection: the first error ends it.
VerifyIdentity(s) ==
    LET c == Resolve(req[s].sels[idx[s]])
        r == req[s]
    IN
    /\ pc[s] = "verify"
    /\ \/ \E resp \in GetIakCertResponses(c) :
             /\ c \in Card
             /\ CertsVerify(r, resp)
             /\ data' = [data EXCEPT ![s][idx[s]] = Learned(r, resp)]
             /\ idx' = [idx EXCEPT ![s] = NextIdx(s)]
             /\ Goto(s, IF Last(s) THEN "agree" ELSE "verify")
       \/ /\ Return(s, "ErrVerifyIdentity")
          /\ UNCHANGED <<data, idx>>
    /\ UNCHANGED <<req, updates, issued, seat, installed, accepted>>

\* The cards of one session must rotate in the same way.
Agree(s) ==
    \A i, j \in Positions(s) : data[s][i].atomic = data[s][j].atomic

\* Mutant: cards of mixed software go through.
CheckAtomicDropped(s) ==
    /\ pc[s] = "agree"
    /\ Goto(s, "oidevid")
    /\ UNCHANGED <<req, idx, data, updates, issued, seat, installed, accepted>>

CheckAtomic(s) ==
    /\ pc[s] = "agree"
    /\ IF Agree(s) THEN Goto(s, "oidevid")
                   ELSE Return(s, "ErrAtomicRotationMismatch")
    /\ UNCHANGED <<req, idx, data, updates, issued, seat, installed, accepted>>

SessionStep(s) == VerifyIdentity(s) \/ CheckAtomic(s) \/ IssueAndRotate(s)

Init == OwnerInit

Next ==
    \/ \E s \in Session : (\E r \in Requests : Start(s, r)) \/ SessionStep(s)
    \/ Device

Spec     == Init /\ [][Next]_ownerVars
FairSpec == Spec /\ \A s \in Session : WF_ownerVars(SessionStep(s))

-----------------------------------------------------------------------------
\* The workflows that trust vendor certificates add no state of their own.
TypeOK == OwnerTypeOK

\* Nothing is issued for a session before all its selections are verified and
\* found to agree on atomic rotation: a card that fails, or a switch of mixed
\* software, costs no certificate (the loops of EnrollControlCard and
\* RotateOwnerIakCert run to the end before issueAndRotateOwnerCerts).
IssuedAfterAllVerified ==
    \A cert \in issued :
        LET s == cert.session IN
        /\ \A i \in Positions(s) : data[s][i].id # NoCard
        /\ Agree(s)

\* The CA only signs keys that were verified, under the identity of the card
\* that holds the key: an oIDevID is never issued for an IDevID certificate
\* nobody checked.
IssuedForVerifiedKeys ==
    \A cert \in issued :
        /\ cert.key = cert.id
        /\ cert.key \in IF cert.type = "oiak" THEN GoodIak ELSE GoodIDevID

\* The class of the error says how far a failed session got: before
\* issueAndRotateOwnerCerts no certificate exists, before the first
\* RotateOIakCert call no card has changed.
ErrorTellsReach ==
    \A s \in Session :
        /\ result[s] \in {"ErrInvalidRequest", "ErrVerifyIdentity",
                          "ErrAtomicRotationMismatch"} => IssuedBy(s) = {}
        /\ result[s] \notin {"none", "ok", "ErrRotateOIakCert"} =>
              Accepted(s) = {}

\* A session of cards with atomic rotation updates all of them or none, even
\* if the reply is lost; otherwise the cards are updated in the order of the
\* selections, and what a failure leaves updated is a prefix of them.
AcceptedAllOrPrefix ==
    \A s \in Session :
        \/ Accepted(s) = {}
        \/ Accepted(s) = Positions(s)
        \/ ~data[s][1].atomic /\ Accepted(s) = {1}

\* Success means that every selection was updated and that every certificate
\* the CA issued for the session reached a card.
SuccessLeavesNoOrphan ==
    \A s \in Session : result[s] = "ok" =>
        /\ Accepted(s) = Positions(s)
        /\ \A cert \in IssuedBy(s) :
              /\ cert \in {updates[s][cert.pos].oiak,
                           updates[s][cert.pos].oidevid}
              /\ <<s, cert.pos, cert.key>> \in accepted

\* A card holds only certificates made for it, and an oIDevID only from a
\* session that was to rotate it and named the SSL profile it goes to.
InstalledIsOwn ==
    \A c \in Card :
        LET p == installed[c] IN
        /\ p.oiak # NoCert => p.oiak \in issued /\ p.oiak.id = c
        /\ p.oidevid # NoCert =>
              /\ p.oidevid \in issued /\ p.oidevid.id = c
              /\ req[p.oidevid.session].profile
              /\ ~req[p.oidevid.session].skip

\* With atomic rotation a session that asked for the active and the standby
\* card enrolls two different cards when it succeeds, whatever switchovers
\* and replacements happened since it verified them.
AtomicEnrollsBothRoles ==
    \A s \in Session :
        /\ result[s] = "ok"
        /\ data[s][1].atomic
        /\ Role \subseteq {req[s].sels[i] : i \in Positions(s)}
        => Cardinality(EnrolledBy(s)) = 2

\* A session that has been called returns, if each remote call it makes does.
Termination ==
    \A s \in Session : pc[s] # "new" ~> pc[s] = "done"

\* The comment on EnrollControlCard: by the end of the workflow a given card
\* has obtained an Owner IAK and an Owner IDevID certificate.  A standby card
\* may go without the second one (tpm_enrollz.proto); on the active card, says
\* the comment in VerifyIakAndIDevIDCerts, the IDevID certificate is needed.
ActiveEnrolledWithBothCerts ==
    \A s \in Session :
        result[s] = "ok" /\ req[s].kind = "enroll" /\ ~req[s].skip =>
            \A i \in Positions(s) :
                req[s].sels[i] = "active" => NoCert \notin {updates[s][i].oiak,
                                                         updates[s][i].oidevid}

=============================================================================
