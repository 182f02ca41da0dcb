----------------------------- MODULE OwnerCerts -----------------------------
(***************************************************************************)
(* Issuing and rotating the owner certificates (oIAK and oIDevID) of the   *)
(* control cards of one switch: issueAndRotateOwnerCerts and what it calls *)
(* (service/biz/enrollz_biz.go), with the two external parties it talks    *)
(* to, the switch owner CA and the switch.  The two TPM 2.0 workflows,     *)
(* VendorEnrollment and HmacEnrollment, extend this module with the steps  *)
(* that verify the identity of the cards.                                  *)
(*                                                                         *)
(* A session is one call of a workflow function; a retry is another        *)
(* session.  The caller blocks on every remote call, so one call (request, *)
(* effect on the callee, reply) is one step of its session; the steps of   *)
(* other sessions and of the switch come between any two of them.  A call  *)
(* that fails may or may not have had its effect: its reply can be lost.   *)
(*                                                                         *)
(* A card stands for its serial number, its TPM and the keys in it, so the *)
(* public key in a certificate is named by the card that holds the key.    *)
(***************************************************************************)
EXTENDS Naturals, FiniteSets, Sequences, FiniteSetsExt

CONSTANTS Session,      \* calls of a workflow function
          Card,         \* control cards that may sit in the switch
          NoCard,       \* a nil ControlCardID, an empty key, an empty slot
          NoSerial,     \* a ControlCardID whose serial number is empty
          NoCert,       \* an empty certificate string
          Requests      \* the requests the sessions may be called with

Role      == {"active", "standby"}
Selection == Role \cup Card
Position  == 1..2

Request == [kind    : {"enroll", "rotate", "hmac"},
            sels    : Seq(Selection),    \* ControlCardSelections
            profile : BOOLEAN,           \* SSLProfileID is not empty
            skip    : BOOLEAN]           \* skipOidevidRotate

CONSTANT NoRequest      \* the value of req before the call

\* A ControlCardVendorId; only a nil one is refused before a certificate is
\* asked for.
CardId   == Card \cup {NoSerial}

CardData == [id     : CardId \cup {NoCard}, \* ControlCardID
             iak    : Card \cup {NoCard},   \* IAKPubPem
             idevid : Card \cup {NoCard},   \* IDevIDPubPem
             atomic : BOOLEAN]              \* AtomicCertRotationSupported
NoData   == [id |-> NoCard, iak |-> NoCard, idevid |-> NoCard, atomic |-> FALSE]

Cert == [type : {"oiak", "oidevid"}, id : CardId, key : Card,
         session : Session, pos : Position]
CertPair == [oiak : Cert \cup {NoCert}, oidevid : Cert \cup {NoCert}]
NoPair   == [oiak |-> NoCert, oidevid |-> NoCert]

Stage  == {"new", "verify", "fetchEK", "challenge", "csr", "agree",
           "oidevid", "oiak", "rotate", "done"}
Result == {"none", "ok", "ErrInvalidRequest", "ErrVerifyIdentity",
           "ErrKeyConversion", "ErrAtomicRotationMismatch", "ErrEmptyField",
           "ErrFailedToIssueOwnerCert", "ErrRotateOIakCert"}

ASSUME CardAssumption ==
    /\ NoCard \notin Card \cup Role
    /\ NoSerial \notin Card \cup Role \cup {NoCard}
    /\ Card \cap Role = {}
ASSUME CertAssumption == NoCert \notin Cert
ASSUME RequestAssumption ==
    /\ Requests \subseteq Request
    /\ NoRequest \notin Request

VARIABLES
    pc,         \* where a session is in its workflow
    result,     \* what the workflow function returned
    req,        \* the request of a session
    idx,        \* the selection the session works on
    data,       \* certDataList: what verification established per selection
    updates,    \* controlCardCerts: what the CA returned per selection
    issued,     \* every certificate the CA has issued
    seat,       \* the card in each role
    installed,  \* the owner certificates a card keeps in its own storage
    accepted    \* history: <<session, position, card>> of accepted updates

sessionVars == <<pc, result, req, idx, data, updates>>
deviceVars  == <<seat, installed, accepted>>
ownerVars   == <<pc, result, req, idx, data, updates, issued, seat, installed,
                 accepted>>

\* The types of the shared state; certDataList and controlCardCerts have an
\* entry for each position a request may use.
OwnerTypeOK ==
    /\ pc \in [Session -> Stage]
    /\ result \in [Session -> Result]
    /\ req \in [Session -> Request \cup {NoRequest}]
    /\ idx \in [Session -> Position]
    /\ data \in [Session -> [Position -> CardData]]
    /\ updates \in [Session -> [Position -> CertPair]]
    /\ issued \subseteq Cert
    /\ seat \in [Role -> Card \cup {NoCard}]
    /\ installed \in [Card -> CertPair]
    /\ accepted \subseteq Session \X Position \X Card

OwnerInit ==
    /\ pc = [s \in Session |-> "new"]
    /\ result = [s \in Session |-> "none"]
    /\ req = [s \in Session |-> NoRequest]
    /\ idx = [s \in Session |-> 1]
    /\ data = [s \in Session |-> [i \in Position |-> NoData]]
    /\ updates = [s \in Session |-> [i \in Position |-> NoPair]]
    /\ issued = {}
    /\ seat \in [Role -> Card \cup {NoCard}]
    /\ seat["active"] \in Card
    /\ seat["standby"] # seat["active"]
    /\ installed = [c \in Card |-> NoPair]
    /\ accepted = {}

-----------------------------------------------------------------------------
(* Sessions: control flow shared by all the steps.                         *)

Count(s)     == Len(req[s].sels)
Positions(s) == 1..Count(s)
Last(s)      == idx[s] = Count(s)

\* Mutant: the index is not reset between two loops over the selections.
NextIdxKept(s) == idx[s] + 1
\* Mutant: the loop does not advance.
NextIdxStuck(s) == IF Last(s) THEN 1 ELSE idx[s]

\* The loops over the selections: the next one, or the start of the next loop.
NextIdx(s) == IF Last(s) THEN 1 ELSE idx[s] + 1

Return(s, r) ==
    /\ pc' = [pc EXCEPT ![s] = "done"]
    /\ result' = [result EXCEPT ![s] = r]

Goto(s, stage) ==
    /\ pc' = [pc EXCEPT ![s] = stage]
    /\ UNCHANGED result

\* The caller's request, with the checks every workflow makes first: no
\* selection or more than two is an invalid request.
Start(s, r) ==
    /\ pc[s] = "new"
    /\ req' = [req EXCEPT ![s] = r]
    /\ IF Len(r.sels) \in Position
       THEN Goto(s, "verify")
       ELSE Return(s, "ErrInvalidRequest")
    /\ UNCHANGED <<idx, data, updates, issued, seat, installed, accepted>>

\* The card a selection means now; NoCard when no seated card answers to it.
Resolve(sel) ==
    IF sel \in Role THEN seat[sel]
    ELSE IF \E r \in Role : seat[r] = sel THEN sel ELSE NoCard

-----------------------------------------------------------------------------
(* The switch owner CA.                                                    *)

\* Mutant: every certificate of a batch is made out to its first card.
NewCertFirstCard(s, type, id, key) ==
    [type |-> type, id |-> data[s][1].id, key |-> key, session |-> s,
     pos |-> idx[s]]

NewCert(s, type, id, key) ==
    [type |-> type, id |-> id, key |-> key, session |-> s, pos |-> idx[s]]

CaFails(s, cert) ==
    /\ issued' \in {issued, issued \cup {cert}}
    /\ Return(s, "ErrFailedToIssueOwnerCert")
    /\ UNCHANGED <<idx, updates>>

\* The validation at the head of the issuing loop.
Complete(d) == NoCard \notin {d.id, d.iak}

\* No oIDevID is asked for when the request skips it or there is no IDevID key.
SkipsOIDevID(s) == req[s].skip \/ data[s][idx[s]].idevid = NoCard

\* The validation and issueOwnerIDevIDCert, which needs an SSL profile.
IssueOIDevID(s) ==
    LET d    == data[s][idx[s]]
        cert == NewCert(s, "oidevid", d.id, d.idevid)
    IN
    /\ pc[s] = "oidevid"
    /\ \/ /\ Complete(d) => ~SkipsOIDevID(s) /\ ~req[s].profile
          /\ Return(s, "ErrEmptyField")
          /\ UNCHANGED <<updates, issued, idx>>
       \/ /\ Complete(d)
          /\ SkipsOIDevID(s)
          /\ Goto(s, "oiak")
          /\ UNCHANGED <<updates, issued, idx>>
       \/ /\ Complete(d)
          /\ ~SkipsOIDevID(s) /\ req[s].profile
          /\ \/ /\ issued' = issued \cup {cert}
                /\ updates' = [updates EXCEPT ![s][idx[s]].oidevid = cert]
                /\ Goto(s, "oiak")
                /\ UNCHANGED idx
             \/ CaFails(s, cert)
    /\ UNCHANGED <<req, data, seat, installed, accepted>>

\* issueOwnerIakCert, and the end of one round of the issuing loop.
IssueOIak(s) ==
    LET d    == data[s][idx[s]]
        cert == NewCert(s, "oiak", d.id, d.iak)
    IN
    /\ pc[s] = "oiak"
    /\ \/ /\ issued' = issued \cup {cert}
          /\ updates' = [updates EXCEPT ![s][idx[s]].oiak = cert]
          /\ idx' = [idx EXCEPT ![s] = NextIdx(s)]
          /\ Goto(s, IF Last(s) THEN "rotate" ELSE "oidevid")
       \/ CaFails(s, cert)
    /\ UNCHANGED <<req, data, seat, installed, accepted>>

-----------------------------------------------------------------------------
(* The switch: RotateOIakCert, switchover and replacement of a card.       *)

\* The public keys in the certificates must be the card's own.
Fits(c, pair) ==
    /\ c \in Card
    /\ pair.oiak.key = c
    /\ pair.oidevid # NoCert => pair.oidevid.key = c

\* An update without an oIDevID certificate leaves the card's own in place.
Store(old, pair) ==
    [oiak    |-> pair.oiak,
     oidevid |-> IF pair.oidevid = NoCert THEN old.oidevid ELSE pair.oidevid]

\* The updates of session s, among those at positions P, that reach card c.
For(s, P, c) == {i \in P : Resolve(req[s].sels[i]) = c}

\* The switch takes the updates at positions P of session s, all in one step.
\* When two of them select the same card the later one stays.
Install(s, P) ==
    /\ \A i \in P : Fits(Resolve(req[s].sels[i]), updates[s][i])
    /\ installed' = [c \in Card |->
          IF For(s, P, c) = {} THEN installed[c]
          ELSE Store(installed[c], updates[s][Max(For(s, P, c))])]
    /\ accepted' = accepted \cup {<<s, i, Resolve(req[s].sels[i])>> : i \in P}

\* Mutant: an error of the call is not returned.
RotateCallIgnored(s, P, Then) ==
    \/ Install(s, P) /\ Then
    \/ UNCHANGED <<installed, accepted>> /\ Then
\* Mutant: the error is reported as one of the CA.
RotateCallMisreported(s, P, Then) ==
    \/ Install(s, P) /\ Then
    \/ /\ \/ Install(s, P)
          \/ UNCHANGED <<installed, accepted>>
       /\ Return(s, "ErrFailedToIssueOwnerCert")
       /\ UNCHANGED idx

\* One RotateOIakCert call: taken and answered, taken but the reply is lost,
\* or refused.
RotateCall(s, P, Then) ==
    \/ Install(s, P) /\ Then
    \/ Install(s, P) /\ Return(s, "ErrRotateOIakCert") /\ UNCHANGED idx
    \/ /\ UNCHANGED <<installed, accepted, idx>>
       /\ Return(s, "ErrRotateOIakCert")

\* rotateOIakCert without atomic rotation: one call for each card, in order.
RotateOne(s) ==
    /\ pc[s] = "rotate"
    /\ ~data[s][1].atomic
    /\ RotateCall(s, {idx[s]},
          IF Last(s)
          THEN Return(s, "ok") /\ UNCHANGED idx
          ELSE idx' = [idx EXCEPT ![s] = NextIdx(s)] /\ UNCHANGED <<pc, result>>)
    /\ UNCHANGED <<req, data, updates, issued, seat>>

\* Mutant: cards with atomic rotation are updated one by one as well.
RotateAllOneByOne(s) ==
    /\ pc[s] = "rotate"
    /\ data[s][1].atomic
    /\ RotateCall(s, {idx[s]},
          IF Last(s)
          THEN Return(s, "ok") /\ UNCHANGED idx
          ELSE idx' = [idx EXCEPT ![s] = NextIdx(s)] /\ UNCHANGED <<pc, result>>)
    /\ UNCHANGED <<req, data, updates, issued, seat>>

\* rotateOIakCert with atomic rotation: one call for all cards.
RotateAll(s) ==
    /\ pc[s] = "rotate"
    /\ data[s][1].atomic
    /\ RotateCall(s, Positions(s), Return(s, "ok") /\ UNCHANGED idx)
    /\ UNCHANGED <<req, data, updates, issued, seat>>

Switchover ==
    /\ seat["standby"] # NoCard
    /\ seat' = [r \in Role |-> IF r = "active" THEN seat["standby"]
                                               ELSE seat["active"]]
    /\ UNCHANGED <<sessionVars, issued, installed, accepted>>

\* The standby card is pulled out, or another card is put in its slot; each
\* card keeps the certificates it has stored.
HotSwap ==
    /\ \E c \in Card \cup {NoCard} :
          /\ c # seat["active"]
          /\ seat' = [seat EXCEPT !["standby"] = c]
    /\ UNCHANGED <<sessionVars, issued, installed, accepted>>

Device == Switchover \/ HotSwap

IssueAndRotate(s) ==
    \/ IssueOIDevID(s) \/ IssueOIak(s) \/ RotateAll(s) \/ RotateOne(s)

-----------------------------------------------------------------------------
(* Derived: what a session has done so far.                                *)

IssuedBy(s)   == {cert \in issued : cert.session = s}
Accepted(s)   == {i \in Position : \E c \in Card : <<s, i, c>> \in accepted}
EnrolledBy(s) == {c \in Card : \E i \in Position : <<s, i, c>> \in accepted}

-----------------------------------------------------------------------------
(* The promise to the owner, kept by all workflows.                        *)

PromiseStage(s) ==
    CASE pc[s] \in {"oidevid", "oiak"} -> "signing"
      [] pc[s] = "rotate"              -> "delivering"
      [] pc[s] = "done"                -> "closed"
      [] OTHER                         -> "open"

\* The session is past admission and rotates atomically.
Together(s) == pc[s] \in {"oidevid", "oiak", "rotate"} /\ data[s][1].atomic

SignedFor(s) == {cert.key : cert \in {x \in IssuedBy(s) : x.type = "oiak"}}
OwnerOf(c)   == IF installed[c].oiak = NoCert THEN NoRequest
                ELSE installed[c].oiak.session

Owner == INSTANCE OwnerPromise WITH
    Nobody   <- NoRequest,
    stage    <- [s \in Session |-> PromiseStage(s)],
    together <- [s \in Session |-> Together(s)],
    signed   <- [s \in Session |-> SignedFor(s)],
    owner    <- [c \in Card |-> OwnerOf(c)]

\* Every behaviour of the workflows is one the owner was promised: admission
\* as a whole before any signature, delivery only of what the same session
\* signed, and to all cards at once where rotation is atomic.
KeepsPromise == Owner!Spec
=============================================================================
