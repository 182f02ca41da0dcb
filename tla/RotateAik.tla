------------------------------ MODULE RotateAik ------------------------------
(***************************************************************************)
(* RotateAIKCert (service/biz/enrollz_biz.go): enrollment of a TPM 1.2     *)
(* card over one bidirectional stream.  The client sends its issuer key,   *)
(* checks the identity request made for it, has the CA issue an AIK        *)
(* certificate, sends it encrypted to the EK on record, compares what the  *)
(* card decrypted, and finalizes.  The handler on the switch is external:  *)
(* it follows the workflow in proto/tpm_enrollz.proto, may fail anywhere   *)
(* and may answer with something stale.                                    *)
(*                                                                         *)
(* The stream keeps messages in order and loses none until it breaks.      *)
(* Keys stand for who made them: the issuer key of a session is the        *)
(* session, an EK is its card, an AIK is the card and the session whose    *)
(* stream it was made in.                                                  *)
(***************************************************************************)
EXTENDS Naturals, Sequences

CONSTANTS Session,      \* calls of RotateAIKCert
          Card,         \* TPM 1.2 control cards
          NoCard,       \* no handler, no record
          NoCert,       \* no certificate
          RotDB,        \* the RoT database: EK (its card) by identity
          EndStyles     \* how handlers end the stream after finalize:
                        \* "return" at once, "wait" for the client to close,
                        \* "ack" with a message and then wait

ASSUME AikAssumption ==
    /\ NoCard \notin Card
    /\ RotDB \in [Card -> Card \cup {NoCard}]
    /\ EndStyles \subseteq {"return", "wait", "ack"}

Aik     == [card : Card, stream : Session]
AikCert == [id : Card, aik : Aik, session : Session]

ASSUME NoCertAssumption == NoCert \notin AikCert

IdRequest == [kind : {"idrequest"}, issuer : Session, aik : Aik, id : Card]
ToDevice  == [kind : {"issuerkey", "finalize"}]
             \cup [kind : {"payload"}, ek : Card, cert : AikCert]
ToClient  == [kind : {"malformed", "ack"}] \cup IdRequest
             \cup [kind : {"aikcert"}, cert : AikCert]

VARIABLES
    pc,         \* where the client is
    result,     \* what RotateAIKCert returned
    request,    \* the identity request the client accepted (a set of one)
    cert,       \* the certificate the CA returned to the client
    c2d, d2c,   \* messages on the stream, by direction
    closed,     \* the client has closed its direction
    status,     \* the stream as the client sees it once d2c is drained
    handler,    \* where the handler on the switch is
    card,       \* the card the selection was resolved to for the stream
    issued,     \* every AIK certificate the CA has issued
    made,       \* every identity request a handler has made
    stored,     \* the AIK certificate a card has installed
    finalized   \* the sessions whose certificate the card has made final

clientVars == <<pc, result, request, cert, issued>>
deviceVars == <<handler, card, made, stored, finalized>>
streamVars == <<c2d, d2c, closed, status>>
vars       == <<pc, result, request, cert, c2d, d2c, closed, status, handler,
                card, issued, made, stored, finalized>>

\* Types: what each party sends is a message of its direction, and a payload is
\* encrypted to a key there is.
TypeOK ==
    /\ pc \in [Session -> {"new", "idrequest", "issue", "payload", "confirm",
                           "end", "done"}]
    /\ result \in [Session -> {"none", "ok", "error"}]
    /\ request \in [Session -> SUBSET IdRequest]
    /\ cert \in [Session -> AikCert \cup {NoCert}]
    /\ c2d \in [Session -> Seq(ToDevice)]
    /\ d2c \in [Session -> Seq(ToClient)]
    /\ closed \in [Session -> BOOLEAN]
    /\ status \in [Session -> {"none", "running", "eof", "error"}]
    /\ handler \in [Session -> {"none", "issuerkey", "payload", "finalize",
                                "close", "gone"}]
    /\ card \in [Session -> Card \cup {NoCard}]
    /\ issued \subseteq AikCert
    /\ made \subseteq IdRequest
    /\ stored \in [Card -> AikCert \cup {NoCert}]
    /\ finalized \subseteq Session

Init ==
    /\ pc = [s \in Session |-> "new"]
    /\ result = [s \in Session |-> "none"]
    /\ request = [s \in Session |-> {}]
    /\ cert = [s \in Session |-> NoCert]
    /\ c2d = [s \in Session |-> <<>>]
    /\ d2c = [s \in Session |-> <<>>]
    /\ closed = [s \in Session |-> FALSE]
    /\ status = [s \in Session |-> "none"]
    /\ handler = [s \in Session |-> "none"]
    /\ card = [s \in Session |-> NoCard]
    /\ issued = {}
    /\ made = {}
    /\ stored = [c \in Card |-> NoCert]
    /\ finalized = {}

-----------------------------------------------------------------------------
(* The client.                                                             *)

Goto(s, p)   == pc' = [pc EXCEPT ![s] = p] /\ UNCHANGED result
Return(s, r) ==
    /\ pc' = [pc EXCEPT ![s] = "done"]
    /\ result' = [result EXCEPT ![s] = r]

\* Send succeeds while the stream runs.
Send(s, m) ==
    /\ status[s] = "running"
    /\ c2d' = [c2d EXCEPT ![s] = Append(@, m)]

\* Recv: the next message, and once there is none the end of the stream.
Received(s, m) ==
    /\ d2c[s] # <<>> /\ m = Head(d2c[s])
    /\ d2c' = [d2c EXCEPT ![s] = Tail(@)]
StreamOver(s) == d2c[s] = <<>> /\ status[s] # "running"

\* Errors return at once; the stream is left as it is.
FailHere(s) ==
    /\ Return(s, "error")
    /\ UNCHANGED <<request, cert, c2d, closed, status, issued, deviceVars>>

\* The stream to the card the switch selects.
Opened(s, h, st) ==
    /\ \E c \in Card : card' = [card EXCEPT ![s] = c]
    /\ handler' = [handler EXCEPT ![s] = h]
    /\ status' = [status EXCEPT ![s] = st]

\* The stream is opened and the issuer key sent.  Opening may fail, and so may
\* sending, on a stream that is broken by then.
Open(s) ==
    /\ pc[s] = "new"
    /\ \/ /\ Opened(s, "issuerkey", "running")
          /\ c2d' = [c2d EXCEPT ![s] = <<[kind |-> "issuerkey"]>>]
          /\ Goto(s, "idrequest")
       \/ /\ Opened(s, "gone", "error") \/ UNCHANGED <<card, handler, status>>
          /\ Return(s, "error")
          /\ UNCHANGED c2d
    /\ UNCHANGED <<request, cert, issued, d2c, closed, made, stored, finalized>>

\* Mutant: the signature of the identity contents is not verified.
RequestVerifiesUnsigned(s, m) == m.kind = "idrequest"

\* Parsing, decryption with the issuer's private key and the signature by the
\* AIK over contents that name the issuer key: the request must be made for
\* the issuer key of this session.
RequestVerifies(s, m) == m.kind = "idrequest" /\ m.issuer = s

RecvIdRequest(s) ==
    /\ pc[s] = "idrequest"
    /\ \/ \E m \in ToClient :
             /\ Received(s, m)
             /\ \/ /\ RequestVerifies(s, m)
                   /\ request' = [request EXCEPT ![s] = {m}]
                   /\ Goto(s, "issue")
                   /\ UNCHANGED <<cert, c2d, closed, status, issued, deviceVars>>
                \/ ~RequestVerifies(s, m) /\ FailHere(s)
       \/ StreamOver(s) /\ FailHere(s) /\ UNCHANGED d2c

\* IssueAikCert; the certificate exists even if its answer is lost.
IssueAik(s) ==
    /\ pc[s] = "issue"
    /\ \E r \in request[s] :
          LET new == [id |-> r.id, aik |-> r.aik, session |-> s] IN
          \/ /\ issued' = issued \cup {new}
             /\ cert' = [cert EXCEPT ![s] = new]
             /\ Goto(s, "payload")
          \/ /\ issued' \in {issued, issued \cup {new}}
             /\ Return(s, "error")
             /\ UNCHANGED cert
    /\ UNCHANGED <<request, streamVars, deviceVars>>

\* Mutant: a missing record is not noticed.
SendPayloadUnchecked(s) ==
    /\ pc[s] = "payload"
    /\ \/ /\ Send(s, [kind |-> "payload", ek   |-> RotDB[cert[s].id],
                                          cert |-> cert[s]])
          /\ Goto(s, "confirm")
          /\ UNCHANGED <<request, cert, closed, status, issued, deviceVars>>
       \/ FailHere(s)
    /\ UNCHANGED d2c

\* fetchEK for the identity in the request, encryption to that EK and Send.
SendPayload(s) ==
    /\ pc[s] = "payload"
    /\ \/ /\ RotDB[cert[s].id] # NoCard
          /\ Send(s, [kind |-> "payload", ek   |-> RotDB[cert[s].id],
                                          cert |-> cert[s]])
          /\ Goto(s, "confirm")
          /\ UNCHANGED <<request, cert, closed, status, issued, deviceVars>>
       \/ FailHere(s)
    /\ UNCHANGED d2c

\* Mutant: any certificate that is not empty confirms.
ConfirmsAny(s, m) == m.kind = "aikcert"

\* The certificate the card returns must be the one issued in this session.
Confirms(s, m) == m.kind = "aikcert" /\ m.cert = cert[s]

\* Mutant: the client does not wait for the end of the stream.
AfterFinalizeAtOnce(s) == Return(s, "ok")
\* What the client does next once finalize is sent.
AfterFinalize(s) == Goto(s, "end")

RecvAikCert(s) ==
    /\ pc[s] = "confirm"
    /\ \/ \E m \in ToClient :
             /\ Received(s, m)
             /\ \/ /\ Confirms(s, m)
                   /\ Send(s, [kind |-> "finalize"])
                   /\ AfterFinalize(s)
                   /\ UNCHANGED <<request, cert, closed, status, issued,
                                  deviceVars>>
                \/ /\ Confirms(s, m) => status[s] # "running"
                   /\ FailHere(s)
       \/ StreamOver(s) /\ FailHere(s) /\ UNCHANGED d2c

\* Mutant: the client returns without closing its direction.
CloseSendForgotten(s) == UNCHANGED closed
CloseSend(s) == closed' = [closed EXCEPT ![s] = TRUE]

\* Mutant: the client waits for a message and does not expect the end.
RecvEndMessageOnly(s) ==
    /\ pc[s] = "end"
    /\ \E m \in ToClient : Received(s, m)
    /\ CloseSend(s) /\ Return(s, "ok")
    /\ UNCHANGED <<request, cert, issued, c2d, status, deviceVars>>

\* The last Recv.  At io.EOF the session is over; after a message or an error
\* the client closes its direction, and only an error of that close counts.
RecvEnd(s) ==
    /\ pc[s] = "end"
    /\ \/ /\ StreamOver(s) /\ status[s] = "eof"
          /\ Return(s, "ok")
          /\ UNCHANGED <<closed, d2c>>
       \/ /\ \/ \E m \in ToClient : Received(s, m)
             \/ StreamOver(s) /\ status[s] # "eof" /\ UNCHANGED d2c
          /\ \/ CloseSend(s) /\ Return(s, "ok")
             \/ Return(s, "error") /\ UNCHANGED closed
    /\ UNCHANGED <<request, cert, issued, c2d, status, deviceVars>>

Client(s) ==
    \/ Open(s) \/ RecvIdRequest(s) \/ IssueAik(s) \/ SendPayload(s)
    \/ RecvAikCert(s) \/ RecvEnd(s)

-----------------------------------------------------------------------------
(* The handler on the switch.                                              *)

\* The handler of s takes a message of one kind.
Taken(s, kind) ==
    /\ handler[s] = kind
    /\ c2d[s] # <<>> /\ Head(c2d[s]).kind = kind
    /\ c2d' = [c2d EXCEPT ![s] = Tail(@)]

Reply(s, m, next) ==
    /\ d2c' = [d2c EXCEPT ![s] = Append(@, m)]
    /\ handler' = [handler EXCEPT ![s] = next]
    /\ UNCHANGED status

HandlerEnds(s, st) ==
    /\ handler' = [handler EXCEPT ![s] = "gone"]
    /\ status' = [status EXCEPT ![s] = st]
    /\ UNCHANGED d2c

\* An identity request for a new AIK, or a stale or malformed answer.
MakeIdRequest(s) ==
    /\ Taken(s, "issuerkey")
    /\ \E id \in Card :
          LET fresh == [kind |-> "idrequest", issuer |-> s, id |-> id,
                        aik |-> [card |-> card[s], stream |-> s]]
          IN /\ made' = made \cup {fresh}
             /\ \E m \in made' \cup {[kind |-> "malformed"]} :
                   Reply(s, m, "payload")
    /\ UNCHANGED <<clientVars, closed, card, stored, finalized>>

\* The TPM activates the identity when the payload is encrypted to its EK and
\* the AIK is its own; then the certificate is stored and returned.  A handler
\* that cannot decrypt fails, or returns the certificate it has stored before.
InstallCert(s) ==
    LET p == Head(c2d[s]) IN
    /\ Taken(s, "payload")
    /\ \/ /\ p.ek = card[s] /\ p.cert.aik.card = card[s]
          /\ stored' = [stored EXCEPT ![card[s]] = p.cert]
          /\ Reply(s, [kind |-> "aikcert", cert |-> p.cert], "finalize")
       \/ /\ UNCHANGED stored
          /\ \/ /\ stored[card[s]] # NoCert
                /\ Reply(s, [kind |-> "aikcert", cert |-> stored[card[s]]],
                         "finalize")
             \/ HandlerEnds(s, "error")
    /\ UNCHANGED <<clientVars, closed, card, made, finalized>>

\* finalize: the handler fails, or makes the certificate final and ends the
\* stream in its style.
Finalize(s) ==
    /\ Taken(s, "finalize")
    /\ \/ HandlerEnds(s, "error") /\ UNCHANGED finalized
       \/ /\ finalized' = finalized \cup {s}
          /\ \/ "return" \in EndStyles /\ HandlerEnds(s, "eof")
             \/ /\ "wait" \in EndStyles
                /\ handler' = [handler EXCEPT ![s] = "close"]
                /\ UNCHANGED <<d2c, status>>
             \/ "ack" \in EndStyles /\ Reply(s, [kind |-> "ack"], "close")
    /\ UNCHANGED <<clientVars, closed, card, made, stored>>

\* A waiting handler sees the client's close and returns.
SeeClose(s) ==
    /\ handler[s] = "close" /\ closed[s]
    /\ HandlerEnds(s, "eof")
    /\ UNCHANGED <<clientVars, c2d, closed, card, made, stored, finalized>>

Handler(s) == MakeIdRequest(s) \/ InstallCert(s) \/ Finalize(s) \/ SeeClose(s)

\* The connection breaks: both ends see an error, what is under way is lost.
Break(s) ==
    /\ status[s] = "running"
    /\ handler' = [handler EXCEPT ![s] = "gone"]
    /\ status' = [status EXCEPT ![s] = "error"]
    /\ c2d' = [c2d EXCEPT ![s] = <<>>]
    /\ d2c' = [d2c EXCEPT ![s] = <<>>]
    /\ UNCHANGED <<clientVars, closed, card, made, stored, finalized>>

Next == \E s \in Session : Client(s) \/ Handler(s) \/ Break(s)

Spec == Init /\ [][Next]_vars

\* The client runs and the handler answers; the connection need not break.
FairSpec ==
    /\ Spec
    /\ \A s \in Session : WF_vars(Client(s)) /\ WF_vars(Handler(s))

-----------------------------------------------------------------------------

FinalizeSent(s) == pc[s] = "end" \/ s \in finalized

\* finalize goes only to the TPM whose EK is on record for the identity in
\* the certificate: a stale record or a wrong identity is caught by comparing
\* the returned certificate, whatever the card returns instead.
FinalizeProvesEk ==
    \A s \in Session : FinalizeSent(s) =>
        /\ RotDB[cert[s].id] = card[s]
        /\ cert[s].aik.card = card[s]

\* A certificate is issued only for an AIK made for the issuer key of the same
\* session; an identity request of an earlier stream is not taken.
IssuedForThisStream == \A x \in issued : x.aik.stream = x.session

\* When the stream did not fail, success at the client means that the card
\* made the certificate final.
SuccessOnSoundStream ==
    \A s \in Session :
        result[s] = "ok" /\ status[s] # "error" => s \in finalized

OnItsWay(s, queue, m) == \E i \in DOMAIN queue[s] : queue[s][i] = m

\* How far a session is: a proof is there while the certificate it is for is on
\* its way back, a seal once finalize is on its way.
PromiseStage(s) ==
    CASE s \in finalized                             -> "final"
      [] OnItsWay(s, c2d, [kind |-> "finalize"])     -> "sealed"
      [] pc[s] \in {"new", "idrequest", "issue"}     -> "open"
      [] pc[s] \in {"payload", "confirm"} /\ status[s] = "running" ->
            IF OnItsWay(s, d2c, [kind |-> "aikcert", cert |-> cert[s]])
            THEN "proved" ELSE "certified"
      [] OTHER                                       -> "over"

Promise ==
    INSTANCE AikPromise WITH
        Tpm     <- Card,
        NoParty <- NoCard,
        Record  <- RotDB,
        stage   <- [s \in Session |-> PromiseStage(s)],
        makers  <- [s \in Session |-> {m.aik.card : m \in {x \in made : x.issuer = s}}],
        party   <- [s \in Session |-> IF cert[s] = NoCert THEN NoCard
                                      ELSE <<cert[s].id, cert[s].aik.card>>]

\* The promise of TPM 1.2 enrollment is kept: through breaks, stale answers, wrong
\* identities and stale records every step of client and handler is one of
\* AikPromise or changes nothing of it.
KeepsAikPromise == Promise!Spec

\* Every call returns, while handlers answer.
Termination == \A s \in Session : pc[s] # "new" ~> pc[s] = "done"

\* A handler is not left waiting by a client that succeeded.
HandlerReleased == \A s \in Session : result[s] = "ok" ~> handler[s] = "gone"

\* The message logged on return, "Successfully finalized TPM 1.2 enrollment":
\* a session that succeeds has been made final by the card.
SuccessMeansFinalized == \A s \in Session : result[s] = "ok" => s \in finalized

\* The workflow in the proto file: the client sends finalize and closes the
\* RPC (closes its direction, or sees the stream end).
ClientClosesTheRpc ==
    \A s \in Session : pc[s] = "end" ~> closed[s] \/ status[s] # "running"
=============================================================================
