--------------------------- MODULE RotateAikProofs ---------------------------
(***************************************************************************)
(* RotateAIKCert is type correct, has certificates issued only for AIKs of *)
(* its own stream, and finalizes only cards that proved their EK, for any  *)
(* number of sessions and cards and any RoT database.  What holds of a     *)
(* session is mostly what can be on its stream.                            *)
(*                                                                         *)
(* RotateAIKCert keeps the promise of AikPromise, and success over a sound *)
(* stream means a final certificate, whatever the style of ending the      *)
(* stream: that is the second part.                                        *)
(***************************************************************************)
EXTENDS RotateAik, TLAPS

\* The card of the session has the EK on record for the identity that was
\* certified, and the certified AIK.
Proved(s) ==
    /\ cert[s] \in AikCert
    /\ RotDB[cert[s].id] = card[s]
    /\ cert[s].aik.card = card[s]

Early(s) == pc[s] \in {"new", "idrequest", "issue"}

\* What the client sends: no more than the issuer key before the CA has
\* answered, then its certificate encrypted to the EK on record, and finalize
\* to a card that proved to have that EK.
FromClient(s) ==
    {m \in ToDevice :
        /\ m.kind # "issuerkey" => ~Early(s)
        /\ m.kind = "payload" =>
              /\ m.cert = cert[s]
              /\ m.ek = RotDB[m.cert.id]
        /\ m.kind = "finalize" => Proved(s)}

\* What the handler sends: identity requests of AIKs made for the issuer key
\* they name, and certificates its card could decrypt.
FromHandler(s) ==
    {m \in ToClient :
        /\ m.kind = "idrequest" => m.aik.stream = m.issuer
        /\ m.kind = "aikcert" =>
              /\ RotDB[m.cert.id] = card[s]
              /\ m.cert.aik.card = card[s]}

\* What holds of one session.
Stream(s) ==
    /\ pc[s] = "new" => /\ d2c[s] = <<>> /\ c2d[s] = <<>>
                        /\ handler[s] = "none" /\ status[s] = "none"
    /\ Early(s) => cert[s] = NoCert /\ s \notin finalized
    /\ pc[s] \in {"payload", "confirm", "end"} => cert[s] \in AikCert
    /\ handler[s] \notin {"none", "gone"} => card[s] \in Card
    /\ \A r \in request[s] : r.aik.stream = s
    /\ c2d[s] \in Seq(FromClient(s))
    /\ d2c[s] \in Seq(FromHandler(s))
    /\ FinalizeSent(s) => Proved(s)

\* What is on the cards, at the CA and made by the handlers.
Kept ==
    /\ \A m \in made : m.aik.stream = m.issuer
    /\ \A c \in Card : stored[c] # NoCert => /\ RotDB[stored[c].id] = c
                                             /\ stored[c].aik.card = c
    /\ IssuedForThisStream

AikInv == TypeOK /\ Kept /\ \A s \in Session : Stream(s)

-----------------------------------------------------------------------------
(* Queues.                                                                 *)

\* Messages of one set are messages of a larger one.
LEMMA SeqGrows ==
    ASSUME NEW S, NEW T, S \subseteq T
    PROVE  Seq(S) \subseteq Seq(T)
  OBVIOUS

\* Sending at the end of a queue, and receiving from its front.
LEMMA QueueEnds ==
    ASSUME NEW S, NEW q \in Seq(S)
    PROVE  /\ \A m \in S : Append(q, m) \in Seq(S)
           /\ q # <<>> => Head(q) \in S /\ Tail(q) \in Seq(S)
  OBVIOUS

\* What is received by the client and by the handler.
LEMMA Receiving ==
    ASSUME AikInv, NEW s \in Session
    PROVE  /\ d2c[s] # <<>> =>
                /\ Head(d2c[s]) \in FromHandler(s)
                /\ Tail(d2c[s]) \in Seq(FromHandler(s))
                /\ Tail(d2c[s]) \in Seq(ToClient)
           /\ c2d[s] # <<>> =>
                /\ Head(c2d[s]) \in FromClient(s)
                /\ Tail(c2d[s]) \in Seq(FromClient(s))
                /\ Tail(c2d[s]) \in Seq(ToDevice)
  <1>1. /\ d2c[s] \in Seq(FromHandler(s)) /\ d2c[s] \in Seq(ToClient)
        /\ c2d[s] \in Seq(FromClient(s)) /\ c2d[s] \in Seq(ToDevice)
    BY DEF AikInv, TypeOK, Stream
  <1>2. d2c[s] # <<>> => Tail(d2c[s]) \in Seq(ToClient)
    BY <1>1, QueueEnds
  <1>3. d2c[s] # <<>> => /\ Head(d2c[s]) \in FromHandler(s)
                         /\ Tail(d2c[s]) \in Seq(FromHandler(s))
    BY <1>1, QueueEnds
  <1>4. c2d[s] # <<>> => Tail(c2d[s]) \in Seq(ToDevice)
    BY <1>1, QueueEnds
  <1>5. c2d[s] # <<>> => /\ Head(c2d[s]) \in FromClient(s)
                         /\ Tail(c2d[s]) \in Seq(FromClient(s))
    BY <1>1, QueueEnds
  <1> QED BY <1>2, <1>3, <1>4, <1>5

\* A step of one session leaves what holds of another one alone.
LEMMA StreamKept ==
    ASSUME NEW t \in Session, Stream(t),
           pc'[t] = pc[t], request'[t] = request[t], cert'[t] = cert[t],
           c2d'[t] = c2d[t], d2c'[t] = d2c[t], status'[t] = status[t],
           handler'[t] = handler[t], card'[t] = card[t],
           t \in finalized' <=> t \in finalized
    PROVE  Stream(t)'
  <1>1. FromClient(t)' = FromClient(t) /\ FromHandler(t)' = FromHandler(t)
    BY DEF FromClient, FromHandler, Early, Proved
  <1>2. (FinalizeSent(t) => Proved(t))'
    BY DEF Stream, FinalizeSent, Proved
  <1> QED BY <1>1, <1>2 DEF Stream, Early

\* The stream of a session whose messages are fewer, and whose card and
\* certificate are what they were.
LEMMA SameParties ==
    ASSUME NEW s \in Session, cert'[s] = cert[s], card'[s] = card[s],
           Early(s)' => Early(s)
    PROVE  /\ Seq(FromClient(s)) \subseteq Seq(FromClient(s)')
           /\ Seq(FromHandler(s)) \subseteq Seq(FromHandler(s)')
           /\ Proved(s)' <=> Proved(s)
  <1>1. Proved(s)' <=> Proved(s)
    BY DEF Proved
  <1>2. FromClient(s) \subseteq FromClient(s)'
    BY <1>1 DEF FromClient
  <1>3. FromHandler(s) \subseteq FromHandler(s)'
    BY DEF FromHandler
  <1> QED BY <1>1, <1>2, <1>3, SeqGrows

-----------------------------------------------------------------------------
(* The client.                                                             *)

\* No session has begun.
LEMMA AikInitInv == Init => AikInv
  <1> SUFFICES ASSUME Init PROVE AikInv
    OBVIOUS
  <1>1. TypeOK
    BY DEF Init, TypeOK
  <1>2. Kept
    BY DEF Init, Kept, IssuedForThisStream
  <1>3. ASSUME NEW s \in Session PROVE Stream(s)
    BY <1>3 DEF Init, Stream, Early, FinalizeSent
  <1> QED BY <1>1, <1>2, <1>3 DEF AikInv

\* Errors return and leave the stream as it is, but for a message received.
LEMMA FailInv ==
    ASSUME AikInv, NEW s \in Session, FailHere(s),
           \/ d2c' = d2c
           \/ d2c[s] # <<>> /\ d2c' = [d2c EXCEPT ![s] = Tail(@)]
    PROVE  AikInv'
  <1>1. /\ pc' = [pc EXCEPT ![s] = "done"]
        /\ result' = [result EXCEPT ![s] = "error"]
        /\ UNCHANGED <<request, cert, c2d, closed, status, issued, handler, card,
                       made, stored, finalized>>
    BY DEF FailHere, Return, deviceVars
  <1>2. d2c'[s] \in Seq(FromHandler(s)) /\ d2c'[s] \in Seq(ToClient)
    <2>1. d2c[s] \in Seq(FromHandler(s)) /\ d2c[s] \in Seq(ToClient)
      BY DEF AikInv, TypeOK, Stream
    <2>2. \/ d2c'[s] = d2c[s]
          \/ d2c[s] # <<>> /\ d2c'[s] = Tail(d2c[s])
      BY DEF AikInv, TypeOK
    <2>3. d2c[s] # <<>> => /\ Tail(d2c[s]) \in Seq(FromHandler(s))
                           /\ Tail(d2c[s]) \in Seq(ToClient)
      BY Receiving
    <2> QED BY <2>1, <2>2, <2>3
  <1>3. \A t \in Session : t # s => d2c'[t] = d2c[t]
    BY DEF AikInv, TypeOK
  <1>4. TypeOK'
    <2>1. d2c' \in [Session -> Seq(ToClient)]
      BY <1>2 DEF AikInv, TypeOK
    <2> QED BY <1>1, <2>1 DEF AikInv, TypeOK
  <1>5. Kept'
    BY <1>1 DEF AikInv, Kept, IssuedForThisStream
  <1>6. Stream(s)'
    <2>1. pc'[s] = "done"
      BY <1>1 DEF AikInv, TypeOK
    <2>2. ~Early(s)'
      BY <2>1 DEF Early
    <2> QED BY <1>1, <1>2, <2>1, <2>2, SameParties DEF AikInv, Stream, FinalizeSent
  <1>7. ASSUME NEW t \in Session, t # s PROVE Stream(t)'
    BY <1>1, <1>3, <1>7, StreamKept DEF AikInv, TypeOK
  <1> QED BY <1>4, <1>5, <1>6, <1>7 DEF AikInv

\* The selection is resolved to a card, and the issuer key sent.
LEMMA OpenInv ==
    ASSUME AikInv, NEW s \in Session, Open(s)
    PROVE  AikInv'
  <1>1. pc[s] = "new" /\ d2c[s] = <<>> /\ handler[s] = "none" /\ Early(s)
    BY DEF AikInv, Stream, Open, Early
  <1>2. CASE pc'[s] = "done"
    <2>1. /\ pc' = [pc EXCEPT ![s] = "done"]
          /\ result' = [result EXCEPT ![s] = "error"]
          /\ UNCHANGED <<request, cert, c2d, d2c, closed, issued, made, stored,
                         finalized>>
      BY <1>2 DEF AikInv, TypeOK, Open, Goto, Return
    <2>2. /\ card' \in [Session -> Card \cup {NoCard}]
          /\ handler' = [handler EXCEPT ![s] = handler'[s]]
          /\ status' = [status EXCEPT ![s] = status'[s]]
          /\ handler'[s] \in {"none", "gone"} /\ status'[s] \in {"none", "error"}
          /\ \A t \in Session : t # s => card'[t] = card[t]
      <3>1. CASE Opened(s, "gone", "error")
        BY <3>1 DEF AikInv, TypeOK, Opened
      <3>2. CASE UNCHANGED <<card, handler, status>>
        BY <1>1, <3>2 DEF AikInv, TypeOK, Stream
      <3>3. Opened(s, "gone", "error") \/ UNCHANGED <<card, handler, status>>
        BY <1>2 DEF AikInv, TypeOK, Open, Goto
      <3> QED BY <3>1, <3>2, <3>3
    <2>3. TypeOK'
      <3>1. /\ pc' \in [Session -> {"new", "idrequest", "issue", "payload", "confirm",
                                    "end", "done"}]
            /\ result' \in [Session -> {"none", "ok", "error"}]
        BY <2>1 DEF AikInv, TypeOK
      <3>2. handler' \in [Session -> {"none", "issuerkey", "payload", "finalize",
                                      "close", "gone"}]
        BY <2>2 DEF AikInv, TypeOK
      <3>3. status' \in [Session -> {"none", "running", "eof", "error"}]
        BY <2>2 DEF AikInv, TypeOK
      <3> QED BY <2>1, <2>2, <3>1, <3>2, <3>3 DEF AikInv, TypeOK
    <2>4. Kept'
      BY <2>1 DEF AikInv, Kept, IssuedForThisStream
    <2>5. Stream(s)'
      <3>1. pc'[s] = "done" /\ c2d'[s] = <<>> /\ d2c'[s] = <<>> /\ s \notin finalized'
        BY <1>1, <2>1 DEF AikInv, TypeOK, Stream
      <3>2. ~Early(s)' /\ ~FinalizeSent(s)'
        BY <3>1 DEF Early, FinalizeSent
      <3> QED BY <2>1, <2>2, <3>1, <3>2 DEF AikInv, Stream
    <2>6. ASSUME NEW t \in Session, t # s PROVE Stream(t)'
      <3>1. UNCHANGED <<pc[t], card[t], handler[t], status[t]>>
        BY <2>1, <2>2, <2>6 DEF AikInv, TypeOK
      <3> QED BY <2>1, <3>1, StreamKept DEF AikInv
    <2> QED BY <2>3, <2>4, <2>5, <2>6 DEF AikInv
  <1>3. CASE pc'[s] # "done"
    <2> DEFINE key == [kind |-> "issuerkey"]
    <2>1. PICK c \in Card : card' = [card EXCEPT ![s] = c]
      BY <1>3 DEF AikInv, TypeOK, Open, Opened, Return
    <2>2. /\ pc' = [pc EXCEPT ![s] = "idrequest"]
          /\ handler' = [handler EXCEPT ![s] = "issuerkey"]
          /\ status' = [status EXCEPT ![s] = "running"]
          /\ c2d' = [c2d EXCEPT ![s] = <<key>>]
          /\ UNCHANGED <<result, request, cert, d2c, closed, issued, made, stored,
                         finalized>>
      BY <1>3 DEF AikInv, TypeOK, Open, Opened, Goto, Return
    <2>3. pc'[s] = "idrequest" /\ card'[s] = c /\ handler'[s] = "issuerkey"
          /\ c2d'[s] = <<key>> /\ d2c'[s] = <<>> /\ Early(s)'
      BY <1>1, <2>1, <2>2 DEF AikInv, TypeOK, Early
    <2>4. key \in ToDevice /\ key \in FromClient(s)'
      BY <2>3 DEF ToDevice, FromClient
    <2>5. TypeOK'
      <3>1. <<key>> \in Seq(ToDevice)
        BY <2>4
      <3> HIDE DEF key
      <3> QED BY <2>1, <2>2, <3>1 DEF AikInv, TypeOK
    <2>6. Kept'
      BY <2>2 DEF AikInv, Kept, IssuedForThisStream
    <2>7. Stream(s)'
      <3>1. c2d'[s] \in Seq(FromClient(s)') /\ d2c'[s] \in Seq(FromHandler(s)')
        BY <2>3, <2>4
      <3>2. ~FinalizeSent(s)'
        BY <1>1, <2>2, <2>3 DEF AikInv, Stream, FinalizeSent
      <3> QED BY <1>1, <2>2, <2>3, <3>1, <3>2 DEF AikInv, Stream
    <2>8. ASSUME NEW t \in Session, t # s PROVE Stream(t)'
      <3>1. UNCHANGED <<pc[t], card[t], handler[t], status[t], c2d[t]>>
        BY <2>1, <2>2, <2>8 DEF AikInv, TypeOK
      <3> QED BY <2>2, <3>1, StreamKept DEF AikInv
    <2> QED BY <2>5, <2>6, <2>7, <2>8 DEF AikInv
  <1> QED BY <1>2, <1>3

\* An identity request for the issuer key of the session is kept.
LEMMA RecvIdRequestInv ==
    ASSUME AikInv, NEW s \in Session, RecvIdRequest(s)
    PROVE  AikInv'
  <1>1. CASE StreamOver(s) /\ FailHere(s) /\ UNCHANGED d2c
    BY <1>1, FailInv
  <1>2. ASSUME NEW m \in ToClient, Received(s, m), FailHere(s)
        PROVE  AikInv'
    BY <1>2, FailInv DEF Received
  <1>3. ASSUME NEW m \in ToClient, Received(s, m), RequestVerifies(s, m),
               pc[s] = "idrequest",
               request' = [request EXCEPT ![s] = {m}], Goto(s, "issue"),
               UNCHANGED <<cert, c2d, closed, status, issued, deviceVars>>
        PROVE  AikInv'
    <2>1. /\ pc' = [pc EXCEPT ![s] = "issue"]
          /\ d2c[s] # <<>> /\ m = Head(d2c[s])
          /\ d2c' = [d2c EXCEPT ![s] = Tail(@)]
          /\ UNCHANGED <<result, handler, card, made, stored, finalized>>
      BY <1>3 DEF Received, Goto, deviceVars
    <2>2. m \in FromHandler(s) /\ d2c'[s] \in Seq(FromHandler(s))
          /\ d2c'[s] \in Seq(ToClient)
      BY <2>1, Receiving DEF AikInv, TypeOK
    <2>3. m \in IdRequest /\ m.aik.stream = s
      BY <1>3, <2>2 DEF RequestVerifies, ToClient, IdRequest, FromHandler
    <2>4. pc'[s] = "issue" /\ request'[s] = {m} /\ Early(s) /\ Early(s)'
      BY <1>3, <2>1 DEF AikInv, TypeOK, Early
    <2>5. TypeOK'
      BY <1>3, <2>1, <2>2, <2>3 DEF AikInv, TypeOK
    <2>6. Kept'
      BY <1>3, <2>1 DEF AikInv, Kept, IssuedForThisStream
    <2>7. Stream(s)'
      BY <1>3, <2>1, <2>2, <2>3, <2>4, SameParties DEF AikInv, Stream, FinalizeSent
    <2>8. ASSUME NEW t \in Session, t # s PROVE Stream(t)'
      <3>1. UNCHANGED <<pc[t], request[t], d2c[t]>>
        BY <1>3, <2>1, <2>8 DEF AikInv, TypeOK
      <3> QED BY <1>3, <2>1, <3>1, StreamKept DEF AikInv
    <2> QED BY <2>5, <2>6, <2>7, <2>8 DEF AikInv
  <1> QED BY <1>1, <1>2, <1>3 DEF RecvIdRequest

\* The CA certifies the AIK of the request, even if its answer is lost.
LEMMA IssueAikInv ==
    ASSUME AikInv, NEW s \in Session, IssueAik(s)
    PROVE  AikInv'
  <1>1. PICK r \in request[s] :
          LET new == [id |-> r.id, aik |-> r.aik, session |-> s] IN
          \/ /\ issued' = issued \cup {new}
             /\ cert' = [cert EXCEPT ![s] = new]
             /\ Goto(s, "payload")
          \/ /\ issued' \in {issued, issued \cup {new}}
             /\ Return(s, "error")
             /\ UNCHANGED cert
    BY DEF IssueAik
  <1> DEFINE new == [id |-> r.id, aik |-> r.aik, session |-> s]
  <1>2. /\ pc[s] = "issue"
        /\ UNCHANGED <<request, c2d, d2c, closed, status, handler, card, made,
                       stored, finalized>>
    BY DEF IssueAik, streamVars, deviceVars
  <1>3. new \in AikCert /\ new.aik.stream = s /\ new.session = s
    <2>1. r \in IdRequest /\ r.aik.stream = s
      BY DEF AikInv, TypeOK, Stream
    <2> QED BY <2>1 DEF IdRequest, AikCert
  <1> HIDE DEF new
  <1>4. /\ issued' \in {issued, issued \cup {new}}
        /\ cert'[s] \in {cert[s], new}
        /\ cert' = [cert EXCEPT ![s] = cert'[s]]
        /\ pc' = [pc EXCEPT ![s] = pc'[s]]
        /\ \/ pc'[s] = "payload" /\ cert'[s] = new
           \/ pc'[s] = "done" /\ cert' = cert
        /\ result' \in [Session -> {"none", "ok", "error"}]
    <2>1. CASE /\ issued' = issued \cup {new}
               /\ cert' = [cert EXCEPT ![s] = new]
               /\ Goto(s, "payload")
      BY <2>1 DEF AikInv, TypeOK, Goto
    <2>2. CASE /\ issued' \in {issued, issued \cup {new}}
               /\ Return(s, "error")
               /\ UNCHANGED cert
      BY <2>2 DEF AikInv, TypeOK, Return
    <2> QED BY <1>1, <2>1, <2>2 DEF new
  <1>5. TypeOK'
    <2>1. pc' \in [Session -> {"new", "idrequest", "issue", "payload", "confirm",
                               "end", "done"}]
      BY <1>4 DEF AikInv, TypeOK
    <2>2. cert' \in [Session -> AikCert \cup {NoCert}]
      <3>1. cert'[s] \in AikCert \cup {NoCert}
        BY <1>3, <1>4 DEF AikInv, TypeOK
      <3> QED BY <1>4, <3>1 DEF AikInv, TypeOK
    <2>3. issued' \subseteq AikCert
      BY <1>3, <1>4 DEF AikInv, TypeOK
    <2> QED BY <1>2, <1>4, <2>1, <2>2, <2>3 DEF AikInv, TypeOK
  <1>6. Kept'
    BY <1>2, <1>3, <1>4 DEF AikInv, Kept, IssuedForThisStream
  <1>7. Stream(s)'
    <2>1. Early(s) /\ ~Early(s)' /\ s \notin finalized
      BY <1>2, <1>4 DEF AikInv, Stream, Early
    <2>2. \A m \in FromClient(s) : m.kind = "issuerkey"
      BY <2>1 DEF FromClient
    <2>3. FromClient(s) \subseteq FromClient(s)'
      BY <2>1, <2>2 DEF FromClient
    <2>4. FromHandler(s)' = FromHandler(s)
      BY <1>2 DEF FromHandler
    <2>5. c2d'[s] \in Seq(FromClient(s)') /\ d2c'[s] \in Seq(FromHandler(s)')
      BY <1>2, <2>3, <2>4, SeqGrows DEF AikInv, Stream
    <2>6. ~FinalizeSent(s)'
      BY <1>2, <1>4, <2>1 DEF FinalizeSent
    <2>7. pc'[s] # "new" /\ (pc'[s] \in {"payload", "confirm", "end"} => cert'[s] \in AikCert)
      BY <1>3, <1>4
    <2> QED BY <1>2, <2>1, <2>5, <2>6, <2>7 DEF AikInv, Stream
  <1>8. ASSUME NEW t \in Session, t # s PROVE Stream(t)'
    <2>1. UNCHANGED <<pc[t], cert[t]>>
      BY <1>4, <1>8 DEF AikInv, TypeOK
    <2> QED BY <1>2, <2>1, StreamKept DEF AikInv
  <1> QED BY <1>5, <1>6, <1>7, <1>8 DEF AikInv

\* A message of the client joins what is on the stream, and nothing but its
\* place changes.
LEMMA SendInv ==
    ASSUME AikInv, NEW s \in Session, NEW m, Send(s, m), m \in ToDevice,
           NEW p \in {"confirm", "end"}, pc[s] \in {"payload", "confirm"},
           p = "end" => Proved(s), m.kind # "issuerkey",
           m.kind = "payload" => m.cert = cert[s] /\ m.ek = RotDB[m.cert.id],
           m.kind = "finalize" => Proved(s), Goto(s, p),
           d2c' = d2c \/ (d2c[s] # <<>> /\ d2c' = [d2c EXCEPT ![s] = Tail(@)]),
           UNCHANGED <<request, cert, closed, status, issued, deviceVars>>
    PROVE  AikInv'
  <1>1. /\ c2d' = [c2d EXCEPT ![s] = Append(@, m)]
        /\ pc' = [pc EXCEPT ![s] = p]
        /\ UNCHANGED <<result, handler, card, made, stored, finalized>>
    BY DEF Send, Goto, deviceVars
  <1>2. /\ d2c'[s] \in Seq(FromHandler(s)) /\ d2c'[s] \in Seq(ToClient)
        /\ \A t \in Session \ {s} : d2c'[t] = d2c[t]
        /\ d2c' = [d2c EXCEPT ![s] = d2c'[s]]
    <2>1. /\ \/ d2c'[s] = d2c[s]
             \/ d2c[s] # <<>> /\ d2c'[s] = Tail(d2c[s])
          /\ \A t \in Session \ {s} : d2c'[t] = d2c[t]
          /\ d2c' = [d2c EXCEPT ![s] = d2c'[s]]
      BY DEF AikInv, TypeOK
    <2>2. d2c[s] \in Seq(FromHandler(s)) /\ d2c[s] \in Seq(ToClient)
      BY DEF AikInv, TypeOK, Stream
    <2>3. d2c[s] # <<>> => /\ Tail(d2c[s]) \in Seq(FromHandler(s))
                           /\ Tail(d2c[s]) \in Seq(ToClient)
      BY Receiving
    <2> QED BY <2>1, <2>2, <2>3
  <1>3. c2d'[s] = Append(c2d[s], m) /\ pc'[s] = p /\ ~Early(s) /\ ~Early(s)'
    BY <1>1 DEF AikInv, TypeOK, Early
  <1>4. m \in FromClient(s)
    BY <1>3 DEF FromClient
  <1>5. c2d'[s] \in Seq(ToDevice) /\ c2d'[s] \in Seq(FromClient(s))
    <2>1. c2d[s] \in Seq(ToDevice) /\ c2d[s] \in Seq(FromClient(s))
      BY DEF AikInv, TypeOK, Stream
    <2>2. Append(c2d[s], m) \in Seq(ToDevice)
      BY <2>1, QueueEnds
    <2>3. Append(c2d[s], m) \in Seq(FromClient(s))
      BY <1>4, <2>1, QueueEnds
    <2> QED BY <1>3, <2>2, <2>3
  <1>6. TypeOK'
    <2>1. c2d' \in [Session -> Seq(ToDevice)]
      BY <1>1, <1>3, <1>5 DEF AikInv, TypeOK
    <2>2. d2c' \in [Session -> Seq(ToClient)]
      BY <1>2 DEF AikInv, TypeOK
    <2> QED BY <1>1, <2>1, <2>2 DEF AikInv, TypeOK
  <1>7. Kept'
    BY <1>1 DEF AikInv, Kept, IssuedForThisStream
  <1>8. Stream(s)'
    BY <1>1, <1>2, <1>3, <1>5, SameParties DEF AikInv, Stream, FinalizeSent
  <1>9. ASSUME NEW t \in Session, t # s PROVE Stream(t)'
    <2>1. UNCHANGED <<pc[t], c2d[t], d2c[t]>>
      BY <1>1, <1>2, <1>9 DEF AikInv, TypeOK
    <2> QED BY <1>1, <2>1, StreamKept DEF AikInv
  <1> QED BY <1>6, <1>7, <1>8, <1>9 DEF AikInv

\* The certificate goes out encrypted to the EK on record, if there is one.
LEMMA SendPayloadInv ==
    ASSUME AikInv, NEW s \in Session, SendPayload(s)
    PROVE  AikInv'
  <1> DEFINE m == [kind |-> "payload", ek |-> RotDB[cert[s].id], cert |-> cert[s]]
  <1>1. CASE FailHere(s) /\ UNCHANGED d2c
    BY <1>1, FailInv
  <1>2. CASE /\ RotDB[cert[s].id] # NoCard /\ Send(s, m) /\ Goto(s, "confirm")
             /\ UNCHANGED <<request, cert, closed, status, issued, deviceVars>>
             /\ UNCHANGED d2c
    <2>1. pc[s] = "payload" /\ cert[s] \in AikCert
      BY DEF SendPayload, AikInv, Stream
    <2>2. m \in ToDevice
      <3>1. cert[s].id \in Card
        BY <2>1 DEF AikCert
      <3>2. RotDB[cert[s].id] \in Card
        BY <1>2, <3>1, AikAssumption
      <3> QED BY <2>1, <3>2 DEF ToDevice
    <2>3. m.kind = "payload" /\ m.cert = cert[s] /\ m.ek = RotDB[m.cert.id]
      OBVIOUS
    <2> HIDE DEF m
    <2> QED BY <1>2, <2>1, <2>2, <2>3, SendInv
  <1> QED BY <1>1, <1>2 DEF SendPayload

\* finalize goes out when the card returned the certificate of this session.
LEMMA RecvAikCertInv ==
    ASSUME AikInv, NEW s \in Session, RecvAikCert(s)
    PROVE  AikInv'
  <1>1. CASE StreamOver(s) /\ FailHere(s) /\ UNCHANGED d2c
    BY <1>1, FailInv
  <1>2. ASSUME NEW m \in ToClient, Received(s, m), FailHere(s)
        PROVE  AikInv'
    BY <1>2, FailInv DEF Received
  <1>3. ASSUME NEW m \in ToClient, Received(s, m), Confirms(s, m),
               Send(s, [kind |-> "finalize"]), AfterFinalize(s),
               UNCHANGED <<request, cert, closed, status, issued, deviceVars>>
        PROVE  AikInv'
    <2> DEFINE n == [kind |-> "finalize"]
    <2>1. pc[s] = "confirm" /\ cert[s] \in AikCert
      BY DEF RecvAikCert, AikInv, Stream
    <2>2. d2c[s] # <<>> /\ m = Head(d2c[s]) /\ d2c' = [d2c EXCEPT ![s] = Tail(@)]
      BY <1>3 DEF Received
    <2>3. m \in FromHandler(s)
      BY <2>2, Receiving
    <2>4. Proved(s)
      BY <1>3, <2>1, <2>3 DEF Confirms, FromHandler, Proved
    <2>5. n \in ToDevice /\ n.kind = "finalize"
      BY DEF ToDevice
    <2>6. Send(s, n) /\ Goto(s, "end")
      BY <1>3 DEF AfterFinalize
    <2> HIDE DEF n
    <2> QED BY <1>3, <2>1, <2>2, <2>4, <2>5, <2>6, SendInv
  <1> QED BY <1>1, <1>2, <1>3 DEF RecvAikCert

\* At the end of the stream, or after a last message or error, the call returns.
LEMMA RecvEndInv ==
    ASSUME AikInv, NEW s \in Session, RecvEnd(s)
    PROVE  AikInv'
  <1>1. /\ pc[s] = "end"
        /\ pc' = [pc EXCEPT ![s] = "done"]
        /\ result' \in [Session -> {"none", "ok", "error"}]
        /\ closed' \in [Session -> BOOLEAN]
        /\ \/ d2c' = d2c
           \/ d2c[s] # <<>> /\ d2c' = [d2c EXCEPT ![s] = Tail(@)]
        /\ UNCHANGED <<request, cert, issued, c2d, status, handler, card, made,
                       stored, finalized>>
    BY DEF AikInv, TypeOK, RecvEnd, Received, CloseSend, Return, deviceVars
  <1>2. /\ d2c'[s] \in Seq(FromHandler(s)) /\ d2c'[s] \in Seq(ToClient)
        /\ \A t \in Session \ {s} : d2c'[t] = d2c[t]
        /\ d2c' = [d2c EXCEPT ![s] = d2c'[s]]
    <2>1. /\ \/ d2c'[s] = d2c[s]
             \/ d2c[s] # <<>> /\ d2c'[s] = Tail(d2c[s])
          /\ \A t \in Session \ {s} : d2c'[t] = d2c[t]
          /\ d2c' = [d2c EXCEPT ![s] = d2c'[s]]
      BY <1>1 DEF AikInv, TypeOK
    <2>2. d2c[s] \in Seq(FromHandler(s)) /\ d2c[s] \in Seq(ToClient)
      BY DEF AikInv, TypeOK, Stream
    <2>3. d2c[s] # <<>> => /\ Tail(d2c[s]) \in Seq(FromHandler(s))
                           /\ Tail(d2c[s]) \in Seq(ToClient)
      BY Receiving
    <2> QED BY <2>1, <2>2, <2>3
  <1>3. TypeOK'
    <2>1. d2c' \in [Session -> Seq(ToClient)]
      BY <1>2 DEF AikInv, TypeOK
    <2> QED BY <1>1, <2>1 DEF AikInv, TypeOK
  <1>4. Kept'
    BY <1>1 DEF AikInv, Kept, IssuedForThisStream
  <1>5. Stream(s)'
    <2>1. pc'[s] = "done" /\ ~Early(s)'
      BY <1>1 DEF AikInv, TypeOK, Early
    <2> QED BY <1>1, <1>2, <2>1, SameParties DEF AikInv, Stream, FinalizeSent
  <1>6. ASSUME NEW t \in Session, t # s PROVE Stream(t)'
    <2>1. UNCHANGED <<pc[t], d2c[t]>>
      BY <1>1, <1>2, <1>6 DEF AikInv, TypeOK
    <2> QED BY <1>1, <2>1, StreamKept DEF AikInv
  <1> QED BY <1>3, <1>4, <1>5, <1>6 DEF AikInv

-----------------------------------------------------------------------------
(* The handler and the stream.                                             *)

\* A step of the handler of s and of the stream: the message that was taken is
\* gone, and at most one is sent.
LEMMA HandlerStep ==
    ASSUME AikInv, NEW s \in Session,
           UNCHANGED <<pc, result, request, cert, closed, issued, card>>,
           NEW q, c2d' = [c2d EXCEPT ![s] = q],
           q \in Seq(FromClient(s)), q \in Seq(ToDevice),
           NEW r, d2c' = [d2c EXCEPT ![s] = r],
           r \in Seq(FromHandler(s)), r \in Seq(ToClient),
           NEW h \in {"payload", "finalize", "close", "gone"},
           handler' = [handler EXCEPT ![s] = h],
           h # "gone" => card[s] \in Card,
           NEW st \in {"running", "eof", "error"},
           status' \in {status, [status EXCEPT ![s] = st]},
           pc[s] # "new",
           finalized' \in {finalized, finalized \cup {s}},
           s \in finalized' \ finalized => ~Early(s) /\ Proved(s),
           Kept', made' \subseteq IdRequest, stored' \in [Card -> AikCert \cup {NoCert}]
    PROVE  AikInv'
  <1>1. TypeOK'
    <2>1. c2d' \in [Session -> Seq(ToDevice)] /\ d2c' \in [Session -> Seq(ToClient)]
      BY DEF AikInv, TypeOK
    <2> QED BY <2>1 DEF AikInv, TypeOK
  <1>2. Stream(s)'
    <2>1. c2d'[s] = q /\ d2c'[s] = r /\ handler'[s] = h
      BY DEF AikInv, TypeOK
    <2>2. Early(s)' <=> Early(s)
      BY DEF Early
    <2>3. /\ c2d'[s] \in Seq(FromClient(s)') /\ d2c'[s] \in Seq(FromHandler(s)')
          /\ Proved(s)' <=> Proved(s)
      BY <2>1, <2>2, SameParties
    <2>4. FinalizeSent(s)' => Proved(s)'
      BY <2>3 DEF AikInv, Stream, FinalizeSent
    <2>5. Early(s)' => cert'[s] = NoCert /\ s \notin finalized'
      BY <2>2 DEF AikInv, Stream
    <2> QED BY <2>1, <2>3, <2>4, <2>5 DEF AikInv, Stream
  <1>3. ASSUME NEW t \in Session, t # s PROVE Stream(t)'
    <2>1. UNCHANGED <<c2d[t], d2c[t], handler[t], status[t]>>
      BY <1>3 DEF AikInv, TypeOK
    <2>2. t \in finalized' <=> t \in finalized
      BY <1>3
    <2> QED BY <2>1, <2>2, StreamKept DEF AikInv
  <1> QED BY <1>1, <1>2, <1>3 DEF AikInv

\* What the handler takes off the stream.
LEMMA TakenMessage ==
    ASSUME AikInv, NEW s \in Session, NEW kind \in {"issuerkey", "payload", "finalize"},
           Taken(s, kind)
    PROVE  /\ Head(c2d[s]) \in FromClient(s) /\ Head(c2d[s]).kind = kind
           /\ c2d' = [c2d EXCEPT ![s] = Tail(c2d[s])]
           /\ Tail(c2d[s]) \in Seq(FromClient(s)) /\ Tail(c2d[s]) \in Seq(ToDevice)
           /\ d2c[s] \in Seq(FromHandler(s)) /\ d2c[s] \in Seq(ToClient)
           /\ card[s] \in Card /\ pc[s] # "new"
           /\ d2c = [d2c EXCEPT ![s] = d2c[s]]
  <1>1. handler[s] = kind /\ c2d[s] # <<>> /\ Head(c2d[s]).kind = kind
        /\ c2d' = [c2d EXCEPT ![s] = Tail(c2d[s])]
    BY DEF Taken
  <1>2. card[s] \in Card /\ pc[s] # "new" /\ d2c[s] \in Seq(FromHandler(s))
    BY <1>1 DEF AikInv, Stream
  <1>3. d2c[s] \in Seq(ToClient) /\ d2c = [d2c EXCEPT ![s] = d2c[s]]
    BY DEF AikInv, TypeOK
  <1>4. /\ Head(c2d[s]) \in FromClient(s)
        /\ Tail(c2d[s]) \in Seq(FromClient(s)) /\ Tail(c2d[s]) \in Seq(ToDevice)
    BY <1>1, Receiving
  <1> QED BY <1>1, <1>2, <1>3, <1>4

\* A reply of the handler joins the others on the stream.
LEMMA ReplyQueue ==
    ASSUME AikInv, NEW s \in Session, NEW m \in FromHandler(s), m \in ToClient
    PROVE  /\ Append(d2c[s], m) \in Seq(FromHandler(s))
           /\ Append(d2c[s], m) \in Seq(ToClient)
  <1>1. d2c[s] \in Seq(FromHandler(s)) /\ d2c[s] \in Seq(ToClient)
    BY DEF AikInv, TypeOK, Stream
  <1>2. Append(d2c[s], m) \in Seq(FromHandler(s))
    BY <1>1, QueueEnds
  <1>3. Append(d2c[s], m) \in Seq(ToClient)
    BY <1>1, QueueEnds
  <1> QED BY <1>2, <1>3

\* The card makes an AIK for the issuer key; the answer may be another one.
LEMMA MakeIdRequestInv ==
    ASSUME AikInv, NEW s \in Session, MakeIdRequest(s)
    PROVE  AikInv'
  <1>1. Taken(s, "issuerkey")
        /\ UNCHANGED <<pc, result, request, cert, issued, closed, card, stored, finalized>>
    BY DEF MakeIdRequest, clientVars
  <1>2. /\ c2d' = [c2d EXCEPT ![s] = Tail(c2d[s])]
        /\ Tail(c2d[s]) \in Seq(FromClient(s)) /\ Tail(c2d[s]) \in Seq(ToDevice)
        /\ card[s] \in Card /\ pc[s] # "new"
    BY <1>1, TakenMessage
  <1>3. PICK id \in Card :
          LET fresh == [kind |-> "idrequest", issuer |-> s, id |-> id,
                        aik |-> [card |-> card[s], stream |-> s]]
          IN /\ made' = made \cup {fresh}
             /\ \E m \in made' \cup {[kind |-> "malformed"]} :
                   Reply(s, m, "payload")
    BY DEF MakeIdRequest
  <1> DEFINE fresh == [kind |-> "idrequest", issuer |-> s, id |-> id,
                       aik |-> [card |-> card[s], stream |-> s]]
  <1>4. fresh \in IdRequest /\ fresh.aik.stream = fresh.issuer
    BY <1>2 DEF IdRequest, Aik
  <1>5. made' = made \cup {fresh}
    BY <1>3
  <1> HIDE DEF fresh
  <1>6. PICK m \in made' \cup {[kind |-> "malformed"]} : Reply(s, m, "payload")
    BY <1>3
  <1>7. made' \subseteq IdRequest /\ \A x \in made' : x.aik.stream = x.issuer
    BY <1>4, <1>5 DEF AikInv, TypeOK, Kept
  <1>8. m \in FromHandler(s) /\ m \in ToClient
    <2>1. CASE m \in made'
      BY <1>7, <2>1 DEF FromHandler, ToClient, IdRequest
    <2>2. CASE m = [kind |-> "malformed"]
      BY <2>2 DEF FromHandler, ToClient
    <2> QED BY <2>1, <2>2
  <1>9. /\ d2c' = [d2c EXCEPT ![s] = Append(d2c[s], m)]
        /\ handler' = [handler EXCEPT ![s] = "payload"]
        /\ status' = status
    BY <1>6 DEF Reply
  <1>10. Kept'
    BY <1>1, <1>7 DEF AikInv, Kept, IssuedForThisStream
  <1>11. /\ Append(d2c[s], m) \in Seq(FromHandler(s))
         /\ Append(d2c[s], m) \in Seq(ToClient)
    BY <1>8, ReplyQueue
  <1>12. stored' \in [Card -> AikCert \cup {NoCert}]
    BY <1>1 DEF AikInv, TypeOK
  <1> QED BY <1>1, <1>2, <1>7, <1>9, <1>10, <1>11, <1>12, HandlerStep

\* A card stores the certificate of its own AIK under its own EK, and returns
\* what it has stored.
LEMMA InstallCertInv ==
    ASSUME AikInv, NEW s \in Session, InstallCert(s)
    PROVE  AikInv'
  <1> DEFINE p == Head(c2d[s])
             full(x) == [kind |-> "aikcert", cert |-> x]
  <1>1. Taken(s, "payload")
        /\ UNCHANGED <<pc, result, request, cert, issued, closed, card, made, finalized>>
    BY DEF InstallCert, clientVars
  <1>2. /\ c2d' = [c2d EXCEPT ![s] = Tail(c2d[s])]
        /\ Tail(c2d[s]) \in Seq(FromClient(s)) /\ Tail(c2d[s]) \in Seq(ToDevice)
        /\ d2c[s] \in Seq(FromHandler(s)) /\ d2c[s] \in Seq(ToClient)
        /\ card[s] \in Card /\ pc[s] # "new"
        /\ p \in FromClient(s) /\ p.kind = "payload"
        /\ d2c = [d2c EXCEPT ![s] = d2c[s]]
    BY <1>1, TakenMessage
  <1>3. p.cert \in AikCert /\ p.ek = RotDB[p.cert.id]
    BY <1>2 DEF FromClient, ToDevice
  <1> HIDE DEF p
  <1>4. made' \subseteq IdRequest
    BY <1>1 DEF AikInv, TypeOK
  <1>5. ASSUME NEW x \in AikCert, RotDB[x.id] = card[s], x.aik.card = card[s],
               Reply(s, full(x), "finalize"), stored' = [stored EXCEPT ![card[s]] = x]
        PROVE  AikInv'
    <2>1. full(x) \in ToClient /\ full(x) \in FromHandler(s)
      BY <1>5 DEF FromHandler, ToClient
    <2>2. /\ Append(d2c[s], full(x)) \in Seq(FromHandler(s))
          /\ Append(d2c[s], full(x)) \in Seq(ToClient)
      <3> HIDE DEF full
      <3> QED BY <2>1, ReplyQueue
    <2>3. stored' \in [Card -> AikCert \cup {NoCert}]
      BY <1>5 DEF AikInv, TypeOK
    <2>4. Kept'
      BY <1>1, <1>5 DEF AikInv, TypeOK, Kept, IssuedForThisStream
    <2>5. /\ d2c' = [d2c EXCEPT ![s] = Append(d2c[s], full(x))]
          /\ handler' = [handler EXCEPT ![s] = "finalize"]
          /\ status' = status
      BY <1>5 DEF Reply
    <2> HIDE DEF full
    <2> QED BY <1>1, <1>2, <1>4, <2>2, <2>3, <2>4, <2>5, HandlerStep
  <1>6. CASE /\ p.ek = card[s] /\ p.cert.aik.card = card[s]
             /\ stored' = [stored EXCEPT ![card[s]] = p.cert]
             /\ Reply(s, full(p.cert), "finalize")
    BY <1>3, <1>5, <1>6
  <1>7. CASE /\ UNCHANGED stored /\ stored[card[s]] # NoCert
             /\ Reply(s, full(stored[card[s]]), "finalize")
    <2>1. /\ stored[card[s]] \in AikCert
          /\ RotDB[stored[card[s]].id] = card[s]
          /\ stored[card[s]].aik.card = card[s]
          /\ stored' = [stored EXCEPT ![card[s]] = stored[card[s]]]
      BY <1>2, <1>7 DEF AikInv, TypeOK, Kept
    <2> QED BY <1>5, <1>7, <2>1
  <1>8. CASE UNCHANGED stored /\ HandlerEnds(s, "error")
    <2>1. Kept' /\ stored' \in [Card -> AikCert \cup {NoCert}]
      BY <1>1, <1>8 DEF AikInv, TypeOK, Kept, IssuedForThisStream
    <2>2. /\ d2c' = [d2c EXCEPT ![s] = d2c[s]]
          /\ handler' = [handler EXCEPT ![s] = "gone"]
          /\ status' = [status EXCEPT ![s] = "error"]
      BY <1>2, <1>8 DEF HandlerEnds
    <2> QED BY <1>1, <1>2, <1>4, <2>1, <2>2, HandlerStep
  <1> QED BY <1>6, <1>7, <1>8 DEF InstallCert, p

\* finalize is sent only to a card with its proof.
LEMMA FinalizeInv ==
    ASSUME AikInv, NEW s \in Session, Finalize(s)
    PROVE  AikInv'
  <1>1. Taken(s, "finalize")
        /\ UNCHANGED <<pc, result, request, cert, issued, closed, card, made, stored>>
    BY DEF Finalize, clientVars
  <1>2. /\ c2d' = [c2d EXCEPT ![s] = Tail(c2d[s])]
        /\ Tail(c2d[s]) \in Seq(FromClient(s)) /\ Tail(c2d[s]) \in Seq(ToDevice)
        /\ d2c[s] \in Seq(FromHandler(s)) /\ d2c[s] \in Seq(ToClient)
        /\ card[s] \in Card /\ pc[s] # "new"
        /\ Head(c2d[s]) \in FromClient(s) /\ Head(c2d[s]).kind = "finalize"
        /\ d2c = [d2c EXCEPT ![s] = d2c[s]]
    BY <1>1, TakenMessage
  <1>3. Proved(s) /\ ~Early(s)
    BY <1>2 DEF FromClient
  <1>4. Kept' /\ made' \subseteq IdRequest /\ stored' \in [Card -> AikCert \cup {NoCert}]
    BY <1>1 DEF AikInv, TypeOK, Kept, IssuedForThisStream
  <1>5. finalized' \in {finalized, finalized \cup {s}}
    BY DEF Finalize
  <1>6. CASE UNCHANGED status /\ UNCHANGED d2c /\ handler' = [handler EXCEPT ![s] = "close"]
    BY <1>1, <1>2, <1>3, <1>4, <1>5, <1>6, HandlerStep
  <1>7. CASE Reply(s, [kind |-> "ack"], "close")
    <2> DEFINE ack == [kind |-> "ack"]
    <2>1. ack \in FromHandler(s) /\ ack \in ToClient
      BY DEF FromHandler, ToClient
    <2>2. /\ d2c' = [d2c EXCEPT ![s] = Append(d2c[s], ack)]
          /\ handler' = [handler EXCEPT ![s] = "close"]
          /\ status' = status
      BY <1>7 DEF Reply
    <2> HIDE DEF ack
    <2>3. /\ Append(d2c[s], ack) \in Seq(FromHandler(s))
          /\ Append(d2c[s], ack) \in Seq(ToClient)
      BY <2>1, ReplyQueue
    <2> QED BY <1>1, <1>2, <1>3, <1>4, <1>5, <2>2, <2>3, HandlerStep
  <1>8. ASSUME NEW st \in {"eof", "error"}, HandlerEnds(s, st)
        PROVE  AikInv'
    <2>1. /\ d2c' = [d2c EXCEPT ![s] = d2c[s]]
          /\ handler' = [handler EXCEPT ![s] = "gone"]
          /\ status' = [status EXCEPT ![s] = st]
      BY <1>2, <1>8 DEF HandlerEnds
    <2> QED BY <1>1, <1>2, <1>3, <1>4, <1>5, <2>1, HandlerStep
  <1> QED BY <1>6, <1>7, <1>8 DEF Finalize

\* The handler returns, or the connection breaks and loses what is under way.
LEMMA StreamEndsInv ==
    ASSUME AikInv, NEW s \in Session, SeeClose(s) \/ Break(s)
    PROVE  AikInv'
  <1>1. Kept' /\ made' \subseteq IdRequest /\ stored' \in [Card -> AikCert \cup {NoCert}]
        /\ UNCHANGED <<pc, result, request, cert, issued, closed, card, finalized>>
        /\ handler' = [handler EXCEPT ![s] = "gone"]
    BY DEF AikInv, TypeOK, Kept, IssuedForThisStream, SeeClose, Break, HandlerEnds,
           clientVars
  <1>2. pc[s] # "new"
    BY DEF AikInv, Stream, SeeClose, Break
  <1>3. CASE SeeClose(s)
    <2>1. /\ c2d' = [c2d EXCEPT ![s] = c2d[s]] /\ d2c' = [d2c EXCEPT ![s] = d2c[s]]
          /\ status' = [status EXCEPT ![s] = "eof"]
      BY <1>3 DEF AikInv, TypeOK, SeeClose, HandlerEnds
    <2>2. /\ c2d[s] \in Seq(FromClient(s)) /\ c2d[s] \in Seq(ToDevice)
          /\ d2c[s] \in Seq(FromHandler(s)) /\ d2c[s] \in Seq(ToClient)
      BY DEF AikInv, TypeOK, Stream
    <2> QED BY <1>1, <1>2, <2>1, <2>2, HandlerStep
  <1>4. CASE Break(s)
    <2>1. /\ c2d' = [c2d EXCEPT ![s] = <<>>] /\ d2c' = [d2c EXCEPT ![s] = <<>>]
          /\ status' = [status EXCEPT ![s] = "error"]
      BY <1>4 DEF Break
    <2>2. /\ <<>> \in Seq(FromClient(s)) /\ <<>> \in Seq(ToDevice)
          /\ <<>> \in Seq(FromHandler(s)) /\ <<>> \in Seq(ToClient)
      OBVIOUS
    <2> QED BY <1>1, <1>2, <2>1, <2>2, HandlerStep
  <1> QED BY <1>3, <1>4

\* Every step of clients, handlers and streams keeps the invariant.
LEMMA AikNextInv == AikInv /\ [Next]_vars => AikInv'
  <1> SUFFICES ASSUME AikInv, [Next]_vars PROVE AikInv'
    OBVIOUS
  <1>1. ASSUME NEW s \in Session, Client(s) PROVE AikInv'
    BY <1>1, OpenInv, RecvIdRequestInv, IssueAikInv, SendPayloadInv, RecvAikCertInv,
       RecvEndInv DEF Client
  <1>2. ASSUME NEW s \in Session, Handler(s) PROVE AikInv'
    BY <1>2, MakeIdRequestInv, InstallCertInv, FinalizeInv, StreamEndsInv DEF Handler
  <1>3. ASSUME NEW s \in Session, Break(s) PROVE AikInv'
    BY <1>3, StreamEndsInv
  <1>4. CASE UNCHANGED vars
    <2>1. TypeOK' /\ Kept'
      BY <1>4 DEF AikInv, TypeOK, Kept, IssuedForThisStream, vars
    <2>2. ASSUME NEW t \in Session PROVE Stream(t)'
      BY <1>4, StreamKept DEF AikInv, vars
    <2> QED BY <2>1, <2>2 DEF AikInv
  <1> QED BY <1>1, <1>2, <1>3, <1>4 DEF Next

-----------------------------------------------------------------------------
(* Theorems.                                                               *)

\* The invariant holds in every state of RotateAIKCert and its handlers.
THEOREM AikAlways == Spec => []AikInv
  BY AikInitInv, AikNextInv, PTL DEF Spec

\* Type correctness: in particular every payload is encrypted to a key on record.
THEOREM AikTypeCorrect == Spec => []TypeOK
  <1>1. AikInv => TypeOK
    BY DEF AikInv
  <1> QED BY <1>1, AikAlways, PTL

\* No AIK certificate is issued for an identity request of another stream, for
\* any number of streams and whatever requests handlers repeat (the comparison
\* with the issuer key in RotateAIKCert).
THEOREM AikIssuedForThisStream == Spec => []IssuedForThisStream
  <1>1. AikInv => IssuedForThisStream
    BY DEF AikInv, Kept
  <1> QED BY <1>1, AikAlways, PTL

\* finalize goes only to the card that has the EK on record and the AIK of the
\* certificate, for any RoT database, right or wrong (the comparison of the
\* returned certificate in RotateAIKCert).
THEOREM AikFinalizeProvesEk == Spec => []FinalizeProvesEk
  <1>1. AikInv => FinalizeProvesEk
    BY DEF AikInv, Stream, Proved, FinalizeProvesEk
  <1> QED BY <1>1, AikAlways, PTL

-----------------------------------------------------------------------------
(* The promise.  Client and handler take turns: one message at most is     *)
(* under way, and it is known who is to move next.                         *)

\* One message is under way at most.
Quiet(s) == c2d[s] = <<>> /\ d2c[s] = <<>>

\* The client waits for the handler to take its message.
Asked(s, kind) ==
    /\ \E m \in ToDevice : m.kind = kind /\ c2d[s] = <<m>>
    /\ d2c[s] = <<>> /\ handler[s] = kind /\ status[s] = "running"

\* The handler has answered and waits for the next message.
Answered(s, next) ==
    /\ \E m \in ToClient : /\ m.kind = "idrequest" => m \in made
                           /\ d2c[s] = <<m>>
    /\ c2d[s] = <<>> /\ handler[s] = next /\ status[s] = "running"

\* The handler has failed or the connection is broken.
Broken(s) == Quiet(s) /\ handler[s] = "gone" /\ status[s] = "error"

\* The card has made the certificate final, and the stream ends in the style of
\* its handler.
Settled(s) ==
    /\ s \in finalized /\ c2d[s] = <<>>
    /\ d2c[s] \in {<<>>, <<[kind |-> "ack"]>>}
    /\ \/ status[s] = "running" /\ handler[s] = "close"
       \/ status[s] = "eof" /\ handler[s] = "gone" /\ d2c[s] = <<>>

\* Client and handler take turns.
Turns(s) ==
    /\ pc[s] = "idrequest" =>
          Asked(s, "issuerkey") \/ Answered(s, "payload") \/ Broken(s)
    /\ pc[s] \in {"issue", "payload"} =>
          \/ Quiet(s) /\ handler[s] = "payload" /\ status[s] = "running"
          \/ Broken(s)
    /\ pc[s] = "confirm" =>
          Asked(s, "payload") \/ Answered(s, "finalize") \/ Broken(s)
    /\ pc[s] = "end" => Asked(s, "finalize") \/ Settled(s) \/ Broken(s)
    /\ pc[s] = "done" => Quiet(s) /\ (status[s] # "running" => handler[s] \in {"none", "gone"})

\* What a session remembers of it.
Account(s) ==
    /\ s \in finalized => pc[s] \in {"end", "done"}
    /\ s \in finalized /\ pc[s] = "end" => ~Asked(s, "finalize")
    /\ closed[s] => pc[s] = "done"
    /\ \A r \in request[s] : r \in made /\ r.issuer = s
    /\ result[s] = "ok" => pc[s] = "done" /\ (s \in finalized \/ status[s] = "error")

TurnsInv == \A s \in Session : Turns(s) /\ Account(s)
-----------------------------------------------------------------------------
(* Steps and the sessions they are not of.                                 *)

\* No other session than s moves, and none but s gets a request made for it.
Apart(s) ==
    \A t \in Session \ {s} :
        /\ pc'[t] = pc[t] /\ result'[t] = result[t] /\ request'[t] = request[t]
        /\ cert'[t] = cert[t] /\ c2d'[t] = c2d[t] /\ d2c'[t] = d2c[t]
        /\ closed'[t] = closed[t] /\ status'[t] = status[t]
        /\ handler'[t] = handler[t]
        /\ t \in finalized' <=> t \in finalized
        /\ \A m : m.issuer = t => (m \in made' <=> m \in made)

Step(s) == Client(s) \/ Handler(s) \/ Break(s)

\* Every step is of one session.
LEMMA StepApart ==
    ASSUME AikInv, NEW s \in Session, Step(s)
    PROVE  Apart(s) /\ made \subseteq made'
  <1> USE DEF AikInv, TypeOK, Apart
  <1>1. CASE Open(s)
    BY <1>1 DEF Open, Opened, Goto, Return
  <1>2. CASE RecvIdRequest(s)
    BY <1>2 DEF RecvIdRequest, Received, FailHere, Goto, Return, deviceVars
  <1>3. CASE IssueAik(s)
    BY <1>3 DEF IssueAik, Goto, Return, streamVars, deviceVars
  <1>4. CASE SendPayload(s)
    BY <1>4 DEF SendPayload, Send, FailHere, Goto, Return, deviceVars
  <1>5. CASE RecvAikCert(s)
    BY <1>5 DEF RecvAikCert, Received, AfterFinalize, Send, FailHere, Goto, Return,
                deviceVars
  <1>6. CASE RecvEnd(s)
    BY <1>6 DEF RecvEnd, Received, CloseSend, Return, deviceVars
  <1>7. CASE MakeIdRequest(s)
    <2>1. PICK fresh : fresh.issuer = s /\ made' = made \cup {fresh}
      BY <1>7 DEF MakeIdRequest
    <2>2. /\ UNCHANGED <<pc, result, request, cert, closed, finalized, status>>
          /\ \E m : d2c' = [d2c EXCEPT ![s] = Append(@, m)]
          /\ handler' = [handler EXCEPT ![s] = "payload"]
          /\ c2d' = [c2d EXCEPT ![s] = Tail(@)]
      BY <1>7 DEF MakeIdRequest, Taken, Reply, clientVars
    <2> QED BY <2>1, <2>2
  <1>8. CASE InstallCert(s)
    BY <1>8 DEF InstallCert, Taken, Reply, HandlerEnds, clientVars
  <1>9. CASE Finalize(s)
    BY <1>9 DEF Finalize, Taken, Reply, HandlerEnds, clientVars
  <1>10. CASE SeeClose(s)
    BY <1>10 DEF SeeClose, HandlerEnds, clientVars
  <1>11. CASE Break(s)
    BY <1>11 DEF Break, clientVars
  <1> QED BY <1>1, <1>2, <1>3, <1>4, <1>5, <1>6, <1>7, <1>8, <1>9, <1>10, <1>11
          DEF Step, Client, Handler

\* What holds of a session that does not move.
LEMMA TurnsKept ==
    ASSUME NEW s \in Session, NEW t \in Session \ {s}, Apart(s),
           made \subseteq made', Turns(t), Account(t)
    PROVE  Turns(t)' /\ Account(t)'
  <1> USE DEF Apart
  <1>1. /\ Quiet(t)' <=> Quiet(t)
        /\ Broken(t)' <=> Broken(t)
        /\ Settled(t)' <=> Settled(t)
        /\ \A kind : Asked(t, kind)' <=> Asked(t, kind)
        /\ \A next : Answered(t, next) => Answered(t, next)'
    BY DEF Quiet, Broken, Settled, Asked, Answered
  <1>2. Turns(t)'
    BY <1>1 DEF Turns
  <1>3. Account(t)'
    BY <1>1 DEF Account
  <1> QED BY <1>2, <1>3

\* One message on a queue.
LEMMA OneMessage ==
    ASSUME NEW m
    PROVE  <<m>> # <<>> /\ Head(<<m>>) = m /\ Tail(<<m>>) = <<>> /\ Append(<<>>, m) = <<m>>
  OBVIOUS
-----------------------------------------------------------------------------
(* The turns.                                                              *)

\* Everything is as before the first call.
LEMMA TurnsInit == Init => TurnsInv
  BY DEF Init, TurnsInv, Turns, Account

\* What is received was the only message under way.
LEMMA ReceivedAll ==
    ASSUME AikInv, NEW s \in Session, Turns(s),
           pc[s] \in {"idrequest", "confirm", "end"}, NEW m, Received(s, m)
    PROVE  /\ c2d[s] = <<>> /\ d2c'[s] = <<>>
           /\ m.kind = "idrequest" => m \in made \/ pc[s] = "end"
           /\ pc[s] # "end" => /\ status[s] = "running"
                               /\ Answered(s, IF pc[s] = "idrequest" THEN "payload"
                                              ELSE "finalize")
                               /\ d2c[s] = <<m>>
           /\ pc[s] = "end" => Settled(s)
  <1>1. d2c[s] # <<>> /\ m = Head(d2c[s]) /\ d2c'[s] = Tail(d2c[s])
    BY DEF Received, AikInv, TypeOK
  <1>2. CASE pc[s] = "end"
    <2>1. Settled(s)
      BY <1>1, <1>2 DEF Turns, Asked, Broken, Quiet
    <2>2. d2c[s] = <<[kind |-> "ack"]>>
      BY <1>1, <2>1 DEF Settled
    <2> QED BY <1>1, <1>2, <2>1, <2>2, OneMessage DEF Settled
  <1>3. CASE pc[s] # "end"
    <2>1. Answered(s, IF pc[s] = "idrequest" THEN "payload" ELSE "finalize")
      BY <1>1, <1>3 DEF Turns, Asked, Broken, Quiet
    <2>2. PICK x \in ToClient : (x.kind = "idrequest" => x \in made) /\ d2c[s] = <<x>>
      BY <2>1 DEF Answered
    <2> QED BY <1>1, <1>3, <2>1, <2>2, OneMessage DEF Answered
  <1> QED BY <1>2, <1>3

\* At the end of the stream the handler is gone.
LEMMA OverIsBroken ==
    ASSUME NEW s \in Session, Turns(s), pc[s] \in {"idrequest", "confirm", "end"},
           StreamOver(s)
    PROVE  Broken(s) \/ (pc[s] = "end" /\ Settled(s) /\ status[s] = "eof")
  BY DEF Turns, StreamOver, Asked, Answered, Settled, Broken

\* A call that returns with an error has nothing under way.
LEMMA FailTurns ==
    ASSUME AikInv, NEW s \in Session, Account(s), FailHere(s), s \notin finalized,
           c2d[s] = <<>>, d2c'[s] = <<>>, UNCHANGED made,
           status[s] # "running" => handler[s] \in {"none", "gone"}
    PROVE  Turns(s)' /\ Account(s)'
  <1>1. /\ pc'[s] = "done" /\ result'[s] = "error"
        /\ UNCHANGED <<request, cert, c2d, closed, status, handler, finalized>>
    BY DEF AikInv, TypeOK, FailHere, Return, deviceVars
  <1> QED BY <1>1 DEF Turns, Account, Quiet

LEMMA OpenTurns ==
    ASSUME AikInv, NEW s \in Session, Turns(s), Account(s), Open(s)
    PROVE  Turns(s)' /\ Account(s)'
  <1>1. /\ pc[s] = "new" /\ d2c[s] = <<>> /\ c2d[s] = <<>> /\ handler[s] = "none"
        /\ status[s] = "none" /\ s \notin finalized
    BY DEF AikInv, Stream, Open, Early
  <1>2. UNCHANGED <<request, closed, finalized, made, d2c>>
    BY DEF Open
  <1>3. CASE /\ handler' = [handler EXCEPT ![s] = "issuerkey"]
             /\ status' = [status EXCEPT ![s] = "running"]
             /\ c2d' = [c2d EXCEPT ![s] = <<[kind |-> "issuerkey"]>>]
             /\ Goto(s, "idrequest")
    <2>1. /\ handler'[s] = "issuerkey" /\ status'[s] = "running"
          /\ c2d'[s] = <<[kind |-> "issuerkey"]>> /\ pc'[s] = "idrequest"
          /\ result' = result
      BY <1>3 DEF AikInv, TypeOK, Goto
    <2>2. [kind |-> "issuerkey"] \in ToDevice
      BY DEF ToDevice
    <2>3. Asked(s, "issuerkey")'
      BY <1>1, <1>2, <2>1, <2>2 DEF Asked
    <2>4. Turns(s)'
      BY <2>1, <2>3 DEF Turns
    <2> QED BY <1>1, <1>2, <2>1, <2>4 DEF Account
  <1>4. CASE /\ Opened(s, "gone", "error") \/ UNCHANGED <<card, handler, status>>
             /\ Return(s, "error") /\ UNCHANGED c2d
    <2>1. pc'[s] = "done" /\ result'[s] = "error"
      BY <1>4 DEF AikInv, TypeOK, Return
    <2>2. handler'[s] \in {"none", "gone"}
      BY <1>1, <1>4 DEF AikInv, TypeOK, Opened
    <2> QED BY <1>1, <1>2, <1>4, <2>1, <2>2 DEF Turns, Account, Quiet
  <1> QED BY <1>3, <1>4 DEF Open, Opened

LEMMA RecvIdRequestTurns ==
    ASSUME AikInv, NEW s \in Session, Turns(s), Account(s), RecvIdRequest(s)
    PROVE  Turns(s)' /\ Account(s)'
  <1>1. pc[s] = "idrequest" /\ s \notin finalized
    BY DEF RecvIdRequest, Account
  <1>2. CASE StreamOver(s) /\ FailHere(s) /\ UNCHANGED d2c
    BY <1>1, <1>2, OverIsBroken, FailTurns DEF Broken, Quiet, FailHere, deviceVars
  <1>3. ASSUME NEW m \in ToClient, Received(s, m), FailHere(s)
        PROVE  Turns(s)' /\ Account(s)'
    BY <1>1, <1>3, ReceivedAll, FailTurns DEF FailHere, deviceVars
  <1>4. ASSUME NEW m \in ToClient, Received(s, m), RequestVerifies(s, m),
               request' = [request EXCEPT ![s] = {m}], Goto(s, "issue"),
               UNCHANGED <<cert, c2d, closed, status, issued, deviceVars>>
        PROVE  Turns(s)' /\ Account(s)'
    <2>1. /\ c2d[s] = <<>> /\ d2c'[s] = <<>> /\ m \in made /\ m.issuer = s
          /\ handler[s] = "payload" /\ status[s] = "running"
      BY <1>1, <1>4, ReceivedAll DEF RequestVerifies, Answered
    <2>2. /\ pc'[s] = "issue" /\ request'[s] = {m}
          /\ UNCHANGED <<c2d, closed, status, handler, made, finalized, result>>
      BY <1>4 DEF AikInv, TypeOK, Goto, deviceVars
    <2> QED BY <1>1, <2>1, <2>2 DEF Turns, Account, Quiet
  <1> QED BY <1>2, <1>3, <1>4 DEF RecvIdRequest

LEMMA IssueAikTurns ==
    ASSUME AikInv, NEW s \in Session, Turns(s), Account(s), IssueAik(s)
    PROVE  Turns(s)' /\ Account(s)'
  <1>1. /\ pc[s] = "issue" /\ s \notin finalized
        /\ UNCHANGED <<request, c2d, d2c, closed, status, handler, made, finalized>>
    BY DEF IssueAik, Account, streamVars, deviceVars
  <1>2. \/ pc'[s] = "payload" /\ result' = result
        \/ pc'[s] = "done" /\ result'[s] = "error"
    BY DEF AikInv, TypeOK, IssueAik, Goto, Return
  <1> QED BY <1>1, <1>2 DEF Turns, Account, Quiet, Broken

LEMMA SendPayloadTurns ==
    ASSUME AikInv, NEW s \in Session, Turns(s), Account(s), SendPayload(s)
    PROVE  Turns(s)' /\ Account(s)'
  <1>1. pc[s] = "payload" /\ s \notin finalized /\ d2c' = d2c /\ Quiet(s)
    BY DEF SendPayload, Account, Turns, Broken
  <1>2. CASE FailHere(s)
    BY <1>1, <1>2, FailTurns DEF Turns, Quiet, Broken, FailHere, deviceVars
  <1> DEFINE m == [kind |-> "payload", ek |-> RotDB[cert[s].id], cert |-> cert[s]]
  <1>3. CASE /\ RotDB[cert[s].id] # NoCard
             /\ Send(s, m)
             /\ Goto(s, "confirm")
             /\ UNCHANGED <<request, cert, closed, status, issued, deviceVars>>
    <2>1. m \in ToDevice /\ m.kind = "payload"
      <3>1. cert[s] \in AikCert /\ cert[s].id \in Card
        BY <1>1 DEF AikInv, Stream, AikCert
      <3>2. RotDB[cert[s].id] \in Card
        BY <1>3, <3>1, AikAssumption
      <3> QED BY <3>1, <3>2 DEF ToDevice
    <2> HIDE DEF m
    <2>2. c2d'[s] = <<m>> /\ status[s] = "running"
      BY <1>1, <1>3, OneMessage DEF Send, AikInv, TypeOK, Quiet
    <2>3. /\ pc'[s] = "confirm" /\ result' = result
          /\ UNCHANGED <<request, closed, status, handler, made, finalized>>
      BY <1>3 DEF AikInv, TypeOK, Goto, deviceVars
    <2>4. Asked(s, "payload")'
      BY <1>1, <2>1, <2>2, <2>3 DEF Asked, Quiet, Turns, Broken
    <2>5. Turns(s)'
      BY <2>3, <2>4 DEF Turns
    <2> QED BY <1>1, <2>3, <2>5 DEF Account
  <1> QED BY <1>2, <1>3 DEF SendPayload

LEMMA RecvAikCertTurns ==
    ASSUME AikInv, NEW s \in Session, Turns(s), Account(s), RecvAikCert(s)
    PROVE  Turns(s)' /\ Account(s)'
  <1>1. pc[s] = "confirm" /\ s \notin finalized
    BY DEF RecvAikCert, Account
  <1>2. CASE StreamOver(s) /\ FailHere(s) /\ UNCHANGED d2c
    BY <1>1, <1>2, OverIsBroken, FailTurns DEF Broken, Quiet, FailHere, deviceVars
  <1>3. ASSUME NEW m \in ToClient, Received(s, m), FailHere(s)
        PROVE  Turns(s)' /\ Account(s)'
    BY <1>1, <1>3, ReceivedAll, FailTurns DEF FailHere, deviceVars
  <1>4. ASSUME NEW m \in ToClient, Received(s, m), Send(s, [kind |-> "finalize"]),
               AfterFinalize(s),
               UNCHANGED <<request, cert, closed, status, issued, deviceVars>>
        PROVE  Turns(s)' /\ Account(s)'
    <2> DEFINE f == [kind |-> "finalize"]
    <2>1. c2d[s] = <<>> /\ d2c'[s] = <<>> /\ handler[s] = "finalize" /\ status[s] = "running"
      BY <1>1, <1>4, ReceivedAll DEF Answered
    <2>2. /\ pc'[s] = "end" /\ result' = result
          /\ UNCHANGED <<request, closed, status, handler, made, finalized>>
      BY <1>4 DEF AikInv, TypeOK, AfterFinalize, Goto, deviceVars
    <2>3. f \in ToDevice /\ f.kind = "finalize"
      BY DEF ToDevice
    <2>4. c2d'[s] = Append(<<>>, f)
      BY <1>4, <2>1 DEF Send, AikInv, TypeOK
    <2> HIDE DEF f
    <2>5. c2d'[s] = <<f>>
      BY <2>4, OneMessage
    <2>6. Asked(s, "finalize")'
      BY <2>1, <2>2, <2>3, <2>5 DEF Asked
    <2>7. Turns(s)'
      BY <2>2, <2>6 DEF Turns
    <2> QED BY <1>1, <2>2, <2>7 DEF Account
  <1> QED BY <1>2, <1>3, <1>4 DEF RecvAikCert

\* Whatever the last Recv returns, success needs a settled stream or one that
\* has failed.
LEMMA RecvEndTurns ==
    ASSUME AikInv, NEW s \in Session, Turns(s), Account(s), RecvEnd(s)
    PROVE  Turns(s)' /\ Account(s)'
  <1>1. /\ pc[s] = "end" /\ pc'[s] = "done" /\ result'[s] \in {"ok", "error"}
        /\ UNCHANGED <<request, c2d, status, handler, made, finalized>>
    BY DEF RecvEnd, Return, AikInv, TypeOK, deviceVars
  <1>2. \/ \E m \in ToClient : Received(s, m)
        \/ StreamOver(s) /\ d2c' = d2c
    BY DEF RecvEnd
  <1>3. CASE \E m \in ToClient : Received(s, m)
    BY <1>1, <1>3, ReceivedAll DEF Turns, Account, Quiet, Settled
  <1>4. CASE StreamOver(s) /\ d2c' = d2c
    BY <1>1, <1>4, OverIsBroken DEF Turns, Account, Quiet, Broken, Settled
  <1> QED BY <1>2, <1>3, <1>4

\* What the handler takes is what the client asked last.
LEMMA TakenLast ==
    ASSUME AikInv, NEW s \in Session, Turns(s),
           NEW kind \in {"issuerkey", "payload", "finalize"}, Taken(s, kind)
    PROVE  /\ Asked(s, kind) /\ c2d'[s] = <<>> /\ d2c[s] = <<>>
           /\ handler[s] = kind /\ status[s] = "running"
           /\ pc[s] = CASE kind = "issuerkey" -> "idrequest"
                        [] kind = "payload"   -> "confirm"
                        [] kind = "finalize"  -> "end"
  <1>1. /\ handler[s] = kind /\ c2d[s] # <<>> /\ Head(c2d[s]).kind = kind
        /\ c2d'[s] = Tail(c2d[s])
    BY DEF Taken, AikInv, TypeOK
  <1>2. pc[s] # "new"
    BY <1>1 DEF AikInv, Stream
  <1>3. pc[s] \in {"idrequest", "confirm", "end"}
    BY <1>1, <1>2 DEF AikInv, TypeOK, Turns, Quiet, Broken
  <1>4. Asked(s, kind) /\ pc[s] = CASE kind = "issuerkey" -> "idrequest"
                                    [] kind = "payload"   -> "confirm"
                                    [] kind = "finalize"  -> "end"
    BY <1>1, <1>3 DEF Turns, Asked, Answered, Broken, Quiet, Settled
  <1>5. c2d'[s] = <<>>
    BY <1>1, <1>4, OneMessage DEF Asked
  <1> QED BY <1>1, <1>4, <1>5 DEF Asked

\* The answer is then the only message, too.
LEMMA ReplyAlone ==
    ASSUME AikInv, NEW s \in Session, d2c[s] = <<>>, NEW m, NEW next, Reply(s, m, next)
    PROVE  d2c'[s] = <<m>> /\ handler'[s] = next /\ status' = status
  BY OneMessage DEF Reply, AikInv, TypeOK

LEMMA MakeIdRequestTurns ==
    ASSUME AikInv, NEW s \in Session, Turns(s), Account(s), MakeIdRequest(s)
    PROVE  Turns(s)' /\ Account(s)'
  <1>1. Taken(s, "issuerkey")
        /\ UNCHANGED <<pc, result, request, cert, closed, finalized>>
    BY DEF MakeIdRequest, clientVars
  <1>2. /\ c2d'[s] = <<>> /\ d2c[s] = <<>> /\ status[s] = "running"
        /\ pc[s] = "idrequest" /\ card[s] \in Card
    BY <1>1, TakenLast, TakenMessage
  <1>3. PICK id \in Card :
          LET fresh == [kind |-> "idrequest", issuer |-> s, id |-> id,
                        aik |-> [card |-> card[s], stream |-> s]]
          IN /\ made' = made \cup {fresh}
             /\ \E m \in made' \cup {[kind |-> "malformed"]} :
                   Reply(s, m, "payload")
    BY DEF MakeIdRequest
  <1>4. made \subseteq made' /\ made' \subseteq IdRequest
    BY <1>2, <1>3 DEF AikInv, TypeOK, IdRequest, Aik
  <1>5. PICK m \in made' \cup {[kind |-> "malformed"]} : Reply(s, m, "payload")
    BY <1>3
  <1>6. m \in ToClient /\ (m.kind = "idrequest" => m \in made')
    BY <1>4 DEF ToClient
  <1>7. d2c'[s] = <<m>> /\ handler'[s] = "payload" /\ status' = status
    BY <1>2, <1>5, ReplyAlone
  <1>8. Answered(s, "payload")'
    BY <1>2, <1>6, <1>7 DEF Answered
  <1>9. Turns(s)'
    BY <1>1, <1>2, <1>8 DEF Turns
  <1> QED BY <1>1, <1>2, <1>4, <1>9 DEF Account

LEMMA InstallCertTurns ==
    ASSUME AikInv, NEW s \in Session, Turns(s), Account(s), InstallCert(s)
    PROVE  Turns(s)' /\ Account(s)'
  <1>1. Taken(s, "payload")
        /\ UNCHANGED <<pc, result, request, cert, closed, made, finalized>>
    BY DEF InstallCert, clientVars
  <1>2. /\ c2d'[s] = <<>> /\ d2c[s] = <<>> /\ status[s] = "running"
        /\ pc[s] = "confirm" /\ card[s] \in Card
        /\ Head(c2d[s]) \in FromClient(s) /\ Head(c2d[s]).kind = "payload"
    BY <1>1, TakenLast, TakenMessage
  <1>3. Head(c2d[s]).cert \in AikCert
    BY <1>2 DEF FromClient, ToDevice
  <1>4. ASSUME NEW x \in AikCert, Reply(s, [kind |-> "aikcert", cert |-> x], "finalize")
        PROVE  Turns(s)' /\ Account(s)'
    <2> DEFINE m == [kind |-> "aikcert", cert |-> x]
    <2>1. m \in ToClient /\ m.kind # "idrequest"
      BY DEF ToClient
    <2> HIDE DEF m
    <2>2. d2c'[s] = <<m>> /\ handler'[s] = "finalize" /\ status' = status
      BY <1>2, <1>4, ReplyAlone DEF m
    <2>3. Answered(s, "finalize")'
      BY <1>2, <2>1, <2>2 DEF Answered
    <2>4. Turns(s)'
      BY <1>1, <1>2, <2>3 DEF Turns
    <2> QED BY <1>1, <1>2, <2>4 DEF Account
  <1>5. CASE HandlerEnds(s, "error")
    <2>1. Broken(s)'
      BY <1>2, <1>5 DEF Broken, Quiet, HandlerEnds, AikInv, TypeOK
    <2> QED BY <1>1, <1>2, <2>1 DEF Turns, Account
  <1>6. stored[card[s]] # NoCert => stored[card[s]] \in AikCert
    BY <1>2 DEF AikInv, TypeOK
  <1> QED BY <1>3, <1>4, <1>5, <1>6 DEF InstallCert

LEMMA FinalizeTurns ==
    ASSUME AikInv, NEW s \in Session, Turns(s), Account(s), Finalize(s)
    PROVE  Turns(s)' /\ Account(s)'
  <1>1. Taken(s, "finalize")
        /\ UNCHANGED <<pc, result, request, cert, closed, made>>
    BY DEF Finalize, clientVars
  <1>2. /\ c2d'[s] = <<>> /\ d2c[s] = <<>> /\ status[s] = "running"
        /\ pc[s] = "end"
    BY <1>1, TakenLast
  <1>3. ~Asked(s, "finalize")'
    BY <1>2 DEF Asked
  <1>4. CASE HandlerEnds(s, "error") /\ UNCHANGED finalized
    <2>1. Broken(s)'
      BY <1>2, <1>4 DEF Broken, Quiet, HandlerEnds, AikInv, TypeOK
    <2> QED BY <1>1, <1>2, <1>3, <1>4, <2>1 DEF Turns, Account
  <1>5. CASE s \in finalized' /\ HandlerEnds(s, "eof")
    <2>1. Settled(s)'
      BY <1>2, <1>5 DEF Settled, HandlerEnds, AikInv, TypeOK
    <2> QED BY <1>1, <1>2, <1>3, <1>5, <2>1 DEF Turns, Account
  <1>6. CASE /\ s \in finalized' /\ handler' = [handler EXCEPT ![s] = "close"]
             /\ UNCHANGED <<d2c, status>>
    <2>1. Settled(s)'
      BY <1>2, <1>6 DEF Settled, AikInv, TypeOK
    <2> QED BY <1>1, <1>2, <1>3, <1>6, <2>1 DEF Turns, Account
  <1>7. CASE s \in finalized' /\ Reply(s, [kind |-> "ack"], "close")
    <2>1. d2c'[s] = <<[kind |-> "ack"]>> /\ handler'[s] = "close" /\ status' = status
      BY <1>2, <1>7, ReplyAlone
    <2>2. Settled(s)'
      BY <1>2, <1>7, <2>1 DEF Settled
    <2> QED BY <1>1, <1>2, <1>3, <1>7, <2>2 DEF Turns, Account
  <1> QED BY <1>4, <1>5, <1>6, <1>7 DEF Finalize

\* A handler waits for the close of a client that has returned.
LEMMA SeeCloseTurns ==
    ASSUME AikInv, NEW s \in Session, Turns(s), Account(s), SeeClose(s)
    PROVE  Turns(s)' /\ Account(s)'
  <1>1. /\ closed[s] /\ pc[s] = "done" /\ handler[s] = "close" /\ handler'[s] = "gone"
        /\ status[s] = "running"
        /\ UNCHANGED <<pc, result, request, closed, c2d, d2c, made, finalized>>
    BY DEF SeeClose, HandlerEnds, AikInv, TypeOK, Account, Turns, clientVars
  <1> QED BY <1>1 DEF Turns, Account, Quiet

LEMMA BreakTurns ==
    ASSUME AikInv, NEW s \in Session, Turns(s), Account(s), Break(s)
    PROVE  Turns(s)' /\ Account(s)'
  <1>1. /\ Broken(s)' /\ ~Asked(s, "finalize")'
        /\ UNCHANGED <<pc, result, request, closed, made, finalized>>
    BY DEF Break, Broken, Quiet, Asked, AikInv, TypeOK, clientVars
  <1> QED BY <1>1 DEF Turns, Account, Broken

\* Every step keeps the turns.
LEMMA StepTurns ==
    ASSUME AikInv, TurnsInv, NEW s \in Session, Step(s)
    PROVE  TurnsInv'
  <1>1. Turns(s) /\ Account(s)
    BY DEF TurnsInv
  <1>2. Turns(s)' /\ Account(s)'
    <2>1. CASE Client(s)
      BY <1>1, <2>1, OpenTurns, RecvIdRequestTurns, IssueAikTurns, SendPayloadTurns,
         RecvAikCertTurns, RecvEndTurns DEF Client
    <2>2. CASE Handler(s)
      BY <1>1, <2>2, MakeIdRequestTurns, InstallCertTurns, FinalizeTurns, SeeCloseTurns
         DEF Handler
    <2>3. CASE Break(s)
      BY <1>1, <2>3, BreakTurns
    <2> QED BY <2>1, <2>2, <2>3 DEF Step
  <1>3. ASSUME NEW t \in Session, t # s PROVE Turns(t)' /\ Account(t)'
    BY <1>3, StepApart, TurnsKept DEF TurnsInv
  <1> QED BY <1>2, <1>3 DEF TurnsInv

LEMMA TurnsNext == AikInv /\ TurnsInv /\ [Next]_vars => TurnsInv'
  <1>1. ASSUME TurnsInv, UNCHANGED vars PROVE TurnsInv'
    BY <1>1 DEF vars, TurnsInv, Turns, Account, Quiet, Asked, Answered, Broken, Settled
  <1> QED BY <1>1, StepTurns DEF Next, Step

-----------------------------------------------------------------------------
(* The promise in terms of the turns.                                      *)

Makers(s) == {m.aik.card : m \in {x \in made : x.issuer = s}}
Party(s)  == IF cert[s] = NoCert THEN NoCard ELSE <<cert[s].id, cert[s].aik.card>>

\* The certificate of the session is on its way back.
Returning(s) == d2c[s] = <<[kind |-> "aikcert", cert |-> cert[s]]>>

\* The stage of a session, told from its turn.
StageFacts(s) ==
    /\ s \in finalized => PromiseStage(s) = "final"
    /\ Asked(s, "finalize") => PromiseStage(s) = "sealed"
    /\ Early(s) => PromiseStage(s) = "open"
    /\ pc[s] \in {"payload", "confirm"} /\ status[s] = "running" =>
          PromiseStage(s) = IF Returning(s) THEN "proved" ELSE "certified"
    /\ s \notin finalized /\ (pc[s] = "done" \/ (~Early(s) /\ Broken(s))) =>
          PromiseStage(s) = "over"

LEMMA FinalizeMessage ==
    ASSUME NEW m \in ToDevice, m.kind = "finalize"
    PROVE  m = [kind |-> "finalize"]
  BY DEF ToDevice

\* Finalize is on its way only after it was asked for.
LEMMA SealedIsAsked ==
    ASSUME AikInv, NEW s \in Session, Turns(s)
    PROVE  OnItsWay(s, c2d, [kind |-> "finalize"]) <=> Asked(s, "finalize")
  <1>1. ASSUME c2d[s] = <<>> PROVE ~OnItsWay(s, c2d, [kind |-> "finalize"])
    BY <1>1 DEF OnItsWay
  <1>2. ASSUME NEW kind, Asked(s, kind)
        PROVE  OnItsWay(s, c2d, [kind |-> "finalize"]) <=> kind = "finalize"
    <2>1. PICK m \in ToDevice : m.kind = kind /\ c2d[s] = <<m>>
      BY <1>2 DEF Asked
    <2>2. OnItsWay(s, c2d, [kind |-> "finalize"]) <=> m = [kind |-> "finalize"]
      BY <2>1 DEF OnItsWay
    <2>3. m = [kind |-> "finalize"] <=> kind = "finalize"
      BY <2>1, FinalizeMessage
    <2> QED BY <2>2, <2>3
  <1>3. \/ c2d[s] = <<>>
        \/ \E kind : Asked(s, kind)
    BY DEF AikInv, TypeOK, Stream, Turns, Quiet, Answered, Settled, Broken
  <1>4. \A kind : Asked(s, kind) => kind = handler[s] /\ c2d[s] # <<>>
    BY OneMessage DEF Asked
  <1> QED BY <1>1, <1>2, <1>3, <1>4

\* A certificate is on its way back if it is the only message.
LEMMA ProvedIsReturning ==
    ASSUME AikInv, NEW s \in Session, Turns(s), pc[s] \in {"payload", "confirm"}
    PROVE  OnItsWay(s, d2c, [kind |-> "aikcert", cert |-> cert[s]]) <=> Returning(s)
  <1> DEFINE m == [kind |-> "aikcert", cert |-> cert[s]]
  <1>1. d2c[s] = <<>> \/ \E x \in ToClient : d2c[s] = <<x>>
    BY DEF Turns, Quiet, Broken, Asked, Answered
  <1>2. CASE d2c[s] = <<>>
    BY <1>2, OneMessage DEF OnItsWay, Returning
  <1>3. CASE \E x \in ToClient : d2c[s] = <<x>>
    <2>1. PICK x \in ToClient : d2c[s] = <<x>>
      BY <1>3
    <2>2. OnItsWay(s, d2c, m) <=> x = m
      <3> HIDE DEF m
      <3> QED BY <2>1 DEF OnItsWay
    <2>3. Returning(s) <=> x = m
      <3>1. Returning(s) <=> d2c[s] = <<m>>
        BY DEF Returning
      <3> HIDE DEF m
      <3>2. <<x>> = <<m>> <=> x = m
        BY OneMessage
      <3> QED BY <2>1, <3>1, <3>2
    <2> QED BY <2>2, <2>3
  <1> QED BY <1>1, <1>2, <1>3

LEMMA StageNow == AikInv /\ TurnsInv => \A s \in Session : StageFacts(s)
  <1> SUFFICES ASSUME AikInv, TurnsInv, NEW s \in Session PROVE StageFacts(s)
    OBVIOUS
  <1>1. Turns(s) /\ Account(s) /\ Stream(s)
    BY DEF TurnsInv, AikInv
  <1>2. OnItsWay(s, c2d, [kind |-> "finalize"]) <=> Asked(s, "finalize")
    BY <1>1, SealedIsAsked
  <1>3. Asked(s, "finalize") => pc[s] = "end" /\ s \notin finalized /\ ~Broken(s)
    BY <1>1 DEF Turns, Account, Asked, Answered, Broken, Settled, Quiet, AikInv, TypeOK,
               Stream
  <1>4. s \in finalized => pc[s] \in {"end", "done"}
    BY <1>1 DEF Account
  <1>5. s \in finalized => PromiseStage(s) = "final"
    BY <1>2, <1>3, <1>4 DEF PromiseStage
  <1>6. Asked(s, "finalize") => PromiseStage(s) = "sealed"
    BY <1>2, <1>3 DEF PromiseStage
  <1>7. Early(s) => PromiseStage(s) = "open"
    BY <1>2, <1>3, <1>4 DEF PromiseStage, Early
  <1>8. pc[s] \in {"payload", "confirm"} /\ status[s] = "running" =>
            PromiseStage(s) = IF Returning(s) THEN "proved" ELSE "certified"
    BY <1>1, <1>2, <1>3, <1>4, ProvedIsReturning DEF PromiseStage
  <1>9. s \notin finalized /\ (pc[s] = "done" \/ (~Early(s) /\ Broken(s))) =>
            PromiseStage(s) = "over"
    BY <1>2, <1>3 DEF PromiseStage, Early, Broken
  <1> QED BY <1>5, <1>6, <1>7, <1>8, <1>9 DEF StageFacts

LEMMA StageNext == (AikInv /\ TurnsInv => \A s \in Session : StageFacts(s))'
  BY StageNow, PTL

\* What the owner sees of the other sessions.
OthersKeep(s) ==
    \A t \in Session \ {s} :
        PromiseStage(t)' = PromiseStage(t) /\ Makers(t)' = Makers(t) /\ Party(t)' = Party(t)

LEMMA ApartKeeps ==
    ASSUME NEW s \in Session, Apart(s)
    PROVE  OthersKeep(s)
  <1> SUFFICES ASSUME NEW t \in Session \ {s}
               PROVE  /\ PromiseStage(t)' = PromiseStage(t)
                      /\ Makers(t)' = Makers(t) /\ Party(t)' = Party(t)
    BY DEF OthersKeep
  <1>1. PromiseStage(t)' = PromiseStage(t)
    BY DEF Apart, PromiseStage, OnItsWay
  <1>2. {x \in made : x.issuer = t}' = {x \in made : x.issuer = t}
    BY DEF Apart
  <1>3. Makers(t)' = Makers(t)
    BY <1>2 DEF Makers
  <1>4. Party(t)' = Party(t)
    BY DEF Apart, Party
  <1> QED BY <1>1, <1>3, <1>4

\* The session keeps its makers and the party of its certificate.
DataKept(s) == Makers(s)' = Makers(s) /\ Party(s)' = Party(s)

\* What these say of the mapped functions.
LEMMA Mapped ==
    ASSUME NEW s \in Session, OthersKeep(s)
    PROVE  /\ [t \in Session |-> PromiseStage(t)]' =
                  [[t \in Session |-> PromiseStage(t)] EXCEPT ![s] = PromiseStage(s)']
           /\ [t \in Session |-> Makers(t)]' =
                  [[t \in Session |-> Makers(t)] EXCEPT ![s] = Makers(s)']
           /\ [t \in Session |-> Party(t)]' =
                  [[t \in Session |-> Party(t)] EXCEPT ![s] = Party(s)']
  BY DEF OthersKeep

LEMMA MappedKept ==
    ASSUME NEW s \in Session, OthersKeep(s), DataKept(s)
    PROVE  /\ [t \in Session |-> Makers(t)]' = [t \in Session |-> Makers(t)]
           /\ [t \in Session |-> Party(t)]' = [t \in Session |-> Party(t)]
  BY DEF OthersKeep, DataKept

\* Nothing the owner sees changes.
LEMMA PromiseStutters ==
    ASSUME NEW s \in Session, OthersKeep(s), DataKept(s),
           PromiseStage(s)' = PromiseStage(s)
    PROVE  UNCHANGED Promise!vars
  <1>1. [t \in Session |-> PromiseStage(t)]' = [t \in Session |-> PromiseStage(t)]
    BY DEF OthersKeep
  <1> QED BY <1>1, MappedKept DEF Promise!vars, Makers, Party

\* A session moves on with the same makers and party: it is given up, sealed or
\* made final.
LEMMA PromiseMoves ==
    ASSUME NEW s \in Session, OthersKeep(s), DataKept(s)
    PROVE  /\ /\ PromiseStage(s) \in {"open", "certified", "proved", "sealed"}
              /\ PromiseStage(s)' = "over"
              => Promise!GiveUp(s)
           /\ PromiseStage(s) = "proved" /\ PromiseStage(s)' = "sealed"
              => Promise!Seal(s)
           /\ PromiseStage(s) = "sealed" /\ PromiseStage(s)' = "final"
              => Promise!Finish(s)
  BY Mapped, MappedKept
     DEF Promise!GiveUp, Promise!Seal, Promise!Finish, Promise!Advance, Makers, Party

\* A card makes an AIK for the session.
LEMMA PromiseMake ==
    ASSUME NEW s \in Session, OthersKeep(s), PromiseStage(s)' = PromiseStage(s),
           Party(s)' = Party(s), NEW t \in Card, Makers(s)' = Makers(s) \cup {t}
    PROVE  Promise!Make(s)
  <1>1. [u \in Session |-> PromiseStage(u)]' = [u \in Session |-> PromiseStage(u)]
    BY DEF OthersKeep
  <1>2. [u \in Session |-> Party(u)]' = [u \in Session |-> Party(u)]
    BY DEF OthersKeep
  <1>3. [u \in Session |-> Makers(u)]' =
            [[u \in Session |-> Makers(u)] EXCEPT ![s] = @ \cup {t}]
    BY DEF OthersKeep
  <1> QED BY <1>1, <1>2, <1>3 DEF Promise!Make, Makers, Party

\* The CA certifies an AIK of one of the makers, in time or too late.
LEMMA PromiseCertify ==
    ASSUME NEW s \in Session, OthersKeep(s), PromiseStage(s) = "open",
           PromiseStage(s)' \in {"certified", "over"}, Makers(s)' = Makers(s),
           NEW t \in Makers(s), NEW id \in Card, Party(s)' = <<id, t>>
    PROVE  Promise!Certify(s)
  <1>1. [u \in Session |-> Makers(u)]' = [u \in Session |-> Makers(u)]
    BY DEF OthersKeep
  <1>2. [u \in Session |-> Party(u)]' =
            [[u \in Session |-> Party(u)] EXCEPT ![s] = <<id, t>>]
    BY Mapped
  <1>3. \/ Promise!Advance(s, "open", "certified")
        \/ Promise!Advance(s, "open", "over")
    BY Mapped DEF Promise!Advance
  <1> QED BY <1>1, <1>2, <1>3 DEF Promise!Certify, Makers, Party

\* The TPM in the certificate proves to hold the EK on record.
LEMMA PromiseProve ==
    ASSUME NEW s \in Session, OthersKeep(s), DataKept(s),
           PromiseStage(s) = "certified", PromiseStage(s)' = "proved",
           cert[s] # NoCert, RotDB[cert[s].id] = cert[s].aik.card
    PROVE  Promise!Prove(s)
  <1>1. Party(s)[1] = cert[s].id /\ Party(s)[2] = cert[s].aik.card
    BY DEF Party
  <1> QED BY <1>1, Mapped, MappedKept DEF Promise!Prove, Promise!Advance, Makers, Party

-----------------------------------------------------------------------------
(* The steps of the code.                                                  *)

\* What every step of s may use.
Context(s) ==
    /\ AikInv /\ Turns(s) /\ Account(s) /\ Stream(s)
    /\ StageFacts(s) /\ StageFacts(s)' /\ Turns(s)' /\ Account(s)'
    /\ OthersKeep(s)

LEMMA StepContext ==
    ASSUME AikInv, TurnsInv, NEW s \in Session, Step(s)
    PROVE  Context(s)
  <1>1. TurnsInv'
    BY StepTurns
  <1>2. AikInv'
    BY AikNextInv DEF Step, Next
  <1>3. StageFacts(s) /\ StageFacts(s)'
    BY <1>1, <1>2, StageNow, StageNext
  <1> QED BY <1>1, <1>3, StepApart, ApartKeeps DEF Context, TurnsInv, AikInv

LEMMA SameData ==
    ASSUME NEW s \in Session
    PROVE  made' = made /\ cert'[s] = cert[s] => DataKept(s)
  BY DEF DataKept, Makers, Party

\* A session that returns is given up, if it was not over before.
LEMMA GivesUp ==
    ASSUME NEW s \in Session, Context(s), s \notin finalized',
           s \notin finalized, made' = made, cert'[s] = cert[s],
           pc'[s] = "done" \/ (~Early(s)' /\ Broken(s)')
    PROVE  [Promise!Next]_Promise!vars
  <1>1. PromiseStage(s)' = "over" /\ DataKept(s) /\ OthersKeep(s)
    BY SameData DEF Context, StageFacts
  <1>2. PromiseStage(s) \in {"open", "certified", "proved", "sealed", "over"}
    BY DEF PromiseStage
  <1> QED BY <1>1, <1>2, PromiseMoves, PromiseStutters DEF Promise!Next

LEMMA FailPromise ==
    ASSUME NEW s \in Session, Context(s), FailHere(s), s \notin finalized
    PROVE  [Promise!Next]_Promise!vars
  <1>1. /\ pc'[s] = "done" /\ UNCHANGED <<cert, made, finalized>>
    BY DEF FailHere, Return, Context, AikInv, TypeOK, deviceVars
  <1> QED BY <1>1, GivesUp

LEMMA OpenPromise ==
    ASSUME NEW s \in Session, Context(s), Open(s)
    PROVE  [Promise!Next]_Promise!vars
  <1>1. pc[s] = "new" /\ UNCHANGED <<cert, made, finalized>> /\ s \notin finalized
    BY DEF Open, Context, Stream, Early
  <1>2. pc'[s] \in {"idrequest", "done"}
    BY DEF Open, Goto, Return, Context, AikInv, TypeOK
  <1>3. CASE pc'[s] = "done"
    BY <1>1, <1>3, GivesUp
  <1>4. CASE pc'[s] = "idrequest"
    BY <1>1, <1>4, SameData, PromiseStutters DEF Context, StageFacts, Early
  <1> QED BY <1>2, <1>3, <1>4

LEMMA RecvIdRequestPromise ==
    ASSUME NEW s \in Session, Context(s), RecvIdRequest(s)
    PROVE  [Promise!Next]_Promise!vars
  <1>1. pc[s] = "idrequest" /\ s \notin finalized
    BY DEF RecvIdRequest, Context, Account
  <1>2. CASE FailHere(s)
    BY <1>1, <1>2, FailPromise
  <1>3. CASE ~FailHere(s)
    <2>1. pc'[s] = "issue" /\ UNCHANGED <<cert, made>>
      BY <1>3 DEF RecvIdRequest, Goto, Context, AikInv, TypeOK, deviceVars
    <2> QED BY <1>1, <2>1, SameData, PromiseStutters DEF Context, StageFacts, Early
  <1> QED BY <1>2, <1>3

LEMMA IssueAikPromise ==
    ASSUME NEW s \in Session, Context(s), IssueAik(s)
    PROVE  [Promise!Next]_Promise!vars
  <1>1. PICK r \in request[s] :
          LET new == [id |-> r.id, aik |-> r.aik, session |-> s] IN
          \/ /\ issued' = issued \cup {new}
             /\ cert' = [cert EXCEPT ![s] = new]
             /\ Goto(s, "payload")
          \/ /\ issued' \in {issued, issued \cup {new}}
             /\ Return(s, "error")
             /\ UNCHANGED cert
    BY DEF IssueAik
  <1>2. /\ pc[s] = "issue" /\ s \notin finalized /\ Early(s)
        /\ UNCHANGED <<request, c2d, d2c, closed, status, handler, card, made,
                       stored, finalized>>
    BY DEF IssueAik, Context, Account, Early, streamVars, deviceVars
  <1>3. CASE Return(s, "error") /\ UNCHANGED cert
    BY <1>2, <1>3, GivesUp DEF Return, Context, AikInv, TypeOK
  <1> DEFINE new == [id |-> r.id, aik |-> r.aik, session |-> s]
  <1>4. CASE cert' = [cert EXCEPT ![s] = new] /\ Goto(s, "payload")
    <2>1. /\ r \in made /\ r.issuer = s /\ r.id \in Card /\ r.aik.card \in Card
          /\ new \in AikCert
      BY DEF Context, Account, AikInv, TypeOK, IdRequest, Aik, AikCert
    <2>2. cert'[s] = new /\ pc'[s] = "payload"
      BY <1>4 DEF Goto, Context, AikInv, TypeOK
    <2>3. Party(s)' = <<r.id, r.aik.card>>
      BY <2>1, <2>2, NoCertAssumption DEF Party
    <2>4. r.aik.card \in Makers(s) /\ Makers(s)' = Makers(s)
      BY <1>2, <2>1 DEF Makers
    <2>5. PromiseStage(s) = "open"
      BY <1>2 DEF Context, StageFacts
    <2>6. PromiseStage(s)' \in {"certified", "over"}
      <3>1. Quiet(s)' /\ ~Returning(s)' /\ ~Early(s)'
        BY <1>2, <2>2, OneMessage DEF Context, Turns, Quiet, Broken, Returning, Early
      <3>2. status'[s] = "running" \/ Broken(s)'
        BY <2>2 DEF Context, Turns
      <3> QED BY <1>2, <2>2, <3>1, <3>2 DEF Context, StageFacts
    <2> QED BY <2>1, <2>3, <2>4, <2>5, <2>6, PromiseCertify DEF Context, Promise!Next
  <1> QED BY <1>1, <1>3, <1>4

LEMMA SendPayloadPromise ==
    ASSUME NEW s \in Session, Context(s), SendPayload(s)
    PROVE  [Promise!Next]_Promise!vars
  <1>1. pc[s] = "payload" /\ s \notin finalized /\ d2c' = d2c /\ d2c[s] = <<>>
    BY DEF SendPayload, Context, Account, Turns, Quiet, Broken
  <1>2. CASE FailHere(s)
    BY <1>1, <1>2, FailPromise
  <1>3. CASE ~FailHere(s)
    <2>1. /\ pc'[s] = "confirm" /\ status[s] = "running"
          /\ UNCHANGED <<cert, status, made>>
      BY <1>3 DEF SendPayload, Send, Goto, Context, AikInv, TypeOK, deviceVars
    <2>2. ~Returning(s) /\ ~Returning(s)'
      BY <1>1, OneMessage DEF Returning
    <2>3. PromiseStage(s) = "certified" /\ PromiseStage(s)' = "certified"
      BY <1>1, <2>1, <2>2 DEF Context, StageFacts
    <2> QED BY <2>1, <2>3, SameData, PromiseStutters DEF Context
  <1> QED BY <1>2, <1>3

LEMMA RecvAikCertPromise ==
    ASSUME NEW s \in Session, Context(s), RecvAikCert(s)
    PROVE  [Promise!Next]_Promise!vars
  <1>1. pc[s] = "confirm" /\ s \notin finalized
    BY DEF RecvAikCert, Context, Account
  <1>2. CASE FailHere(s)
    BY <1>1, <1>2, FailPromise
  <1>3. CASE ~FailHere(s)
    <2>1. PICK m \in ToClient :
            /\ Received(s, m) /\ Confirms(s, m) /\ Send(s, [kind |-> "finalize"])
            /\ AfterFinalize(s)
            /\ UNCHANGED <<request, cert, closed, status, issued, deviceVars>>
      BY <1>3 DEF RecvAikCert
    <2>2. d2c[s] = <<m>> /\ c2d[s] = <<>> /\ status[s] = "running"
          /\ handler[s] = "finalize" /\ d2c'[s] = <<>>
      BY <1>1, <2>1, ReceivedAll DEF Context, Answered
    <2>3. m = [kind |-> "aikcert", cert |-> cert[s]]
      BY <2>1 DEF Confirms, ToClient, IdRequest
    <2>4. Returning(s)
      BY <2>2, <2>3 DEF Returning
    <2>5. PromiseStage(s) = "proved"
      BY <1>1, <2>2, <2>4 DEF Context, StageFacts
    <2>6. /\ pc'[s] = "end" /\ UNCHANGED <<cert, made, status, handler, finalized>>
      BY <2>1 DEF AfterFinalize, Goto, Context, AikInv, TypeOK, deviceVars
    <2>7. Asked(s, "finalize")'
      BY <1>1, <2>2, <2>6 DEF Context, Turns, Settled, Broken
    <2>8. PromiseStage(s)' = "sealed"
      BY <2>7 DEF Context, StageFacts
    <2> QED BY <2>5, <2>6, <2>8, SameData, PromiseMoves DEF Context, Promise!Next
  <1> QED BY <1>2, <1>3

LEMMA RecvEndPromise ==
    ASSUME NEW s \in Session, Context(s), RecvEnd(s)
    PROVE  [Promise!Next]_Promise!vars
  <1>1. pc[s] = "end" /\ pc'[s] = "done" /\ UNCHANGED <<cert, made, finalized>>
    BY DEF RecvEnd, Return, Context, AikInv, TypeOK, deviceVars
  <1>2. CASE s \in finalized
    BY <1>1, <1>2, SameData, PromiseStutters DEF Context, StageFacts
  <1>3. CASE s \notin finalized
    BY <1>1, <1>3, GivesUp
  <1> QED BY <1>2, <1>3

LEMMA MakeIdRequestPromise ==
    ASSUME NEW s \in Session, Context(s), MakeIdRequest(s)
    PROVE  [Promise!Next]_Promise!vars
  <1>1. Taken(s, "issuerkey") /\ UNCHANGED <<pc, cert, card>>
    BY DEF MakeIdRequest, clientVars
  <1>2. pc[s] = "idrequest" /\ card[s] \in Card
    BY <1>1, TakenLast, TakenMessage DEF Context
  <1>3. PICK fresh : /\ fresh.issuer = s /\ fresh.aik.card = card[s]
                     /\ made' = made \cup {fresh}
    BY DEF MakeIdRequest
  <1>4. Makers(s)' = Makers(s) \cup {card[s]}
    BY <1>3 DEF Makers
  <1>5. PromiseStage(s)' = PromiseStage(s) /\ Party(s)' = Party(s)
    BY <1>1, <1>2 DEF Context, StageFacts, Early, Party
  <1> QED BY <1>2, <1>4, <1>5, PromiseMake DEF Context, Promise!Next

\* The certificate that comes back is one the card could decrypt: if it is that
\* of the session, it is the proof.
LEMMA InstallCertPromise ==
    ASSUME NEW s \in Session, Context(s), AikInv', InstallCert(s)
    PROVE  [Promise!Next]_Promise!vars
  <1>1. Taken(s, "payload") /\ UNCHANGED <<pc, cert, card, made, finalized>>
    BY DEF InstallCert, clientVars
  <1>2. /\ pc[s] = "confirm" /\ status[s] = "running" /\ d2c[s] = <<>>
        /\ s \notin finalized
    BY <1>1, TakenLast DEF Context, Account
  <1>3. PromiseStage(s) = "certified"
    BY <1>2, OneMessage DEF Context, StageFacts, Returning
  <1>4. CASE HandlerEnds(s, "error")
    <2>1. Broken(s)' /\ ~Early(s)'
      BY <1>1, <1>2, <1>4, TakenLast
         DEF Broken, Quiet, Early, HandlerEnds, Context, AikInv, TypeOK
    <2> QED BY <1>1, <1>2, <2>1, GivesUp
  <1>5. CASE status' = status
    <2>1. PromiseStage(s)' = IF Returning(s)' THEN "proved" ELSE "certified"
      BY <1>1, <1>2, <1>5 DEF Context, StageFacts
    <2>2. CASE ~Returning(s)'
      BY <1>1, <1>3, <2>1, <2>2, SameData, PromiseStutters DEF Context
    <2>3. CASE Returning(s)'
      <3> DEFINE m == [kind |-> "aikcert", cert |-> cert'[s]]
      <3>1. cert[s] # NoCert
        BY <1>2, NoCertAssumption DEF Context, Stream
      <3>2. m \in FromHandler(s)'
        <4>1. d2c'[s] \in Seq(FromHandler(s)') /\ d2c'[s] = <<m>>
          BY <2>3 DEF Returning, AikInv, Stream
        <4> HIDE DEF m
        <4> QED BY <4>1, QueueEnds, OneMessage
      <3>3. RotDB[cert[s].id] = card[s] /\ cert[s].aik.card = card[s]
        BY <1>1, <3>2 DEF FromHandler
      <3> QED BY <1>1, <1>3, <2>1, <2>3, <3>1, <3>3, SameData, PromiseProve
              DEF Context, Promise!Next
    <2> QED BY <2>2, <2>3
  <1> QED BY <1>4, <1>5 DEF InstallCert, Reply

LEMMA FinalizePromise ==
    ASSUME NEW s \in Session, Context(s), Finalize(s)
    PROVE  [Promise!Next]_Promise!vars
  <1>1. Taken(s, "finalize") /\ UNCHANGED <<pc, cert, made>>
    BY DEF Finalize, clientVars
  <1>2. pc[s] = "end" /\ Asked(s, "finalize") /\ s \notin finalized
    BY <1>1, TakenLast DEF Context, Account
  <1>3. PromiseStage(s) = "sealed"
    BY <1>2 DEF Context, StageFacts
  <1>4. CASE s \in finalized'
    BY <1>1, <1>3, <1>4, SameData, PromiseMoves DEF Context, StageFacts, Promise!Next
  <1>5. CASE s \notin finalized'
    <2>1. HandlerEnds(s, "error")
      BY <1>5 DEF Finalize
    <2>2. Broken(s)' /\ ~Early(s)'
      BY <1>1, <1>2, <2>1, TakenLast
         DEF Broken, Quiet, Early, HandlerEnds, Context, AikInv, TypeOK
    <2> QED BY <1>1, <1>2, <1>5, <2>2, GivesUp
  <1> QED BY <1>4, <1>5

LEMMA SeeClosePromise ==
    ASSUME NEW s \in Session, Context(s), SeeClose(s)
    PROVE  [Promise!Next]_Promise!vars
  <1>1. /\ pc[s] = "done" /\ UNCHANGED <<pc, cert, made, finalized>>
    BY DEF SeeClose, Context, Account, clientVars
  <1> QED BY <1>1, SameData, PromiseStutters DEF Context, StageFacts

LEMMA BreakPromise ==
    ASSUME NEW s \in Session, Context(s), Break(s)
    PROVE  [Promise!Next]_Promise!vars
  <1>1. /\ UNCHANGED <<pc, cert, made, finalized>> /\ Broken(s)'
    BY DEF Break, Broken, Quiet, Context, AikInv, TypeOK, clientVars
  <1>2. CASE s \in finalized
    BY <1>1, <1>2, SameData, PromiseStutters DEF Context, StageFacts
  <1>3. CASE Early(s)
    BY <1>1, <1>3, SameData, PromiseStutters DEF Context, StageFacts, Early
  <1>4. CASE s \notin finalized /\ ~Early(s)
    BY <1>1, <1>4, GivesUp DEF Early
  <1> QED BY <1>2, <1>3, <1>4

\* Every step keeps the promise.
LEMMA AikNextPromise ==
    AikInv /\ TurnsInv /\ [Next]_vars => [Promise!Next]_Promise!vars
  <1>1. ASSUME AikInv, TurnsInv, NEW s \in Session, Step(s)
        PROVE  [Promise!Next]_Promise!vars
    <2>1. Context(s) /\ AikInv'
      BY <1>1, StepContext, AikNextInv DEF Step, Next
    <2>2. CASE Client(s)
      BY <2>1, <2>2, OpenPromise, RecvIdRequestPromise, IssueAikPromise,
         SendPayloadPromise, RecvAikCertPromise, RecvEndPromise DEF Client
    <2>3. CASE Handler(s)
      BY <2>1, <2>3, MakeIdRequestPromise, InstallCertPromise, FinalizePromise,
         SeeClosePromise DEF Handler
    <2>4. CASE Break(s)
      BY <2>1, <2>4, BreakPromise
    <2> QED BY <1>1, <2>2, <2>3, <2>4 DEF Step
  <1>2. ASSUME UNCHANGED vars PROVE UNCHANGED Promise!vars
    BY <1>2 DEF vars, Promise!vars, PromiseStage, OnItsWay
  <1> QED BY <1>1, <1>2 DEF Next, Step

LEMMA AikInitPromise == Init => Promise!Init
  BY DEF Init, Promise!Init, PromiseStage, OnItsWay

-----------------------------------------------------------------------------
(* Theorems.                                                               *)

\* Client and handler take turns, in every state.
THEOREM AikTurns == Spec => []TurnsInv
  BY TurnsInit, TurnsNext, AikAlways, PTL DEF Spec

\* A client that succeeds over a stream that did not fail has a final
\* certificate on the card, in whatever way its handler ends the stream (the
\* last Recv of RotateAIKCert).
THEOREM AikSuccessOnSoundStream == Spec => []SuccessOnSoundStream
  <1>1. TurnsInv => SuccessOnSoundStream
    BY DEF TurnsInv, Account, SuccessOnSoundStream
  <1> QED BY <1>1, AikTurns, PTL

\* TPM 1.2 enrollment keeps what AikPromise promises, for any RoT database and
\* through breaks and stale answers: a certificate becomes final only after its
\* TPM has proved to hold the EK on record for the certified identity.
THEOREM AikKeepsPromise == Spec => KeepsAikPromise
  BY AikInitPromise, AikAlways, AikTurns, AikNextPromise, PTL
     DEF Spec, KeepsAikPromise, Promise!Spec
=============================================================================
