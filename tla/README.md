# Formal models of attestz

TLA+ models of the enrollment service of this repository, checked with TLC and,
for all its workflows and the certificate verifier, proved with TLAPS.  Paths are relative to `src/`;
`enrollz_biz.go`, `tpm_cert_verifier.go`, `tpm12_utils.go` and
`tpm20_utils.go` are in `service/biz/`.

## 1. The system

attestz enrolls the control cards of a network switch: it checks the identity
of each card's TPM, has the *switch owner CA* sign certificates for the keys
inside (oIAK and oIDevID on TPM 2.0, an AIK certificate on TPM 1.2), and puts
them on the cards.  The repository holds the business logic of the service as
Go functions; the gRPC client of the device, the CA, the RoT database and the
TPM libraries are interfaces handed in by the caller (`Deps`).  There is no
server, no storage and no background work: **all state of a workflow is local
to one call**, and what persists is at the CA and on the switch.

| Component | State it keeps | Operations | Modelled by |
|---|---|---|---|
| Owner certificates (`enrollz_biz.go:251-268, 381-496`) | `certDataList`, `controlCardCerts`, loop index | validate, issue oIDevID, issue oIAK, rotate | `OwnerCerts`, `OwnerPromise` |
| Vendor-certificate workflows (`:280-379, 512-580`) | same | `EnrollControlCard`, `RotateOwnerIakCert`, `verifyIdentityWithVendorCerts` | `VendorEnrollment` |
| HMAC-challenge workflow (`:897-1181`) | same, `fetchEKResp`, the HMAC key | `EnrollSwitchWithHMACChallenge` and its helpers | `HmacEnrollment`, `HmacChallenge` |
| TPM 1.2 workflow (`:604-885`) | issuer key, identity request, issued certificate, a stream | `RotateAIKCert` | `RotateAik`, `AikPromise` |
| Certificate verifier (`tpm_cert_verifier.go`) | a pool of intermediates, shared through the options | `VerifyIakAndIDevIDCerts`, `VerifyTpmCert`, helpers | `CertVerifier` |
| TPM 1.2 structures and ciphers (`tpm12_utils.go`) | none | parsers, serialisers, AES CBC, RSA | `TpmBytes`, `Tpm12`, `TpmMessages` |
| TPM 2.0 structures and signatures (`tpm20_utils.go`) | none | attribute checks, signatures, HMAC, CSR parser | `Tpm20`, `Tpm20Csr`, `HmacChallenge` |
| APIs (`proto/*.proto`) | none | messages, documented workflows | through the above |
| PCR digest, emulators, generated code | none | | not modelled |

**How they interact.**  A workflow blocks on each remote call.  It resolves
nothing itself: a `ControlCardSelection` names a role (active, standby) or a
serial, and the *switch* resolves it anew on each call.  The three TPM 2.0
workflows end in `issueAndRotateOwnerCerts`; the verifier serves the two that
trust vendor certificates; the TPM 1.2 utilities serve `RotateAIKCert`.
Concurrent calls share no memory but the pool of intermediates in
`x509.VerifyOptions`; they meet at the CA, at the TPMs and on the cards.

**What is hard.**  A call can fail after it took effect (a lost reply).
Switchovers and card replacements fall between two calls of a session.
Sessions overlap: an enrollment with a rotation, a retry with the call it
replaces.  Cards of one switch may disagree on atomic rotation.  A TPM answers
late, or a relay with something stale.  A stream ends, breaks or waits.  Most
tests of the repository run one call against mocks, in one order.

**What makes each part correct.**  Nothing is signed before everything is
verified; only verified keys are signed, under the identity of their own card;
a card ends up with its own certificates only; cards are updated all together
or, without atomic rotation, in order; success is complete, and an error says
how far the call got; every call returns.  For HMAC: identity, EK, IAK and
IDevID are of one TPM, which answered *this* challenge.  For TPM 1.2: finalize
reaches only a TPM that proved its EK.  For the verifier: a verdict rests on a
path to a root and on nothing a foreign call brought in.  For the structures:
what is written is read back, nothing else is read, and a key is accepted
only if it is inside the TPM that was challenged.

`PROJECT.json` lists the hazards line by line, with the properties for each.

## 2. The modules

`OwnerCerts` — `issueAndRotateOwnerCerts` with its two partners.  A *session* is
one call of a workflow function.  `pc`, `idx`, `req`, `data` (`certDataList`)
and `updates` (`controlCardCerts`) are its locals, `issued` is the CA,
`seat`, `installed` and `accepted` are the switch.  `IssueOIDevID`
(validation of the loop and `issueOwnerIDevIDCert`), `IssueOIak`, `RotateAll`
and `RotateOne` (`rotateOIakCert` with and without atomic rotation) are steps
of a session, each one remote call with its effect and its reply: answered,
effective with the reply lost, or refused.  `Switchover` and `HotSwap` are the
switch.  A card stands for its serial, its TPM and its keys.
As an id, `NoCard` is a nil one and `NoSerial` one whose serial is empty.  The module has
no `Next` of its own: the two workflows below extend it.  It ends in what both
promise the owner: it instantiates `OwnerPromise` as `Owner` with a refinement
mapping (`pc` to stages, issued oIAKs to signatures, stored oIAKs to deliveries)
and states `KeepsPromise == Owner!Spec`.

`VendorEnrollment` — `VerifyIdentity` (a round of
`verifyIdentityWithVendorCerts`) and `CheckAtomic` in front of that, for both
`EnrollControlCard` and `RotateOwnerIakCert`; `kind` and `skip` of the request
tell which certificates are verified.

`OwnerPromise` — the abstract specification: a session admits a switch once and
as a whole, only then signs, delivers only what it signed itself, and to all
its cards at once if it rotates atomically.  It knows no selections, calls or
errors.

`HmacEnrollment` — `GetVendorID`, `FetchEK`, `Challenge` and `GetCsr`, the four
calls for each selection of `EnrollSwitchWithHMACChallenge`, in front of
`OwnerCerts`, and `ChallengeTimeout`, the end of a challenge that is not answered.  The cryptography is a rule of who can make what: only the TPM
with the EK imports an HMAC key; answers are kept for ever and may be replayed.

`Tpm20` — the checks of `tpm20_utils.go` as operators on records of the fields
they read: the RSA key of the record, the wrapping of the HMAC key to it, the
attributes of IAK and IDevID key, `VerifyCertifyInfo`, `VerifyHMAC`,
`VerifyTPMTSignature`.

`HmacChallenge` — `verifyIdentityWithHMACChallenge` for one selection with these
checks.  TPMs keep their rules (they import what is wrapped to them, certify what
is loaded, and a restricted key signs nothing that looks made by a TPM and is
not); the software of the switch is under none and answers with any public
area, certify info and signature it can get made.  The module instantiates
`HmacEnrollment` (`VerifiesForEnrollment == Enrollment!Spec`), a key standing for
the card it is loaded in: this discharges what `HmacEnrollment` takes for granted
in `AnswerVerifies` and `CsrVerifies`.

`RotateAik` — the client of the stream step by step (`Open`, `RecvIdRequest`,
`IssueAik`, `SendPayload`, `RecvAikCert`, `RecvEnd`), two FIFO directions, the
end of the stream, a break, and a handler on the switch that follows
`proto/tpm_enrollz.proto` but may answer with stale requests and certificates
or fail.  `EndStyles` says how the handler ends the stream, which the schema
leaves open.

`AikPromise` — what the owner is promised for TPM 1.2: a TPM makes an AIK for the
session, the CA certifies it, its TPM proves the EK on record, then the session
is sealed, then the certificate becomes final.  `RotateAik` instantiates it as
`Promise`; a session has its proof while its certificate is on its way back.

`CertVerifier` — concurrent calls of the verifier: `Parse` (`parseCertChain`),
`AddIntermediate` (one certificate into the pool), `Verify` (chain, serial,
key).  The options are passed by value but the pool in them is one object.

`TpmBytes` — reading and writing byte by byte, big endian and of the widths in
the code.  A *reader* is what it got last and the rest of the bytes, or it is stuck.

`Tpm12` — the parsers, serialisers, constructors and ciphers of `tpm12_utils.go` on
these, up to the identity contents a TPM signs.  Padding, placement of the IV and
scheme checks are the code's; AES is any chained permutation, SHA1 a checksum
of 20 bytes, RSA encryption the clear text, an RSA signature shows key and digest.
The sets of values of the structures (`PubKeyValues` and so on) are what their
Go types hold and their writers can write.

`Tpm20Csr` — `ParseTCGCSRIDevIDContent`: thirteen sizes, then thirteen areas, with
go-tpm structures and an EK certificate or key inside.

`TpmMessages` — the messages that carry these, and the whole exchange of
`RotateAIKCert` from the TPM's request to the accepted AIK: a message is written,
suffers faults (`Cut`, `Trail`, `Change`) and is read (`Receive`).  `Messages` and
the bytes of faults are constants: the run takes some dozens of messages, the proofs any.

`MC*` modules hold requests, certificates and messages for TLC; `*Proofs`
modules hold proofs.  Definitions marked "Mutant:" are plausible mistakes that
take the place of the definition next to them to show that a property would
notice; no specification uses them.

## 3. The runs

| Run | Bounds | Question |
|---|---|---|
| `vendor_one` | 1 session, 3 cards (one with a bad IDevID, one without atomic rotation), 48 requests | every path of both workflows; the owner's promise; termination |
| `vendor_two` | an enrollment and a rotation, 3 cards | what interleaving leaves on the cards |
| `vendor_no_idevid` | 1 session, the active card | finding 1 |
| `hmac_one` | 1 session, 3 cards (one with a bad IDevID), a record under the empty serial | all or nothing, complete on success, terminates though a challenge may never be answered |
| `hmac_two` | 2 sessions, 2 cards, ids with, without and with an empty serial, a record under the empty one | identities stay together; the owner's promise |
| `hmac_challenge` | 1 selection, 3 cards, 13 public areas, records with right and wrong exponents and kinds | only keys of the challenged TPM pass; sound cards pass; implements `HmacEnrollment` |
| `aik` | 2 streams, 3 cards, one without a record, ids of other cards, handlers that return or acknowledge | finalize proves the EK; the promise; calls return, handlers are released |
| `aik_finalize_fails` | 1 stream | finding 2 |
| `aik_waits_for_close` | 1 stream, a handler that waits | finding 3 |
| `verifier` | 2 calls, bundles up to 3 deep, keys of three kinds, with and without a shared pool | verdicts bounded, independent without a pool |
| `verifier_short_key` | 1 call | finding 4 |
| `tpm_messages` | structures with areas of 0 to 3 bytes, texts of 1 to 33 bytes, 3 RSA keys, 1 or 2 faults | written is read, cut fails, readers are exact, what is accepted lacks nothing, only a signed AIK passes |

**Why the bounds are enough.**  The code accepts at most two selections, so two
positions are exact, and a request with none and one with three cover the rest.
Two cards fill the slots and the third is the one swapped in.  A session
interferes with another only through `issued`, `seat`, `installed` and the TPMs'
answers, each of which carries the session it is from; two sessions give every
pairwise interleaving, and what is proved (section 5) holds for any number.
Two streams are one earlier and one current.  Bundles of three have a
leaf, a first and a last intermediate.  For the structures every area has an
empty, a short and a longer case, and cuts are tried at every byte; 33 bytes
go past two cipher blocks on both sides of each boundary.  Two faults change
a size *and* the bytes it governs.

In `hmac_challenge` the public areas are the keys of three cards (one IAK an RSA
key, one IDevID key on a wrong curve), an unrestricted key, a key with a long
name hash and a restricted HMAC key of one TPM, a key of software, and areas that
show keys with attributes they have not; a certify info differs from a true one
in each of its fields.  `MaxExponent` is 65539 in the place of 2^31 - 1, which
leaves room for an exponent above it.

Symmetry is not used: cards differ in what verifies.  Deadlock checking is off
where all calls may be over (`RotateAik`, `CertVerifier`, `HmacChallenge`, whose
enrollment goes on elsewhere) or all faults spent (`TpmMessages`); in the enrollment modules the switch can always move, and
`Termination` covers the sessions.

**Properties.**  Safety, vendor: `IssuedAfterAllVerified`,
`IssuedForVerifiedKeys`, `ErrorTellsReach`, `AcceptedAllOrPrefix`,
`SuccessLeavesNoOrphan`, `InstalledIsOwn`, `AtomicEnrollsBothRoles`, refinement
`KeepsPromise`.  HMAC: `CertNamesTheTpm`, `IssuedToChallengedTpm`,
`IssuedAfterAllVerified`, `AllCardsOrNone`, `SuccessEnrollsFully`,
`SuccessEnrollsBothRoles`, `AcceptedKeysResident`, `SoundCardsPass`, refinements
`KeepsPromise` and `VerifiesForEnrollment`.  TPM 1.2: `FinalizeProvesEk`,
`IssuedForThisStream`, `SuccessOnSoundStream`, refinement `KeepsAikPromise`.  Verifier: `VerdictIsBounded`,
`VerdictIsOwn`, `KeysShareSerial`.  Structures: `MessagesSurvive`,
`CutMessagesFail`, `ReadersAreExact`, `AcceptedIsComplete`, `KeysSurvive`,
`OnlySignedAikPasses`.  Liveness: `Termination`
of all three workflows, `HandlerReleased`.

`VerdictIsBounded` is deliberately two-sided: with a pool in the options a
verdict may depend on what other calls presented, so it is bounded by what the
call's own bundles justify and by what all calls together do.

**Fairness.**  Liveness is stated over `FairSpec`: weak fairness of each
session's steps.  The caller blocks on its calls and does nothing else, so this
says that every remote call ends, with an answer or an error: the code hands on
its caller's context and relies on that.  The challenge alone is taken to be
one that a TPM may never answer: `Challenge` is under no fairness, the
`ChallengeTimeout` of `enrollz_biz.go:1002` is, and without it `Termination` of
the HMAC workflow fails.  Nothing in the code retries, so
nothing stronger is assumed, and the switch is under no fairness: switchovers
may go on for ever or never happen.  `RotateAik` also assumes that handlers run
(`WF` of `Handler`), the counterpart of a stream without a deadline; breaks are
not assumed.

## 4. What the code does otherwise than it says

1. `EnrollControlCard` succeeds with an oIAK only when the *active* card sent no
   IDevID certificate (`enrollz_biz.go:397`), against its doc comment at
   `:277-279` and the comment at `tpm_cert_verifier.go:150`; a TODO at `:396`
   concerns the same place (`vendor_no_idevid`).  For a standby card
   `proto/tpm_enrollz.proto:51-54` and `:99-101` intend just this, and the
   property leaves it out.
2. `RotateAIKCert` turns an error of the last `Recv`, after finalize, into success
   (`:874`), and logs "Successfully finalized" (`aik_finalize_fails`).
3. It waits for the device to end the stream before it closes its own
   direction, where the proto file has the client close after finalize; a
   handler that waits for the close and the client wait for each other
   (`aik_waits_for_close`).
4. RSA keys of 2041 to 2047 bits pass as 2048 (`tpm_cert_verifier.go:341`,
   `verifier_short_key`).

## 5. What is proved

Everything below holds for any number of sessions, cards, calls and
certificates, any requests and any RoT database within the assumptions below.
None of the properties is inductive, so each component has an invariant that says
how far a call has got and what that entails; the properties follow from it.  Lost
replies, switchovers, replacements, breaks and repeated answers are covered, since
they are actions of `Next`.

**The part shared by the TPM 2.0 workflows.**  `OwnerCertsProofs` has `OwnerInv`:
the types, `IndexOK` (the loop index is among the selections of the request)
and `OiakComplete` (an oIAK is asked for only when the data of its card are
complete, which the types of what is issued need).  Its second part has
`DeliveryInv`, which both workflows prove on top of their own invariant:

* `Reach`: certificates and accepted updates exist only past certain stages, or
  with the results that end them;
* `Taken`: the updates accepted so far are none or all with atomic rotation, and
  those before the index without;
* `Spent` and `Paid`: each certificate issued is in its place of an update, and
  each place the issuing loop is past has one.  They are two halves of one
  statement, and hold until an error ends the session;
* `TakenByOwner`: an update was taken by a card its keys are of, whatever sits in
  the slot by now; `BothTaken`: with both roles these are two cards, because an
  atomic call resolves both at once and `TwoSeats` puts them in two slots.

Its third part maps each step to one of `OwnerPromise` or to a stutter:
the checks that lead to issuing to `Admit`, an issued oIAK to `Sign`, an effective
rotation to `Deliver` (`InstallDelivers`: the cards that take an update are those
signed for, all of them if the call has all positions — this is where `Paid` is
needed), every error to `GiveUp`, or to the closing variant of the effect whose
reply was lost.  An oIDevID and the switch are stutters.

**Vendor workflows** (`VendorProofs`, with `VendorInv`):

* `Learnt`: an entry of `certDataList` is empty or of one verified card;
* `Admission`: entries before `idx` are filled, and past `CheckAtomic`, or once a
  certificate is issued, all are and agree;
* `Signed`: certificates issued are for verified keys of the card they name;
* `Carried`: `updates` holds only what the CA issued, an oIDevID in its place;
* `Held`: the same of `installed` — which is why `Fits`, the switch's check of the
  public keys, is needed: it turns "issued for the key's card" into "this card".

From it and `DeliveryInv`: `VendorTypeCorrect`, `VendorIssuesAfterVerifying`,
`VendorSignsVerifiedKeys`, `VendorInstallsOwn`, `VendorErrorTellsReach`,
`VendorAllOrPrefix`, `VendorLeavesNoOrphan`, `VendorEnrollsBothRoles` and
`VendorKeepsPromise` — all properties the runs check but `Termination`.

**HMAC workflow** (`HmacProofs`, with `HmacInv`).  The difficulty is replay: an
answer is kept for ever and may turn up later.  `Unasked` says that no answer to
a challenge exists before the challenge is sent; with it, an answer that verifies
at "challenge" is by the TPM whose EK was fetched.  `Round` and `Behind` carry
that to the CSR and to the selections before the index, `Past` to all of them
once the session issues, and `Signed` to the certificates.  Identity, EK, IAK and
IDevID are not assumed to be of one card: each is of *some* card, and the
invariant shows that what was verified makes them one.  A nil id and one with an
empty serial are looked up alike, under the empty serial (`Serial`).  The nil
one gets as far as the validation of `IssueOIDevID`, which refuses it; the other
one gets its certificates, and `HmacNamesTheTpm` says that their keys are those of the
TPM on record under the empty serial.  From it and
`DeliveryInv`: `HmacTypeCorrect`, `HmacNamesTheTpm`, `HmacIssuesToChallenged`,
`HmacIssuesAfterVerifying`, `HmacAllOrNone`, `HmacEnrollsFully`,
`HmacEnrollsBothRoles` and `HmacKeepsPromise`.

**The HMAC challenge itself** (`HmacChallengeProofs`, with `ChallengeInv`).  What
`HmacEnrollment` takes as one step, "the identity and the keys are verified", is
here a sequence of checks on public areas, attestations and signatures that any
software on the switch may have made from what the TPMs have signed.  The
invariant follows the call:

* `ImportedByEk`: the wrapped HMAC key has been imported by the TPM of the EK on
  record only, so an answer that verifies is that TPM's (`RecordKnown` says the
  record is the owner's for the identity);
* `KeysKnown` and `Resident`: the IAK is loaded in that TPM because the TPM
  certified it beside the HMAC key; the IDevID because the CSR is signed by the IAK,
  which is restricted, so it signs nothing that a TPM has not generated;
* `SoundSoFar`: for a sound card that answers for itself no check has failed.  This
  is where the code must agree with itself: the template the service asks for, the
  attributes it checks, the exponent it converts to and fro and the names it
  compares.

From it: `ChallengeTypeCorrect`, `ChallengeAcceptsResident`, `ChallengePassesSound`
and, step by step, `ChallengeVerifiesForEnrollment`: each step is one of
`HmacEnrollment` for one selection, or a stutter.  `ChallengeFitsEnrollment` proves
that the constants under the mapping meet `HmacEnrollment`'s assumptions, so the
theorems of the workflow hold of the checks as well.

**TPM 1.2 workflow.**  `RotateAikProofs` has `AikInv`: the client sends finalize
because of a message it reads, so the invariant says what every message under
way was when it was sent.

* `Stream(s)`: nothing is there before a session begins; it has no certificate and
  is not finalized before the CA answers; the client's messages are in
  `FromClient(s)` (before the CA answers the issuer key only, then its own
  certificate for the EK on record, finalize only when `Proved(s)`); the handler's
  are in `FromHandler(s)` (an identity request is for an AIK of the stream it
  names, a returned certificate is one the handler's card could decrypt).  A
  break or an error only takes messages away.
* `Kept`: the same of identity requests made earlier and certificates cards have
  stored, which handlers may send again in any later stream.

From it: `AikTypeCorrect`, `AikIssuedForThisStream`, `AikFinalizeProvesEk`.
Its second part adds `TurnsInv`, which bounds what is under way: client
and handler take turns (`Asked`, `Answered`), one message at most is between
them, or the stream is `Broken` or `Settled`; and what a session remembers
(`Account`), as that success over a stream without an error means a final
certificate.  From it: `AikTurns`, `AikSuccessOnSoundStream` and `AikKeepsPromise`,
every step of client, stream and handler as one of `AikPromise`.  Turns are
what the mapping rests on: it reads the stage off the messages under way, so one
too many would be a stage twice.

**Certificate verifier** (`CertVerifierProofs`).  `AnchoredIsTrusted` first: chain
verification adds the subjects reached in as many rounds as there are
certificates, the reference asks for a path to a root, and the two agree on every
finite set of certificates.  The proof is by induction on rounds, on the set of
numbers for which they agree (`NumberInduction`, from the library's facts on
well-founded relations), in both directions: a path goes on with a certificate
(`PathGoesOn`), and ends with one that a shorter path leads to (`PathComesFrom`).
Then `VerifierInv`: how much of its bundle each call has put into the pool
(`Collected`), that the IAK has passed when the IDevID is looked at
(`IakPassed`), and that a verdict given is within its bounds (`Decided`).  The
pool a leaf is verified with lies between `Lower` (the options and the bundle
itself) and `Upper` (with a pool in the options, all that was presented by then;
without one, the bundle itself); more certificates never make a sound bundle
unsound (`SoundGrows`), so verdicts stay within bounds that only grow.  From it:
`VerifierTypeCorrect`, `VerifierVerdictIsBounded`, `VerifierVerdictIsOwn` (the two
bounds meet) and `VerifierKeysShareSerial`.

**Structures on the wire** (`TpmBytesProofs`, `TpmMessagesProofs`).  The invariant is
short, `WireInv`: the wire has bytes, and what was received is what the reader makes of
them (`ResultIsRead`).  The work is in the operators, for keys, areas and texts of
any content and of any size up to `MaxSize` (2^30 - 1 bytes; the transport of the
service allows a few megabytes):

* Numbers: the bytes of a number are bytes and show it (`ValueOfBigEndian`), also
  from 2^31 on, which TLC has as negative numbers of the same bytes; and no four
  bytes show another number than their own (`FourBytes`).
* Sequences of areas: `FlattenSeq` and `Areas` are recursive functions.  That such a
  function exists and is the one `CHOOSE` takes (`RecursionExists`, `FlattenIsFlat`,
  `ReadsReadsAll`) and that areas put together one by one are read one by one
  (`PeelableStep`, `ReadAreas`) are inductions on a set of numbers.
* Structures: `IsX(v, x)` says that `x` is how `v` is written; for each there is one
  lemma that these are bytes and one that the reader gets `v` from the front of any
  bytes and leaves the rest (`KeyParmsRead`, `PubKeyRead`, `SymmetricKeyRead`,
  `AreasRead`), and so the messages made of them.
* Encryption: padding is taken off again (`PaddedIs`), a chain of blocks is undone
  under any key and IV (`EncryptedBytes`), and the IV is found in the parameters or
  in front of the text (`Decrypting`).  `ExchangeSurvives` then goes through a whole
  identity request, from the proof the TPM encrypts to the service's check of the
  identity binding.
* Cut messages: a reader that does not fail on some bytes gets the same from more
  of them (`Ahead`, `KeyParmsAhead`, `AreasAhead`), and no reader recovers once it is stuck
  (`ReadersLead`).  So of bytes and longer ones at most one is read to its end
  (`ProofNotLonger`, `CsrNotLonger`); a request tolerates what is behind it if these are
  zeros, and so needs the size of its last blob as well (`RequestNotLonger`).

* Accepted values: from bytes every reader gets bytes and leaves bytes (`Leaves`
  and the lemmas named after it), and then what it returns has all its parts
  (`ParmsComplete`, `KeyComplete`, `Complete`), whoever wrote the bytes.

From these: `ResultIsRead`, `WhatIsSentArrives`, `CutIsRefused` and
`WhatIsAcceptedIsComplete`.

**Assumptions**, each named in the module of its constants and evaluated in every
run: `CardAssumption` (cards are no roles, `NoCard` and `NoSerial` are neither and not the same), `CertAssumption`
(`NoCert` is no certificate), `RequestAssumption` (requests are well formed),
`VendorAssumption` (the sets of good keys are of cards, and requests are of the
two workflows), `HmacAssumption` (the same for HMAC; the RoT record of a card's
serial is its EK or missing, that of the empty serial any — the owner's database
is what the workflow trusts), `AikAssumption` (`NoCard` is no card, RoT records are EKs of
cards or missing), `NoCertAssumption` (`NoCert` is no AIK certificate) and
`VerifierAssumption` (key lengths are numbers, the pool in the options is a
finite set of certificates, a bundle that does not parse is none that does,
requests are of bundles).  Of `HmacChallenge`: `ChallengeAssumption` (each
key loaded in a TPM is of a card, each card's own keys are loaded, cards are no
roles), `SeatingAssumption` (a card is in one slot, and the active slot is not
empty), `OriginAssumption` (a key that a TPM made and keeps has one public area),
`RecordAssumption` (the records under a card's serial are keys of its TPM; those
under the empty serial are of one TPM), `FitAssumption` (what "sound" means, by the
TCG's templates and not by the code's checks), `InstanceAssumption` (`NoCert` and
`NoRequest` are none of the values under the mapping) and `Tpm20Assumption` (the
largest exponent is a number).  Of `TpmMessages`: `MessageAssumption` (messages are of
one of the seven forms and of values their writers can write) and `ByteAssumption`
(faults put in bytes).  They describe TPMs and the owner's database, which
the workflow trusts, and nothing the service is to find out.

**Only model-checked:** liveness and the fairness it rests on, which are beyond
this prover, and three properties of `TpmMessages`.  `OnlySignedAikPasses` is no theorem:
the stand-ins for SHA1 and signatures collide somewhere, so it is true of the
messages of the run and, of real ones, only with overwhelming probability.
`ReadersAreExact` says the converse of the lemmas above, that nothing but what is
written is read, and sums sizes with a fold on which the library has no
theorems; `KeysSurvive` takes a number to its bytes through its length in bits,
a minimum over powers of two that the provers do not reason about.
The findings of
section 4 are counterexamples and need no proof.

## 6. What is not modelled

* Cryptography: X.509 path building beyond issuer, CA flag and root; validity
  times; RSA, ECDSA and HMAC beyond who can make what; AES and SHA1 as above.
* The memory corruption a data race on `x509.CertPool` could cause; the race
  is modelled as interleaved additions.
* The marshalling of TPM 2.0 structures, which is go-tpm's: in `Tpm20Csr` a structure
  is a tag, a length and a body, in `Tpm20` a record.  A name stands for the public
  area it is a digest of.
* The EK and the IAK inside a CSR, which the code parses and does not look at again.
* Nil and empty arguments the workflows reject on entry (missing `Deps`, nil
  requests): one early return each, before any state exists.
* In `Tpm12`: random keys and IVs are given by the message.  An IV of the wrong
  length, on which the cipher package panics, is "no result".  A modulus is its
  bytes, as many as there are.  Numbers of four bytes from 2^31 on are the negative
  ones of the same bytes (TLC has no larger ones), and are no size of any area; an
  exponent of more than four bytes is cut at 2^31 - 1, and one above 2^32 - 1,
  which `ConstructPubKey` refuses (`tpm12_utils.go:1153`), is outside the keys
  considered.  The label of OAEP: `EncryptWithPublicKey` (`:657`) has one,
  `DecryptWithPrivateKey` (`:670`) has none; they serve opposite directions and
  never meet in this repository.
* The HMAC key, EK and card in `HmacChallenge` are those of one selection; the loop
  over selections, two sessions and replays between them are `HmacEnrollment`'s.
  Its cards are not replaced during the call, they only change roles.
* The Attest API, which has no code here; emulators; the reference PCR digest.

## 7. Plan

Done, in this order: `OwnerCerts` and `VendorEnrollment` with the promise, as the
core of the system; `HmacEnrollment` on the same base; `RotateAik`;
`CertVerifier`; `Tpm12`; the first proofs of the vendor workflows; the bytes
below, with identity contents and the CSR (`TpmBytes`, `Tpm20Csr`, `TpmMessages`);
`Tpm20` and `HmacChallenge` under `HmacEnrollment`; `AikPromise`; the safety
proofs of `RotateAik`; then the delivery of certificates and the promise for
both TPM 2.0 workflows, the safety of `HmacEnrollment`, the promise of
`RotateAik`, and the verifier; the checks of `HmacChallenge` and their
refinement of `HmacEnrollment`; last the structures on the wire, for all values.
