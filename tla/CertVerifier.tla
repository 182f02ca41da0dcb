---------------------------- MODULE CertVerifier ----------------------------
(***************************************************************************)
(* DefaultTpmCertVerifier (service/biz/tpm_cert_verifier.go): verification *)
(* of the IAK and IDevID certificates a card presents, by concurrent calls *)
(* that are given the same x509.VerifyOptions.  The options are passed by  *)
(* value, but a pool of intermediates in them is one object that every     *)
(* call adds the certificates it is presented to; with no pool in the      *)
(* options each verification of a leaf makes its own.                      *)
(*                                                                         *)
(* The checks of the x509 package are external: a leaf verifies when a     *)
(* path of CA certificates leads from it to a root.  A PEM bundle is the   *)
(* sequence of its certificate blocks, leaf first; <<>> is the empty       *)
(* string, a certificate that was left out, and Garbage is any other text  *)
(* that has no certificate block, or has one that does not parse.          *)
(***************************************************************************)
EXTENDS Naturals, FiniteSets, Sequences

CONSTANTS Call,         \* calls of the verifier
          Cert,         \* certificates: subject, issuer, ca, serial, key, bits
          Roots,        \* subjects of the roots in the options
          Given,        \* the pool of intermediates in the options, if any
          Garbage,      \* text that is not empty and not a bundle
          Requests      \* requests, see Request

Names == {x.issuer : x \in Cert} \cup {x.subject : x \in Cert} \cup Roots
Bundle == Seq(Cert) \cup {Garbage}

\* A request of VerifyIakAndIDevIDCerts (both) or of VerifyTpmCert; the two
\* serials are those in the ControlCardID, if the request has one (named).
Request == [both : BOOLEAN, named : BOOLEAN, iak : Bundle, idevid : Bundle,
            chassisSerial : STRING, cardSerial : STRING]

ASSUME VerifierAssumption ==
    /\ \A x \in Cert : x.bits \in Nat
    /\ Given \subseteq Cert /\ IsFiniteSet(Given)
    /\ Garbage \notin Seq(Cert)
    /\ \A r \in Requests : r.iak \in Bundle /\ r.idevid \in Bundle

-----------------------------------------------------------------------------
(* The x509 package: subjects that chain up to a root through a set of CA  *)
(* certificates.  As many rounds as there are certificates reach them all. *)

Trusted(certs) ==
    LET reach[n \in 0..Cardinality(certs)] ==
          IF n = 0 THEN Roots
          ELSE reach[n - 1] \cup
               {x.subject : x \in {y \in certs : y.ca /\ y.issuer \in reach[n - 1]}}
    IN reach[Cardinality(certs)]

\* getCertSerialNumber: serial is the subject serial split at "SN:".
SerialNumber(serial) == IF Len(serial) = 2 THEN serial[2] ELSE serial[1]

\* rsa.PublicKey.Size: whole bytes.
Size(bits) == (bits + 7) \div 8

\* VerifyAndSerializePubKey: the length of an RSA key is taken from its bytes,
\* that of an ECC key from its curve; no other kind of key is supported.
KeyAccepted(x) ==
    \/ x.key = "rsa" /\ Size(x.bits) * 8 >= 2048
    \/ x.key = "ecc" /\ x.bits >= 256

-----------------------------------------------------------------------------

VARIABLES
    pc,         \* "new", "parse", "add", "verify" or "done"
    req,        \* the request of a call (a set of at most one)
    target,     \* which of its two bundles is being verified
    added,      \* intermediates of the bundle added to the pool so far
    own,        \* the pool a verification made for itself
    pooled,     \* the options carry a pool of intermediates
    shared,     \* that pool
    verdict     \* "none", "reject", "iak" (only that key) or "both" keys

vars == <<pc, req, target, added, own, pooled, shared, verdict>>

Req(c)     == CHOOSE r \in req[c] : TRUE
Chain(c)   == IF target[c] = "iak" THEN Req(c).iak ELSE Req(c).idevid
Leaf(c)    == Chain(c)[1]
IakLeaf(c) == Req(c).iak[1]

\* With the index of the loop over a bundle inside that bundle.
TypeOK ==
    /\ pc \in [Call -> {"new", "parse", "add", "verify", "done"}]
    /\ \A c \in Call : req[c] \subseteq Requests /\ Cardinality(req[c]) <= 1
    /\ target \in [Call -> {"iak", "idevid"}]
    /\ added \in [Call -> Nat]
    /\ \A c \in Call : pc[c] \in {"add", "verify"} => added[c] < Len(Chain(c))
    /\ own \in [Call -> SUBSET Cert]
    /\ pooled \in BOOLEAN
    /\ shared \subseteq Cert
    /\ verdict \in [Call -> {"none", "reject", "iak", "both"}]

Init ==
    /\ pc = [c \in Call |-> "new"]
    /\ req = [c \in Call |-> {}]
    /\ target = [c \in Call |-> "iak"]
    /\ added = [c \in Call |-> 0]
    /\ own = [c \in Call |-> {}]
    /\ pooled \in BOOLEAN
    /\ shared = IF pooled THEN Given ELSE {}
    /\ verdict = [c \in Call |-> "none"]

Answer(c, v) ==
    /\ pc' = [pc EXCEPT ![c] = "done"]
    /\ verdict' = [verdict EXCEPT ![c] = v]
    /\ UNCHANGED <<target, own>>

\* A request without a ControlCardID is not valid.
Start(c, r) ==
    /\ pc[c] = "new"
    /\ req' = [req EXCEPT ![c] = {r}]
    /\ IF r.named
       THEN /\ pc' = [pc EXCEPT ![c] = "parse"]
            /\ UNCHANGED <<target, own, verdict>>
       ELSE Answer(c, "reject")
    /\ UNCHANGED <<added, pooled, shared>>

\* Mutant: the loop over the second bundle goes on where the first one ended.
ParseKeepsIndex(c) ==
    /\ pc[c] = "parse"
    /\ IF Chain(c) \in {<<>>, Garbage}
       THEN Answer(c, "reject")
       ELSE /\ pc' = [pc EXCEPT ![c] = "add"]
            /\ own' = [own EXCEPT ![c] = {}]
            /\ UNCHANGED <<target, verdict>>
    /\ UNCHANGED <<added, req, pooled, shared>>

\* parseCertChain: text without a certificate, or with one that does not parse,
\* is rejected before the pool changes.
Parse(c) ==
    /\ pc[c] = "parse"
    /\ IF Chain(c) \in {<<>>, Garbage}
       THEN Answer(c, "reject")
       ELSE /\ pc' = [pc EXCEPT ![c] = "add"]
            /\ own' = [own EXCEPT ![c] = {}]
            /\ UNCHANGED <<target, verdict>>
    /\ added' = [added EXCEPT ![c] = 0]
    /\ UNCHANGED <<req, pooled, shared>>

\* Mutant: without a pool in the options the calls share one as well.
AddToPoolShared(c, x) ==
    /\ shared' = shared \cup {x}
    /\ own' = [own EXCEPT ![c] = shared']
AddToPool(c, x) ==
    IF pooled
    THEN shared' = shared \cup {x} /\ UNCHANGED own
    ELSE own' = [own EXCEPT ![c] = @ \cup {x}] /\ UNCHANGED shared

\* The loop of VerifyAndParsePemCert over the certificates behind the leaf.
AddIntermediate(c) ==
    /\ pc[c] = "add"
    /\ IF added[c] + 1 < Len(Chain(c))
       THEN /\ AddToPool(c, Chain(c)[added[c] + 2])
            /\ added' = [added EXCEPT ![c] = @ + 1]
            /\ UNCHANGED pc
       ELSE /\ pc' = [pc EXCEPT ![c] = "verify"]
            /\ UNCHANGED <<added, own, shared>>
    /\ UNCHANGED <<req, target, pooled, verdict>>

\* Mutant: a leaf is good when its issuer is in the pool, root or not.
LeafVerifiesByPool(c) ==
    Leaf(c).issuer \in Roots \cup
        {x.subject : x \in IF pooled THEN shared ELSE own[c]}
\* leafCert.Verify with the pool as it is now.
LeafVerifies(c) ==
    Leaf(c).issuer \in Trusted(IF pooled THEN shared ELSE own[c])

\* Mutant: each certificate is compared with the request alone.
SerialMatchesEach(c) ==
    SerialNumber(Leaf(c).serial) \in {Req(c).chassisSerial, Req(c).cardSerial}

\* The serial of the IAK is that of the chassis or of the card; the serial of
\* the IDevID is that of the IAK.
SerialMatches(c) ==
    LET sn == SerialNumber(Leaf(c).serial) IN
    IF target[c] = "iak"
    THEN sn \in {Req(c).chassisSerial, Req(c).cardSerial}
    ELSE sn = SerialNumber(IakLeaf(c).serial)

\* The checks after the chain, in order, and what follows them: the IDevID
\* bundle when both are to be verified and one is present.
Verify(c) ==
    /\ pc[c] = "verify"
    /\ IF ~(LeafVerifies(c) /\ SerialMatches(c) /\ KeyAccepted(Leaf(c)))
       THEN Answer(c, "reject")
       ELSE IF target[c] = "iak" /\ Req(c).both /\ Req(c).idevid # <<>>
       THEN /\ target' = [target EXCEPT ![c] = "idevid"]
            /\ pc' = [pc EXCEPT ![c] = "parse"]
            /\ UNCHANGED <<own, verdict>>
       ELSE Answer(c, IF target[c] = "iak" THEN "iak" ELSE "both")
    /\ UNCHANGED <<req, added, pooled, shared>>

Step(c) == Parse(c) \/ AddIntermediate(c) \/ Verify(c)

Next == \E c \in Call : (\E r \in Requests : Start(c, r)) \/ Step(c)

Spec == Init /\ [][Next]_vars

-----------------------------------------------------------------------------
(* A reference for the verdict, on a request and a set of intermediates.   *)

Elements(b)  == IF b = Garbage THEN {} ELSE {b[i] : i \in 1..Len(b)}
Presented(r) == Elements(r.iak) \cup IF r.both THEN Elements(r.idevid) ELSE {}
Behind(b)    == IF b = Garbage THEN {} ELSE {b[i] : i \in 2..Len(b)}

\* Some path of CA certificates leads from a root to the issuer of x.
Anchored(x, certs) ==
    \E n \in 0..Cardinality(certs) : \E path \in [1..n -> certs] :
        /\ \A i \in 1..n : path[i].ca
        /\ \A i \in 1..(n - 1) : path[i + 1].issuer = path[i].subject
        /\ IF n = 0 THEN x.issuer \in Roots
           ELSE path[1].issuer \in Roots /\ x.issuer = path[n].subject

\* The part of a subject serial that is to be compared.
Number(x) == LET p == x.serial IN IF Len(p) = 2 THEN p[2] ELSE p[1]

Sound(b, certs) ==
    /\ b \notin {<<>>, Garbage}
    /\ Anchored(b[1], certs)
    /\ b[1].key \in {"rsa", "ecc"}
    /\ b[1].bits > IF b[1].key = "rsa" THEN 2040 ELSE 255

Acceptable(r, iakPool, idevidPool) ==
    /\ r.named
    /\ Sound(r.iak, iakPool)
    /\ Number(r.iak[1]) \in {r.chassisSerial, r.cardSerial}
    /\ r.both /\ r.idevid # <<>> =>
          /\ Sound(r.idevid, idevidPool)
          /\ Number(r.idevid[1]) = Number(r.iak[1])

\* Whatever the other calls do, a request whose own bundles lead to a root is
\* accepted, and nothing is accepted that the roots, the pool in the options
\* and all the certificates presented so far would not carry.
VerdictIsBounded ==
    \A c \in Call : pc[c] = "done" =>
        LET r    == Req(c)
            mine == IF pooled THEN Given ELSE {}
            seen == mine \cup UNION {Presented(q) : q \in UNION {req[d] : d \in Call}}
        IN
        /\ verdict[c] # "reject" => Acceptable(r, seen, seen)
        /\ Acceptable(r, mine \cup Behind(r.iak), mine \cup Behind(r.idevid))
              => verdict[c] # "reject"

\* Without a pool in the options a verdict depends on the request alone: not
\* on other calls, and for the IDevID not on what came with the IAK.
VerdictIsOwn ==
    \A c \in Call : pc[c] = "done" /\ ~pooled =>
        LET r == Req(c) IN
        verdict[c] # "reject" <=> Acceptable(r, Behind(r.iak), Behind(r.idevid))

\* A verdict of both keys is one on two certificates of the same serial, which
\* is the serial of the card or its chassis.
KeysShareSerial ==
    \A c \in Call : verdict[c] = "both" =>
        LET r == Req(c) IN
        /\ Number(r.iak[1]) = Number(r.idevid[1])
        /\ Number(r.iak[1]) \in {r.chassisSerial, r.cardSerial}

\* The comment in VerifyAndSerializePubKey: keys are ECC P256 or higher, or
\* RSA 2048 or higher.
AcceptedKeysAreStrong ==
    \A c \in Call : verdict[c] \in {"iak", "both"} =>
        LET x == Req(c).iak[1] IN
        x.bits >= IF x.key = "rsa" THEN 2048 ELSE 256
=============================================================================
