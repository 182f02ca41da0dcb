-------------------------- MODULE CertVerifierProofs --------------------------
(***************************************************************************)
(* The verifier accepts what its reference accepts, for any number of      *)
(* calls, any certificates, roots and requests: with a pool in the options *)
(* within the two bounds, and without one exactly.  The rounds of Trusted  *)
(* are shown to find the paths that Anchored speaks of; then the pool of a *)
(* verification is between what the call brought and what all calls did.   *)
(***************************************************************************)
EXTENDS CertVerifier, FiniteSetTheorems, TLAPS

-----------------------------------------------------------------------------
(* Rounds and paths.                                                       *)

\* Induction, on a set of numbers.
LEMMA NumberInduction ==
    ASSUME NEW S, 0 \in S, \A n \in Nat : n \in S => n + 1 \in S
    PROVE  Nat \subseteq S
  <1> DEFINE T == Nat \ S
             R == OpToRel(<, Nat)
  <1> SUFFICES ASSUME T # {} PROVE FALSE
    OBVIOUS
  <1>1. IsWellFoundedOn(R, Nat)
    BY NatLessThanWellFounded, Zenon
  <1>2. PICK x \in T : \A y \in T : ~ (<<y, x>> \in R)
    <2>1. T \subseteq Nat
      OBVIOUS
    <2> HIDE DEF T, R
    <2> QED BY <1>1, <2>1, WFMin
  <1>3. x - 1 \in T
    OBVIOUS
  <1>4. x - 1 < x /\ x - 1 \in Nat /\ x \in Nat
    BY <1>3
  <1>5. <<x - 1, x>> \in R
    BY <1>4, Zenon DEF OpToRel
  <1> HIDE DEF T, R
  <1> QED BY <1>2, <1>3, <1>5

\* The subjects of the CA certificates that one of some issuers has signed.
SignedBy(certs, issuers) ==
    {x.subject : x \in {y \in certs : y.ca /\ y.issuer \in issuers}}

\* f is the function that Trusted defines, up to k rounds.
Rounds(certs, k, f) ==
    f = [n \in 0..k |->
            IF n = 0 THEN Roots ELSE f[n - 1] \cup SignedBy(certs, f[n - 1])]

\* What Rounds says of each round.
EachRound(certs, k, f) ==
    /\ f[0] = Roots
    /\ \A n \in 0..k : n # 0 => f[n] = f[n - 1] \cup SignedBy(certs, f[n - 1])

LEMMA RoundsPointwise ==
    ASSUME NEW certs, NEW k \in Nat, NEW f, Rounds(certs, k, f)
    PROVE  EachRound(certs, k, f)
  <1> DEFINE h == [n \in 0..k |->
                      IF n = 0 THEN Roots ELSE f[n - 1] \cup SignedBy(certs, f[n - 1])]
  <1>1. f = h
    BY DEF Rounds
  <1>2. h[0] = Roots /\ \A n \in 0..k :
            n # 0 => h[n] = f[n - 1] \cup SignedBy(certs, f[n - 1])
    OBVIOUS
  <1> HIDE DEF h
  <1> QED BY <1>1, <1>2 DEF EachRound

LEMMA PointwiseRounds ==
    ASSUME NEW certs, NEW k \in Nat, NEW T, NEW f \in [0..k -> T], EachRound(certs, k, f)
    PROVE  Rounds(certs, k, f)
  <1> DEFINE h == [n \in 0..k |->
                      IF n = 0 THEN Roots ELSE f[n - 1] \cup SignedBy(certs, f[n - 1])]
  <1>1. h = [n \in 0..k |-> h[n]] /\ f = [n \in 0..k |-> f[n]]
    OBVIOUS
  <1>2. \A n \in 0..k : f[n] = h[n]
    BY DEF EachRound
  <1>3. f = h
    <2> HIDE DEF h
    <2> QED BY <1>1, <1>2
  <1> QED BY <1>3 DEF Rounds

LEMMA RoundsExist ==
    ASSUME NEW certs, NEW k \in Nat
    PROVE  \E f : Rounds(certs, k, f)
  <1> DEFINE S == {j \in Nat : \E f : Rounds(certs, j, f)}
  <1>1. 0 \in S
    <2> DEFINE f == [n \in 0..0 |-> Roots]
    <2>1. f \in [0..0 -> {Roots}] /\ EachRound(certs, 0, f)
      BY DEF EachRound
    <2> HIDE DEF f
    <2>2. Rounds(certs, 0, f)
      BY <2>1, PointwiseRounds
    <2> QED BY <2>2
  <1>2. ASSUME NEW j \in Nat, j \in S PROVE j + 1 \in S
    <2>1. PICK f : Rounds(certs, j, f)
      BY <1>2
    <2> DEFINE g == [n \in 0..(j+1) |-> IF n = j + 1 THEN f[j] \cup SignedBy(certs, f[j])
                                                     ELSE f[n]]
               T == {g[n] : n \in 0..(j+1)}
    <2>2. EachRound(certs, j, f)
      BY <2>1, RoundsPointwise
    <2>3. /\ g \in [0..(j+1) -> T]
          /\ \A n \in 0..j : g[n] = f[n]
          /\ g[j + 1] = f[j] \cup SignedBy(certs, f[j])
      OBVIOUS
    <2> HIDE DEF g, T
    <2>4. /\ \A n \in 0..j : n # 0 => n - 1 \in 0..j
          /\ 0..(j + 1) = 0..j \cup {j + 1}
          /\ 0 \in 0..j /\ j \in 0..j /\ j + 1 # 0 /\ (j + 1) - 1 = j
      OBVIOUS
    <2>5. EachRound(certs, j + 1, g)
      BY <2>2, <2>3, <2>4 DEF EachRound
    <2>6. Rounds(certs, j + 1, g)
      <3>1. j + 1 \in Nat
        OBVIOUS
      <3> QED BY <2>3, <2>5, <3>1, PointwiseRounds
    <2> QED BY <2>6
  <1> HIDE DEF S
  <1>3. Nat \subseteq S
    BY <1>1, <1>2, NumberInduction
  <1> QED BY <1>3 DEF S

\* Trusted is what as many rounds as there are certificates reach.
LEMMA TrustedIsRounds ==
    ASSUME NEW certs, Cardinality(certs) \in Nat
    PROVE  \E f : /\ Rounds(certs, Cardinality(certs), f)
                  /\ Trusted(certs) = f[Cardinality(certs)]
  <1> DEFINE k == Cardinality(certs)
             reach[n \in 0..k] ==
                IF n = 0 THEN Roots
                ELSE reach[n - 1] \cup
                     {x.subject : x \in {y \in certs : y.ca /\ y.issuer \in reach[n - 1]}}
  <1>1. Trusted(certs) = reach[k]
    BY DEF Trusted
  <1>2. Rounds(certs, k, reach)
    <2>1. \E f : Rounds(certs, k, f)
      BY RoundsExist
    <2> QED BY <2>1, Zenon DEF Rounds, SignedBy
  <1> QED BY <1>1, <1>2

\* A path of n certificates from a root to a subject.
Path(certs, n, path, subject) ==
    /\ path \in [1..n -> certs]
    /\ \A i \in 1..n : path[i].ca
    /\ \A i \in 1..(n - 1) : path[i + 1].issuer = path[i].subject
    /\ IF n = 0 THEN subject \in Roots
       ELSE path[1].issuer \in Roots /\ subject = path[n].subject

\* There is one of at most n certificates.
Leads(certs, n, subject) ==
    \E m \in 0..n : \E path \in [1..m -> certs] : Path(certs, m, path, subject)

\* A path goes on with a certificate its subject has signed.
LEMMA PathGoesOn ==
    ASSUME NEW certs, NEW n \in Nat, NEW y \in certs, y.ca, Leads(certs, n, y.issuer)
    PROVE  Leads(certs, n + 1, y.subject)
  <1>1. PICK m \in 0..n : \E path \in [1..m -> certs] : Path(certs, m, path, y.issuer)
    BY DEF Leads
  <1>2. PICK path \in [1..m -> certs] : Path(certs, m, path, y.issuer)
    BY <1>1
  <1> DEFINE longer == [i \in 1..(m + 1) |-> IF i = m + 1 THEN y ELSE path[i]]
  <1>3. /\ longer \in [1..(m + 1) -> certs] /\ longer[m + 1] = y
        /\ \A i \in 1..m : longer[i] = path[i]
    OBVIOUS
  <1> HIDE DEF longer
  <1>4. /\ m + 1 \in 0..(n + 1) /\ m + 1 # 0 /\ (m + 1) - 1 = m
        /\ 1..(m + 1) = 1..m \cup {m + 1}
        /\ m # 0 => 1 \in 1..m /\ m \in 1..m
        /\ \A i \in 1..m : i # m => i + 1 \in 1..m /\ i \in 1..(m - 1)
    OBVIOUS
  <1>5. \A i \in 1..(m + 1) : longer[i].ca
    BY <1>2, <1>3, <1>4 DEF Path
  <1>6. \A i \in 1..m : longer[i + 1].issuer = longer[i].subject
    <2> SUFFICES ASSUME NEW i \in 1..m PROVE longer[i + 1].issuer = longer[i].subject
      OBVIOUS
    <2>1. CASE i = m
      BY <1>2, <1>3, <1>4, <2>1 DEF Path
    <2>2. CASE i # m
      BY <1>2, <1>3, <1>4, <2>2 DEF Path
    <2> QED BY <2>1, <2>2
  <1>7. longer[1].issuer \in Roots
    <2>1. CASE m = 0
      BY <1>2, <1>3, <2>1 DEF Path
    <2>2. CASE m # 0
      BY <1>2, <1>3, <1>4, <2>2 DEF Path
    <2> QED BY <2>1, <2>2
  <1>8. Path(certs, m + 1, longer, y.subject)
    BY <1>3, <1>4, <1>5, <1>6, <1>7 DEF Path
  <1> QED BY <1>3, <1>4, <1>8 DEF Leads

\* A path ends with a certificate that a shorter one leads to.
LEMMA PathComesFrom ==
    ASSUME NEW certs, NEW n \in Nat, NEW r, Leads(certs, n + 1, r)
    PROVE  \/ Leads(certs, n, r)
           \/ \E y \in certs : y.ca /\ Leads(certs, n, y.issuer) /\ r = y.subject
  <1>1. PICK m \in 0..(n + 1) : \E path \in [1..m -> certs] : Path(certs, m, path, r)
    BY DEF Leads
  <1>2. PICK path \in [1..m -> certs] : Path(certs, m, path, r)
    BY <1>1
  <1>3. CASE m \in 0..n
    BY <1>2, <1>3 DEF Leads
  <1>4. CASE m = n + 1
    <2> DEFINE y == path[m]
               shorter == [i \in 1..n |-> path[i]]
    <2>1. /\ m # 0 /\ m - 1 = n /\ m \in 1..m /\ n \in 0..n /\ n + 1 = m
          /\ 1..n \subseteq 1..m
          /\ \A i \in 1..(n - 1) : i \in 1..n /\ i + 1 \in 1..n /\ i \in 1..(m - 1)
          /\ n # 0 => n \in 1..n /\ 1 \in 1..n /\ n \in 1..(m - 1)
      BY <1>4
    <2>2. y \in certs /\ y.ca /\ r = y.subject
      BY <1>2, <2>1 DEF Path
    <2>3. shorter \in [1..n -> certs] /\ \A i \in 1..n : shorter[i] = path[i]
      BY <2>1
    <2>4. IF n = 0 THEN y.issuer \in Roots
          ELSE shorter[1].issuer \in Roots /\ y.issuer = shorter[n].subject
      <3>1. CASE n = 0
        BY <1>2, <2>1, <3>1 DEF Path
      <3>2. CASE n # 0
        <4>1. path[n + 1].issuer = path[n].subject /\ path[1].issuer \in Roots
          BY <1>2, <2>1, <3>2 DEF Path
        <4> HIDE DEF shorter
        <4> QED BY <2>1, <2>3, <3>2, <4>1
      <3> QED BY <3>1, <3>2
    <2> HIDE DEF shorter, y
    <2>5. Path(certs, n, shorter, y.issuer)
      BY <1>2, <2>1, <2>3, <2>4 DEF Path
    <2> QED BY <2>1, <2>2, <2>3, <2>5 DEF Leads
  <1> QED BY <1>3, <1>4

\* After n rounds all is found that a path of n certificates leads to.
LEMMA RoundsFindPaths ==
    ASSUME NEW certs, NEW k \in Nat, NEW f, Rounds(certs, k, f)
    PROVE  \A n \in 0..k : \A r : r \in f[n] <=> Leads(certs, n, r)
  <1> DEFINE S == {n \in Nat : n \in 0..k => \A r : r \in f[n] <=> Leads(certs, n, r)}
  <1>1. /\ f[0] = Roots
        /\ \A n \in 0..k : n # 0 => f[n] = f[n - 1] \cup SignedBy(certs, f[n - 1])
    <2>1. EachRound(certs, k, f)
      BY RoundsPointwise
    <2> QED BY <2>1 DEF EachRound
  <1>2. 0 \in S
    <2>1. ASSUME NEW r PROVE Leads(certs, 0, r) <=> r \in Roots
      <3>1. 0..0 = {0} /\ 1..0 = {} /\ \A i \in 1..(0 - 1) : FALSE
        OBVIOUS
      <3>2. <<>> \in [1..0 -> certs]
        OBVIOUS
      <3> QED BY <3>1, <3>2 DEF Leads, Path
    <2> QED BY <1>1, <2>1
  <1>3. ASSUME NEW n \in Nat, n \in S PROVE n + 1 \in S
    <2> SUFFICES ASSUME n + 1 \in 0..k
                 PROVE  \A r : r \in f[n + 1] <=> Leads(certs, n + 1, r)
      OBVIOUS
    <2>1. n \in 0..k /\ n + 1 # 0 /\ (n + 1) - 1 = n
      OBVIOUS
    <2>2. f[n + 1] = f[n] \cup SignedBy(certs, f[n])
      BY <1>1, <2>1
    <2>3. \A r : r \in f[n] <=> Leads(certs, n, r)
      BY <1>3, <2>1
    <2>4. ASSUME NEW r, r \in f[n + 1] PROVE Leads(certs, n + 1, r)
      <3>1. CASE r \in f[n]
        <4>1. \A m \in 0..n : m \in 0..(n + 1)
          OBVIOUS
        <4> QED BY <2>3, <3>1, <4>1 DEF Leads
      <3>2. CASE r \in SignedBy(certs, f[n])
        <4>1. PICK y \in certs : y.ca /\ y.issuer \in f[n] /\ r = y.subject
          BY <3>2 DEF SignedBy
        <4> QED BY <2>3, <4>1, PathGoesOn
      <3> QED BY <2>2, <2>4, <3>1, <3>2
    <2>5. ASSUME NEW r, Leads(certs, n + 1, r) PROVE r \in f[n + 1]
      BY <2>2, <2>3, <2>5, PathComesFrom DEF SignedBy
    <2> QED BY <2>4, <2>5
  <1> HIDE DEF S
  <1>4. Nat \subseteq S
    BY <1>2, <1>3, NumberInduction
  <1>5. \A n \in 0..k : n \in Nat
    OBVIOUS
  <1> QED BY <1>4, <1>5 DEF S

\* The rounds of the x509 package end where the paths do: an issuer is trusted
\* if and only if a path of CA certificates leads to it from a root.
THEOREM AnchoredIsTrusted ==
    ASSUME NEW certs, IsFiniteSet(certs), NEW x
    PROVE  Anchored(x, certs) <=> x.issuer \in Trusted(certs)
  <1> DEFINE k == Cardinality(certs)
  <1>1. k \in Nat
    BY FS_CardinalityType
  <1>2. PICK f : Rounds(certs, k, f) /\ Trusted(certs) = f[k]
    BY <1>1, TrustedIsRounds
  <1>3. Anchored(x, certs) <=> Leads(certs, k, x.issuer)
    BY DEF Anchored, Leads, Path
  <1> HIDE DEF k
  <1>4. k \in 0..k
    BY <1>1
  <1>5. x.issuer \in f[k] <=> Leads(certs, k, x.issuer)
    BY <1>1, <1>2, <1>4, RoundsFindPaths
  <1> QED BY <1>2, <1>3, <1>5

\* More certificates carry no less.
LEMMA SoundGrows ==
    ASSUME NEW certs, NEW more, certs \subseteq more, IsFiniteSet(more),
           NEW b, Sound(b, certs)
    PROVE  Sound(b, more)
  <1>1. IsFiniteSet(certs) /\ Cardinality(certs) <= Cardinality(more)
    BY FS_Subset
  <1>2. Cardinality(certs) \in Nat /\ Cardinality(more) \in Nat
    BY <1>1, FS_CardinalityType
  <1>3. Anchored(b[1], more)
    <2> DEFINE k == Cardinality(certs)
               l == Cardinality(more)
    <2>1. Leads(certs, k, b[1].issuer)
      BY DEF Sound, Anchored, Leads, Path
    <2>2. k \in Nat /\ l \in Nat /\ k <= l
      BY <1>1, <1>2
    <2>3. Anchored(b[1], more) <=> Leads(more, l, b[1].issuer)
      BY DEF Anchored, Leads, Path
    <2> HIDE DEF k, l
    <2>4. PICK m \in 0..k : \E path \in [1..m -> certs] : Path(certs, m, path, b[1].issuer)
      BY <2>1 DEF Leads
    <2>5. PICK path \in [1..m -> certs] : Path(certs, m, path, b[1].issuer)
      BY <2>4
    <2>6. path \in [1..m -> more] /\ m \in 0..l
      BY <2>2
    <2>7. Path(more, m, path, b[1].issuer)
      BY <2>5, <2>6 DEF Path
    <2> QED BY <2>3, <2>6, <2>7 DEF Leads
  <1> QED BY <1>3 DEF Sound

\* What a leaf is checked for is what makes its bundle sound.
LEMMA LeafIsSound ==
    ASSUME NEW b \in Seq(Cert) \ {<<>>}, NEW certs, IsFiniteSet(certs)
    PROVE  b[1].issuer \in Trusted(certs) /\ KeyAccepted(b[1]) <=> Sound(b, certs)
  <1>1. b[1].bits \in Nat
    BY VerifierAssumption
  <1>2. b \notin {<<>>, Garbage}
    BY VerifierAssumption
  <1>3. KeyAccepted(b[1]) <=> /\ b[1].key \in {"rsa", "ecc"}
                              /\ b[1].bits > IF b[1].key = "rsa" THEN 2040 ELSE 255
    BY <1>1 DEF KeyAccepted, Size
  <1> QED BY <1>2, <1>3, AnchoredIsTrusted DEF Sound

-----------------------------------------------------------------------------
(* The invariant.                                                          *)

\* What is in the options, and what there can be in a pool in all.
Mine == IF pooled THEN Given ELSE {}
Seen == Mine \cup UNION {Presented(q) : q \in UNION {req[d] : d \in Call}}

\* The pool that a bundle is verified with is between these.
Lower(b) == Mine \cup Behind(b)
Upper(b) == IF pooled THEN Seen ELSE Behind(b)

\* A verdict on a request is within its bounds.
Decided(r, v) ==
    /\ v # "reject" => Acceptable(r, Upper(r.iak), Upper(r.idevid))
    /\ Acceptable(r, Lower(r.iak), Lower(r.idevid)) => v # "reject"
    /\ v = "both" => r.both /\ r.idevid # <<>>

\* The IAK of a request has passed, and the IDevID is to be looked at.
IakPassed(r) ==
    /\ r.both /\ r.idevid # <<>>
    /\ Sound(r.iak, Upper(r.iak))
    /\ Number(r.iak[1]) \in {r.chassisSerial, r.cardSerial}

\* The bundle being verified, and the certificates behind its leaf that are in
\* the pool.
Current(c, r)   == IF target[c] = "iak" THEN r.iak ELSE r.idevid
Collected(c, b) == {b[i] : i \in 2..(added[c] + 1)}

\* How far a call with request r is.
Progress(c, r) ==
    /\ pc[c] # "done" => r.named
    /\ target[c] = "idevid" => IakPassed(r)
    /\ pc[c] \in {"add", "verify"} =>
          /\ Current(c, r) \in Seq(Cert) \ {<<>>}
          /\ added[c] < Len(Current(c, r))
          /\ IF pooled THEN Collected(c, Current(c, r)) \subseteq shared
             ELSE own[c] = Collected(c, Current(c, r))
    /\ pc[c] = "verify" => added[c] + 1 = Len(Current(c, r))
    /\ pc[c] = "done" => Decided(r, verdict[c])

CallInv(c) ==
    /\ pc[c] = "new" => req[c] = {} /\ target[c] = "iak"
    /\ pc[c] # "new" => \E r \in Requests : req[c] = {r}
    /\ verdict[c] = "none" <=> pc[c] # "done"
    /\ \A r \in req[c] : Progress(c, r)

Basics ==
    /\ pc \in [Call -> {"new", "parse", "add", "verify", "done"}]
    /\ target \in [Call -> {"iak", "idevid"}]
    /\ added \in [Call -> Nat]
    /\ req \in [Call -> SUBSET Requests]
    /\ own \in [Call -> SUBSET Cert]
    /\ pooled \in BOOLEAN
    /\ shared \subseteq Cert
    /\ verdict \in [Call -> {"none", "reject", "iak", "both"}]

\* The shared pool has what is in the options and nothing that was not presented.
Pools ==
    /\ IsFiniteSet(Seen)
    /\ pooled => Given \subseteq shared /\ shared \subseteq Seen

VerifierInv == Basics /\ Pools /\ \A c \in Call : CallInv(c)

\* The request of a call that has begun.
LEMMA Begun ==
    ASSUME NEW c \in Call, CallInv(c), pc[c] # "new"
    PROVE  \E r \in Requests :
              /\ req[c] = {r} /\ Req(c) = r /\ Progress(c, r)
              /\ Chain(c) = Current(c, r)
              /\ r.iak \in Bundle /\ r.idevid \in Bundle
  <1>1. PICK r \in Requests : req[c] = {r}
    BY DEF CallInv
  <1>2. Req(c) = r
    BY <1>1 DEF Req
  <1> QED BY <1>1, <1>2, VerifierAssumption DEF Chain, Current, CallInv

\* What stands behind a leaf.
LEMMA BehindFinite ==
    ASSUME NEW b \in Bundle
    PROVE  IsFiniteSet(Behind(b)) /\ Behind(b) \subseteq Cert
           /\ IsFiniteSet(Elements(b)) /\ Behind(b) \subseteq Elements(b)
  <1>1. CASE b = Garbage
    BY <1>1, FS_EmptySet DEF Behind, Elements
  <1>2. CASE b # Garbage
    <2> DEFINE E == {b[i] : i \in 1..Len(b)}
               B == {b[i] : i \in 2..Len(b)}
    <2>1. b \in Seq(Cert) /\ Len(b) \in Nat
      BY <1>2 DEF Bundle
    <2>2. IsFiniteSet(1..Len(b))
      BY <2>1, FS_Interval
    <2>3. IsFiniteSet(E)
      <3> DEFINE f == [i \in 1..Len(b) |-> b[i]]
      <3>1. f \in Surjection(1..Len(b), E)
        BY DEF Surjection
      <3> HIDE DEF E, f
      <3> QED BY <2>2, <3>1, FS_Surjection
    <2>4. B \subseteq E /\ B \subseteq Cert
      BY <2>1
    <2>5. Behind(b) = B /\ Elements(b) = E
      BY <1>2 DEF Behind, Elements
    <2> HIDE DEF E, B
    <2> QED BY <2>3, <2>4, <2>5, FS_Subset
  <1> QED BY <1>1, <1>2

LEMMA PresentedFinite ==
    ASSUME NEW r \in Requests
    PROVE  IsFiniteSet(Presented(r))
  <1>1. r.iak \in Bundle /\ r.idevid \in Bundle
    BY VerifierAssumption
  <1>2. IsFiniteSet(Elements(r.iak)) /\ IsFiniteSet(Elements(r.idevid))
    BY <1>1, BehindFinite
  <1>3. CASE r.both
    BY <1>2, <1>3, FS_Union DEF Presented
  <1>4. CASE ~r.both
    BY <1>2, <1>4, FS_EmptySet, FS_Union DEF Presented
  <1> QED BY <1>3, <1>4

\* The bounds of a pool are finite.
LEMMA BoundsFinite ==
    ASSUME Pools, NEW b \in Bundle
    PROVE  IsFiniteSet(Lower(b)) /\ IsFiniteSet(Upper(b))
  <1>1. IsFiniteSet(Behind(b))
    BY BehindFinite
  <1>2. IsFiniteSet(Mine)
    BY VerifierAssumption, FS_EmptySet DEF Mine
  <1> QED BY <1>1, <1>2, FS_Union DEF Lower, Upper, Pools

\* More in the pools, and the same options.
Grows ==
    /\ pooled' = pooled /\ shared \subseteq shared' /\ Seen \subseteq Seen'
    /\ Pools'

LEMMA BoundsGrow ==
    ASSUME Grows, NEW b \in Bundle
    PROVE  /\ Upper(b) \subseteq Upper(b)' /\ IsFiniteSet(Upper(b)')
           /\ Lower(b)' = Lower(b)
  <1>1. IsFiniteSet(Behind(b))
    BY BehindFinite
  <1> QED BY <1>1 DEF Grows, Pools, Upper, Lower, Mine

\* What has passed or was decided stays so.
LEMMA PassedStays ==
    ASSUME Grows, NEW r \in Requests
    PROVE  /\ IakPassed(r) => IakPassed(r)'
           /\ \A v : Decided(r, v) => Decided(r, v)'
  <1>1. r.iak \in Bundle /\ r.idevid \in Bundle
    BY VerifierAssumption
  <1>2. /\ Upper(r.iak) \subseteq Upper(r.iak)' /\ IsFiniteSet(Upper(r.iak)')
        /\ Upper(r.idevid) \subseteq Upper(r.idevid)' /\ IsFiniteSet(Upper(r.idevid)')
        /\ Lower(r.iak)' = Lower(r.iak) /\ Lower(r.idevid)' = Lower(r.idevid)
    BY <1>1, BoundsGrow
  <1>3. /\ Sound(r.iak, Upper(r.iak)) => Sound(r.iak, Upper(r.iak)')
        /\ Sound(r.idevid, Upper(r.idevid)) => Sound(r.idevid, Upper(r.idevid)')
    BY <1>2, SoundGrows
  <1> QED BY <1>2, <1>3 DEF IakPassed, Decided, Acceptable

\* A call that does not move keeps what holds of it.
LEMMA CallKept ==
    ASSUME Grows, NEW c \in Call, CallInv(c), req[c] \subseteq Requests,
           pc'[c] = pc[c], req'[c] = req[c], target'[c] = target[c],
           added'[c] = added[c], own'[c] = own[c], verdict'[c] = verdict[c]
    PROVE  CallInv(c)'
  <1>1. ASSUME NEW r \in req[c] PROVE Progress(c, r)'
    <2>1. Progress(c, r) /\ r \in Requests
      BY DEF CallInv
    <2>2. Current(c, r)' = Current(c, r)
      BY DEF Current
    <2>3. \A b : Collected(c, b)' = Collected(c, b)
      BY DEF Collected
    <2>4. pooled' = pooled /\ shared \subseteq shared'
      BY DEF Grows
    <2> QED BY <2>1, <2>2, <2>3, <2>4, PassedStays DEF Progress
  <1> QED BY <1>1 DEF CallInv

LEMMA VerifierInit == Init => VerifierInv
  <1> SUFFICES ASSUME Init PROVE VerifierInv
    OBVIOUS
  <1>1. Basics
    BY VerifierAssumption DEF Init, Basics
  <1>2. Pools
    <2>1. UNION {req[d] : d \in Call} = {}
      BY DEF Init
    <2>2. Seen = Mine
      BY <2>1 DEF Seen
    <2> QED BY <2>2, VerifierAssumption, FS_EmptySet DEF Init, Pools, Mine
  <1>3. ASSUME NEW c \in Call PROVE CallInv(c)
    BY DEF Init, CallInv
  <1> QED BY <1>1, <1>2, <1>3 DEF VerifierInv

\* No request comes and no pool that is shared changes.
LEMMA NothingNew ==
    ASSUME VerifierInv, UNCHANGED <<req, pooled, shared>>
    PROVE  Grows
  <1>1. Seen' = Seen
    BY DEF Seen, Mine
  <1> QED BY <1>1 DEF Grows, VerifierInv, Pools

\* A new call adds its certificates to what can be in a pool.
LEMMA StartInv ==
    ASSUME VerifierInv, NEW c \in Call, NEW r \in Requests, Start(c, r)
    PROVE  VerifierInv'
  <1> DEFINE next == IF r.named THEN "parse" ELSE "done"
             answer == IF r.named THEN "none" ELSE "reject"
  <1>1. /\ pc[c] = "new" /\ verdict[c] = "none"
        /\ req' = [req EXCEPT ![c] = {r}]
        /\ UNCHANGED <<target, added, own, pooled, shared>>
    BY DEF Start, Answer, VerifierInv, CallInv
  <1>2. /\ Basics'
        /\ pc'[c] = next /\ \A d \in Call \ {c} : pc'[d] = pc[d]
        /\ verdict'[c] = answer /\ \A d \in Call \ {c} : verdict'[d] = verdict[d]
    <2>1. CASE r.named
      BY <1>1, <2>1 DEF Start, VerifierInv, Basics
    <2>2. CASE ~r.named
      BY <1>1, <2>2 DEF Start, Answer, VerifierInv, Basics
    <2> QED BY <2>1, <2>2
  <1>3. req[c] = {} /\ req'[c] = {r} /\ \A d \in Call : d # c => req'[d] = req[d]
    BY <1>1 DEF VerifierInv, CallInv, Basics
  <1>4. Seen' = Seen \cup Presented(r)
    BY <1>1, <1>3 DEF Seen, Mine
  <1>5. Grows
    BY <1>1, <1>4, PresentedFinite, FS_Union DEF Grows, VerifierInv, Pools
  <1>6. CallInv(c)'
    <2>1. target'[c] = "iak"
      BY <1>1 DEF VerifierInv, CallInv
    <2>2. ~r.named => Decided(r, "reject")'
      BY DEF Decided, Acceptable
    <2>3. Progress(c, r)'
      BY <1>2, <2>1, <2>2 DEF Progress
    <2> QED BY <1>2, <1>3, <2>3 DEF CallInv
  <1>7. ASSUME NEW d \in Call, d # c PROVE CallInv(d)'
    BY <1>1, <1>2, <1>3, <1>5, <1>7, CallKept DEF VerifierInv, Basics
  <1> QED BY <1>2, <1>5, <1>6, <1>7 DEF VerifierInv, Grows

\* A step of one call, which leaves its request alone.
LEMMA CallStep ==
    ASSUME VerifierInv, Grows, Basics', NEW c \in Call, CallInv(c)', UNCHANGED req,
           \A d \in Call \ {c} :
               /\ pc'[d] = pc[d] /\ target'[d] = target[d] /\ added'[d] = added[d]
               /\ own'[d] = own[d] /\ verdict'[d] = verdict[d]
    PROVE  VerifierInv'
  <1>1. ASSUME NEW d \in Call, d # c PROVE CallInv(d)'
    BY <1>1, CallKept DEF VerifierInv, Basics
  <1> QED BY <1>1 DEF VerifierInv, Grows

\* A bundle that does not parse is sound in no pool.
LEMMA ParseInv ==
    ASSUME VerifierInv, NEW c \in Call, Parse(c)
    PROVE  VerifierInv'
  <1>1. PICK r \in Requests :
          /\ req[c] = {r} /\ Progress(c, r) /\ Chain(c) = Current(c, r)
          /\ r.iak \in Bundle /\ r.idevid \in Bundle
    BY Begun DEF Parse, VerifierInv
  <1>2. /\ pc[c] = "parse" /\ added' = [added EXCEPT ![c] = 0]
        /\ UNCHANGED <<req, pooled, shared, target>>
    BY DEF Parse, Answer
  <1>3. Grows
    BY <1>2, NothingNew
  <1>4. CASE Chain(c) \in {<<>>, Garbage} /\ Answer(c, "reject")
    <2>1. /\ pc' = [pc EXCEPT ![c] = "done"] /\ own' = own
          /\ verdict' = [verdict EXCEPT ![c] = "reject"]
      BY <1>4 DEF Answer
    <2>2. Basics'
      BY <1>2, <2>1 DEF VerifierInv, Basics
    <2>3. pc'[c] = "done" /\ verdict'[c] = "reject"
      BY <2>1 DEF VerifierInv, Basics
    <2>4. \A certs : ~Sound(Current(c, r), certs)
      BY <1>1, <1>4 DEF Sound
    <2>5. target[c] = "idevid" => IakPassed(r)
      BY <1>1 DEF Progress
    <2>6. Decided(r, "reject")
      <3>1. CASE target[c] = "iak"
        BY <2>4, <3>1 DEF Decided, Acceptable, Current
      <3>2. CASE target[c] # "iak"
        <4>1. /\ \A certs : ~Sound(r.idevid, certs)
              /\ r.both /\ r.idevid # <<>>
          BY <2>4, <2>5, <3>2 DEF Current, IakPassed, VerifierInv, Basics
        <4> QED BY <4>1 DEF Decided, Acceptable
      <3> QED BY <3>1, <3>2
    <2>7. Progress(c, r)'
      BY <1>2, <1>3, <2>3, <2>5, <2>6, PassedStays DEF Progress
    <2>8. CallInv(c)'
      BY <1>1, <1>2, <2>3, <2>7 DEF CallInv
    <2> QED BY <1>2, <1>3, <2>1, <2>2, <2>8, CallStep DEF VerifierInv, Basics
  <1>5. CASE /\ Chain(c) \notin {<<>>, Garbage}
             /\ pc' = [pc EXCEPT ![c] = "add"] /\ own' = [own EXCEPT ![c] = {}]
             /\ verdict' = verdict
    <2>1. Basics'
      BY <1>2, <1>5 DEF VerifierInv, Basics
    <2>2. pc'[c] = "add" /\ own'[c] = {} /\ added'[c] = 0
      BY <1>2, <1>5 DEF VerifierInv, Basics
    <2>3. Current(c, r) \in Seq(Cert) \ {<<>>} /\ Current(c, r)' = Current(c, r)
      BY <1>1, <1>2, <1>5 DEF Bundle, Current
    <2>4. 0 < Len(Current(c, r))
      BY <2>3
    <2>5. \A b : Collected(c, b)' = {}
      BY <2>2 DEF Collected
    <2>6. target[c] = "idevid" => IakPassed(r)'
      BY <1>1, <1>3, PassedStays DEF Progress
    <2>7. Progress(c, r)'
      BY <1>1, <1>2, <2>2, <2>3, <2>4, <2>5, <2>6 DEF Progress
    <2>8. CallInv(c)'
      BY <1>1, <1>2, <1>5, <2>2, <2>7 DEF CallInv, VerifierInv
    <2> QED BY <1>2, <1>3, <1>5, <2>1, <2>8, CallStep DEF VerifierInv, Basics
  <1> QED BY <1>4, <1>5 DEF Parse

\* A certificate is added to what stands behind the leaf in the pool.
LEMMA AddIntermediateInv ==
    ASSUME VerifierInv, NEW c \in Call, AddIntermediate(c)
    PROVE  VerifierInv'
  <1>1. PICK r \in Requests :
          /\ req[c] = {r} /\ Progress(c, r) /\ Chain(c) = Current(c, r)
    BY Begun DEF AddIntermediate, VerifierInv
  <1> DEFINE b == Current(c, r)
  <1>2. /\ pc[c] = "add" /\ UNCHANGED <<req, target, pooled, verdict>>
    BY DEF AddIntermediate
  <1>3. /\ b \in Seq(Cert) \ {<<>>} /\ added[c] \in Nat /\ added[c] < Len(b)
        /\ IF pooled THEN Collected(c, b) \subseteq shared ELSE own[c] = Collected(c, b)
        /\ target[c] = "idevid" => IakPassed(r)
    BY <1>1, <1>2 DEF Progress, VerifierInv, Basics
  <1>4. b' = b
    BY <1>2 DEF Current
  <1>5. CASE /\ added[c] + 1 < Len(b) /\ AddToPool(c, b[added[c] + 2])
             /\ added' = [added EXCEPT ![c] = @ + 1] /\ pc' = pc
    <2> DEFINE x == b[added[c] + 2]
    <2>1. x \in Cert /\ x \in {b[i] : i \in 1..Len(b)}
      <3>1. added[c] + 2 \in 1..Len(b)
        BY <1>3, <1>5
      <3> QED BY <1>3, <3>1
    <2>2. x \in Seen
      <3>1. b # Garbage
        BY <1>3, VerifierAssumption
      <3>2. x \in Elements(b)
        BY <2>1, <3>1 DEF Elements
      <3>3. x \in Presented(r)
        BY <1>3, <3>2 DEF Presented, Current, IakPassed, VerifierInv, Basics
      <3> QED BY <1>1, <3>3 DEF Seen
    <2>3. added'[c] = added[c] + 1 /\ \A d \in Call \ {c} : added'[d] = added[d]
      BY <1>5 DEF VerifierInv, Basics
    <2>4. Collected(c, b)' = Collected(c, b) \cup {x}
      <3>1. 2..((added[c] + 1) + 1) = 2..(added[c] + 1) \cup {added[c] + 2}
        BY <1>3
      <3> HIDE DEF b
      <3> QED BY <1>4, <2>3, <3>1 DEF Collected
    <2> HIDE DEF x
    <2>5. IF pooled THEN shared' = shared \cup {x} /\ own' = own
          ELSE own' = [own EXCEPT ![c] = @ \cup {x}] /\ shared' = shared
      BY <1>5 DEF AddToPool, x
    <2>6. Basics'
      BY <1>2, <1>5, <2>1, <2>5 DEF VerifierInv, Basics
    <2>7. Seen' = Seen
      BY <1>2 DEF Seen, Mine
    <2>8. Grows
      BY <1>2, <2>2, <2>5, <2>7 DEF Grows, VerifierInv, Pools
    <2>9. IF pooled THEN Collected(c, b)' \subseteq shared'
          ELSE own'[c] = Collected(c, b)'
      BY <1>3, <2>4, <2>5 DEF VerifierInv, Basics
    <2>10. target[c] = "idevid" => IakPassed(r)'
      BY <1>3, <2>8, PassedStays
    <2>11. Progress(c, r)'
      <3>1. pc'[c] = "add" /\ added'[c] < Len(b)
        BY <1>2, <1>5, <2>3
      <3> HIDE DEF b
      <3>2. pooled' = pooled /\ target' = target
        BY <1>2
      <3>3. r.named
        BY <1>1, <1>2 DEF Progress
      <3> QED BY <1>3, <1>4, <2>9, <2>10, <3>1, <3>2, <3>3 DEF Progress, b
    <2>12. CallInv(c)'
      BY <1>1, <1>2, <1>5, <2>11 DEF CallInv, VerifierInv
    <2>13. \A d \in Call \ {c} : own'[d] = own[d]
      BY <2>5 DEF VerifierInv, Basics
    <2> QED BY <1>2, <1>5, <2>3, <2>6, <2>8, <2>12, <2>13, CallStep
  <1>6. CASE /\ ~(added[c] + 1 < Len(b)) /\ pc' = [pc EXCEPT ![c] = "verify"]
             /\ UNCHANGED <<added, own, shared>>
    <2>1. Basics'
      BY <1>2, <1>6 DEF VerifierInv, Basics
    <2>2. Grows
      BY <1>2, <1>6, NothingNew
    <2>3. pc'[c] = "verify" /\ added[c] + 1 = Len(b)
      BY <1>3, <1>6 DEF VerifierInv, Basics
    <2>4. Collected(c, b)' = Collected(c, b)
      BY <1>4, <1>6 DEF Collected
    <2>5. target[c] = "idevid" => IakPassed(r)'
      BY <1>3, <2>2, PassedStays
    <2>6. Progress(c, r)'
      BY <1>1, <1>2, <1>3, <1>4, <1>6, <2>3, <2>4, <2>5 DEF Progress
    <2>7. CallInv(c)'
      BY <1>1, <1>2, <2>3, <2>6 DEF CallInv, VerifierInv
    <2> QED BY <1>2, <1>6, <2>1, <2>2, <2>7, CallStep DEF VerifierInv, Basics
  <1> HIDE DEF b
  <1>7. Chain(c) = b
    BY <1>1 DEF b
  <1> QED BY <1>5, <1>6, <1>7 DEF AddIntermediate

\* The pool a leaf is verified with is within its bounds.
LEMMA PoolIsBounded ==
    ASSUME VerifierInv, NEW c \in Call, NEW r \in Requests, Progress(c, r),
           pc[c] = "verify",
           NEW pool, pool = IF pooled THEN shared ELSE own[c]
    PROVE  LET b == Current(c, r) IN
           /\ b \in Seq(Cert) \ {<<>>} /\ b \in Bundle
           /\ Lower(b) \subseteq pool /\ pool \subseteq Upper(b)
           /\ IsFiniteSet(Upper(b)) /\ IsFiniteSet(pool)
  <1> DEFINE b == Current(c, r)
  <1>1. /\ b \in Seq(Cert) \ {<<>>} /\ added[c] + 1 = Len(b)
        /\ IF pooled THEN Collected(c, b) \subseteq shared ELSE own[c] = Collected(c, b)
    BY DEF Progress
  <1>2. b \in Bundle /\ b # Garbage
    BY <1>1, VerifierAssumption DEF Bundle
  <1>3. Collected(c, b) = Behind(b)
    BY <1>1, <1>2 DEF Collected, Behind
  <1>4. IsFiniteSet(Upper(b))
    BY <1>2, BoundsFinite DEF VerifierInv
  <1> HIDE DEF b
  <1>5. Lower(b) \subseteq pool /\ pool \subseteq Upper(b)
    BY <1>1, <1>3 DEF Lower, Upper, Mine, VerifierInv, Pools
  <1> QED BY <1>1, <1>2, <1>4, <1>5, FS_Subset DEF b

\* What the checks on a leaf say of its bundle.
LEMMA LeafIsBounded ==
    ASSUME VerifierInv, NEW c \in Call, NEW r \in Requests, Progress(c, r),
           pc[c] = "verify", Req(c) = r, Chain(c) = Current(c, r)
    PROVE  LET b == Current(c, r)
               passes == LeafVerifies(c) /\ KeyAccepted(Leaf(c))
           IN  /\ passes => Sound(b, Upper(b))
               /\ Sound(b, Lower(b)) => passes
  <1> DEFINE b == Current(c, r)
             pool == IF pooled THEN shared ELSE own[c]
  <1>1. /\ b \in Seq(Cert) \ {<<>>} /\ b \in Bundle
        /\ Lower(b) \subseteq pool /\ pool \subseteq Upper(b)
        /\ IsFiniteSet(Upper(b)) /\ IsFiniteSet(pool)
    <2> HIDE DEF pool
    <2>1. pool = IF pooled THEN shared ELSE own[c]
      BY DEF pool
    <2> QED BY <2>1, PoolIsBounded
  <1>2. Leaf(c) = b[1] /\ (LeafVerifies(c) <=> b[1].issuer \in Trusted(pool))
    BY DEF Leaf, LeafVerifies
  <1> HIDE DEF b, pool
  <1>3. LeafVerifies(c) /\ KeyAccepted(Leaf(c)) <=> Sound(b, pool)
    BY <1>1, <1>2, LeafIsSound
  <1>4. Sound(b, pool) => Sound(b, Upper(b))
    BY <1>1, SoundGrows
  <1>5. Sound(b, Lower(b)) => Sound(b, pool)
    BY <1>1, SoundGrows
  <1> QED BY <1>3, <1>4, <1>5 DEF b

\* A bundle passes or not within its bounds, and the IAK goes before the IDevID.
LEMMA VerifyInv ==
    ASSUME VerifierInv, NEW c \in Call, Verify(c)
    PROVE  VerifierInv'
  <1>1. PICK r \in Requests :
          /\ req[c] = {r} /\ Req(c) = r /\ Progress(c, r) /\ Chain(c) = Current(c, r)
          /\ r.iak \in Bundle /\ r.idevid \in Bundle
    BY Begun DEF Verify, VerifierInv
  <1>2. /\ pc[c] = "verify" /\ UNCHANGED <<req, added, own, pooled, shared>>
    BY DEF Verify, Answer
  <1>3. Grows
    BY <1>2, NothingNew
  <1> DEFINE b      == Current(c, r)
             passes == LeafVerifies(c) /\ KeyAccepted(Leaf(c))
  <1>4. (passes => Sound(b, Upper(b))) /\ (Sound(b, Lower(b)) => passes)
    BY <1>1, <1>2, LeafIsBounded
  <1>5. IF target[c] = "iak"
        THEN /\ b = r.iak
             /\ SerialMatches(c) <=> Number(r.iak[1]) \in {r.chassisSerial, r.cardSerial}
        ELSE /\ target[c] = "idevid" /\ b = r.idevid /\ IakPassed(r)
             /\ SerialMatches(c) <=> Number(r.idevid[1]) = Number(r.iak[1])
    BY <1>1 DEF Current, Progress, SerialMatches, SerialNumber, Number, Leaf, IakLeaf,
                VerifierInv, Basics
  <1> HIDE DEF b, passes
  <1>6. ASSUME NEW v \in {"reject", "iak", "both"}, Answer(c, v), Decided(r, v)
        PROVE  VerifierInv'
    <2>1. /\ pc' = [pc EXCEPT ![c] = "done"] /\ verdict' = [verdict EXCEPT ![c] = v]
          /\ target' = target
      BY <1>6 DEF Answer
    <2>2. Basics'
      BY <1>2, <2>1 DEF VerifierInv, Basics
    <2>3. pc'[c] = "done" /\ verdict'[c] = v
      BY <2>1 DEF VerifierInv, Basics
    <2>4. Decided(r, v)' /\ (IakPassed(r) => IakPassed(r)')
      BY <1>3, <1>6, PassedStays
    <2>5. Progress(c, r)'
      BY <1>1, <2>1, <2>3, <2>4 DEF Progress
    <2>6. CallInv(c)'
      BY <1>1, <1>2, <2>3, <2>5 DEF CallInv
    <2> QED BY <1>2, <1>3, <2>1, <2>2, <2>6, CallStep DEF VerifierInv, Basics
  <1>7. CASE ~(passes /\ SerialMatches(c)) /\ Answer(c, "reject")
    <2>1. ~Acceptable(r, Lower(r.iak), Lower(r.idevid))
      BY <1>4, <1>5, <1>7 DEF Acceptable, IakPassed
    <2> QED BY <1>6, <1>7, <2>1 DEF Decided
  <1>8. CASE /\ passes /\ SerialMatches(c)
             /\ target[c] = "iak" /\ r.both /\ r.idevid # <<>>
             /\ target' = [target EXCEPT ![c] = "idevid"]
             /\ pc' = [pc EXCEPT ![c] = "parse"] /\ verdict' = verdict
    <2>1. Basics'
      BY <1>2, <1>8 DEF VerifierInv, Basics
    <2>2. IakPassed(r)
      BY <1>4, <1>5, <1>8 DEF IakPassed
    <2>3. IakPassed(r)'
      BY <1>3, <2>2, PassedStays
    <2>4. pc'[c] = "parse" /\ target'[c] = "idevid"
      BY <1>8 DEF VerifierInv, Basics
    <2>5. Progress(c, r)'
      BY <1>1, <1>2, <2>3, <2>4 DEF Progress
    <2>6. CallInv(c)'
      BY <1>1, <1>2, <1>8, <2>4, <2>5 DEF CallInv, VerifierInv
    <2> QED BY <1>2, <1>3, <1>8, <2>1, <2>6, CallStep DEF VerifierInv, Basics
  <1>9. CASE /\ passes /\ SerialMatches(c)
             /\ ~(target[c] = "iak" /\ r.both /\ r.idevid # <<>>)
             /\ Answer(c, IF target[c] = "iak" THEN "iak" ELSE "both")
    <2>1. CASE target[c] = "iak"
      <3>1. Decided(r, "iak")
        BY <1>1, <1>2, <1>4, <1>5, <1>9, <2>1 DEF Decided, Acceptable, Progress
      <3> QED BY <1>6, <1>9, <2>1, <3>1
    <2>2. CASE target[c] # "iak"
      <3>1. Decided(r, "both")
        BY <1>1, <1>2, <1>4, <1>5, <1>9, <2>2
           DEF Decided, Acceptable, IakPassed, Progress
      <3> QED BY <1>6, <1>9, <2>2, <3>1
    <2> QED BY <2>1, <2>2
  <1> QED BY <1>1, <1>7, <1>8, <1>9 DEF Verify, passes

LEMMA VerifierNext == VerifierInv /\ [Next]_vars => VerifierInv'
  <1> SUFFICES ASSUME VerifierInv, [Next]_vars PROVE VerifierInv'
    OBVIOUS
  <1>1. ASSUME NEW c \in Call, NEW r \in Requests, Start(c, r) PROVE VerifierInv'
    BY <1>1, StartInv
  <1>2. ASSUME NEW c \in Call, Step(c) PROVE VerifierInv'
    BY <1>2, ParseInv, AddIntermediateInv, VerifyInv DEF Step
  <1>3. CASE UNCHANGED vars
    <2>1. Grows
      BY <1>3, NothingNew DEF vars
    <2>2. Basics'
      BY <1>3 DEF VerifierInv, Basics, vars
    <2>3. \A c \in Call : CallInv(c)'
      BY <1>3, <2>1, CallKept DEF VerifierInv, Basics, vars
    <2> QED BY <2>1, <2>2, <2>3 DEF VerifierInv, Grows
  <1> QED BY <1>1, <1>2, <1>3 DEF Next

\* The invariant holds for any number of calls, certificates and requests.
THEOREM VerifierAlways == Spec => []VerifierInv
  <1>1. Init => VerifierInv
    BY VerifierInit
  <1>2. VerifierInv /\ [Next]_vars => VerifierInv'
    BY VerifierNext
  <1> QED BY <1>1, <1>2, PTL DEF Spec

\* The types, with the index of the loop over a bundle inside that bundle.
THEOREM VerifierTypeCorrect == Spec => []TypeOK
  <1>1. ASSUME VerifierInv PROVE TypeOK
    <2>1. ASSUME NEW c \in Call PROVE req[c] \subseteq Requests /\ Cardinality(req[c]) <= 1
      <3>1. CASE req[c] = {}
        <4>1. Cardinality({}) = 0
          BY FS_EmptySet
        <4> QED BY <3>1, <4>1
      <3>2. CASE req[c] # {}
        <4>1. PICK r \in Requests : req[c] = {r}
          BY <1>1, <3>2 DEF VerifierInv, CallInv
        <4>2. Cardinality({r}) = 1
          BY FS_Singleton
        <4> QED BY <4>1, <4>2
      <3> QED BY <3>1, <3>2
    <2>2. ASSUME NEW c \in Call, pc[c] \in {"add", "verify"}
          PROVE  added[c] < Len(Chain(c))
      <3>1. PICK r \in Requests : Progress(c, r) /\ Chain(c) = Current(c, r)
        BY <1>1, <2>2, Begun DEF VerifierInv
      <3> QED BY <2>2, <3>1 DEF Progress
    <2> QED BY <1>1, <2>1, <2>2 DEF TypeOK, VerifierInv, Basics
  <1> QED BY <1>1, VerifierAlways, PTL

\* A verdict is on a request, and within the bounds of the invariant.
LEMMA VerdictDecided ==
    ASSUME VerifierInv, NEW c \in Call, pc[c] = "done"
    PROVE  /\ Req(c) \in Requests /\ req[c] = {Req(c)}
           /\ Decided(Req(c), verdict[c])
           /\ Req(c).iak \in Bundle /\ Req(c).idevid \in Bundle
  BY Begun DEF VerifierInv, Progress

\* Whatever the other calls do between the steps of a verification: a request
\* whose own bundles lead to a root is accepted, and none is accepted that all
\* the certificates presented so far would not carry.
THEOREM VerifierVerdictIsBounded == Spec => []VerdictIsBounded
  <1>1. ASSUME VerifierInv PROVE VerdictIsBounded
    <2> SUFFICES ASSUME NEW c \in Call, pc[c] = "done"
                 PROVE  /\ verdict[c] # "reject" => Acceptable(Req(c), Seen, Seen)
                        /\ Acceptable(Req(c), Lower(Req(c).iak), Lower(Req(c).idevid))
                              => verdict[c] # "reject"
      BY DEF VerdictIsBounded, Seen, Mine, Lower
    <2> DEFINE r == Req(c)
    <2>1. r \in Requests /\ req[c] = {r} /\ Decided(r, verdict[c])
          /\ r.iak \in Bundle /\ r.idevid \in Bundle
      BY <1>1, VerdictDecided
    <2> HIDE DEF r
    <2>2. Upper(r.iak) \subseteq Seen /\ (r.both => Upper(r.idevid) \subseteq Seen)
      <3>1. Presented(r) \subseteq Seen
        BY <2>1 DEF Seen
      <3>2. Behind(r.iak) \subseteq Seen /\ (r.both => Behind(r.idevid) \subseteq Seen)
        BY <2>1, <3>1, BehindFinite DEF Presented
      <3> QED BY <3>2 DEF Upper
    <2>3. IsFiniteSet(Seen)
      BY <1>1 DEF VerifierInv, Pools
    <2>4. Acceptable(r, Upper(r.iak), Upper(r.idevid)) => Acceptable(r, Seen, Seen)
      BY <2>2, <2>3, SoundGrows DEF Acceptable
    <2> QED BY <2>1, <2>4 DEF Decided, r
  <1> QED BY <1>1, VerifierAlways, PTL

\* With no pool in the options the two bounds meet: the verdict is that of the
\* reference on the request alone.
THEOREM VerifierVerdictIsOwn == Spec => []VerdictIsOwn
  <1>1. ASSUME VerifierInv PROVE VerdictIsOwn
    <2> SUFFICES ASSUME NEW c \in Call, pc[c] = "done", ~pooled
                 PROVE  verdict[c] # "reject" <=>
                        Acceptable(Req(c), Behind(Req(c).iak), Behind(Req(c).idevid))
      BY DEF VerdictIsOwn
    <2>1. Decided(Req(c), verdict[c])
      BY <1>1, VerdictDecided
    <2>2. \A b : Lower(b) = Behind(b) /\ Upper(b) = Behind(b)
      BY DEF Lower, Upper, Mine
    <2> QED BY <2>1, <2>2 DEF Decided
  <1> QED BY <1>1, VerifierAlways, PTL

\* The two keys of a verdict share the serial of the card or of its chassis.
THEOREM VerifierKeysShareSerial == Spec => []KeysShareSerial
  <1>1. ASSUME VerifierInv PROVE KeysShareSerial
    <2> SUFFICES ASSUME NEW c \in Call, verdict[c] = "both"
                 PROVE  /\ Number(Req(c).iak[1]) = Number(Req(c).idevid[1])
                        /\ Number(Req(c).iak[1]) \in {Req(c).chassisSerial, Req(c).cardSerial}
      BY DEF KeysShareSerial
    <2>1. pc[c] = "done"
      BY <1>1 DEF VerifierInv, CallInv
    <2>2. Decided(Req(c), "both")
      BY <1>1, <2>1, VerdictDecided
    <2> QED BY <2>2 DEF Decided, Acceptable
  <1> QED BY <1>1, VerifierAlways, PTL
=============================================================================
