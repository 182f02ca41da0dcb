--------------------------- MODULE MCTpmMessages ----------------------------
(* Messages for model checking TpmMessages.                                *)
EXTENDS TpmMessages

Text(n) == [i \in 1..n |-> i % 5]

RsaParms(e) == [alg |-> Rsa, enc |-> Oaep, sig |-> Pkcs1Sha, sym |-> <<>>,
                rsa |-> <<[keyLength |-> 2048, numPrimes |-> 2, exponent |-> e]>>]
\* Of a scheme (EsSymCTR) with a small number.
AesParms(iv) == [alg |-> 6, enc |-> 4, sig |-> SsNone, rsa |-> <<>>,
                 sym |-> <<[keyLength |-> 128, blockSize |-> 16, iv |-> iv]>>]
ShaParms == [alg |-> 4, enc |-> 1, sig |-> SsNone, rsa |-> <<>>, sym |-> <<>>]

Key(n) == [alg |-> 6, enc |-> CbcPkcs5, key |-> Text(n)]

Request(asym, sym, m, n) ==
    [asym |-> asym, sym |-> sym, asymBlob |-> Text(m), symBlob |-> Text(n)]
Texts(ns) == [i \in 1..5 |-> Text(ns[i])]
Proof(aik, ns) == [aik |-> aik, areas |-> Texts(ns)]

Rsa1 == [n |-> <<156, 64>>, e |-> 65537]
Rsa2 == [n |-> <<255>>, e |-> 257]
Rsa3 == [n |-> <<1, 17, 112, 0, 5>>, e |-> 3]

Der(k) == [ConstructPubKey(k) EXCEPT !.parms.sig = Pkcs1Der]

Exchange(k, aik, inline, signedFor) ==
    [key |-> Key(16), iv |-> Text(16), inline |-> inline, k |-> k, aik |-> aik,
     areas |-> Texts(<<1, 0, 1, 0, 0>>), issuer |-> Rsa3, signedFor |-> signedFor]

Part(tag, n) == [tag |-> tag, body |-> Text(n)]

\* Distinct sizes next to each other; an EK as a certificate and as a key.
CsrMessage(hash, ek, sizes) ==
    [csr |-> [structVer |-> 256, hashAlgoID |-> 12, hash |-> Text(hash),
              prodModel |-> Text(1), prodSerial |-> Text(2), ekCert |-> ek,
              iakPub |-> Part(RsaPublic, 1), idevidPub |-> Part(EccPublic, 2),
              signCertifyInfo |-> Part(255, 0), signature |-> Part(20, 1)],
     other |-> [i \in 1..6 |-> Text(sizes[i])]]

M(form, n, values) ==
    {[form |-> form, value |-> v, faults |-> n] : v \in values}

AllMessages ==
    M("request", 1, {Request(RsaParms(<<>>), AesParms(Text(16)), 1, 2),
                     Request(RsaParms(<<0, 3>>), ShaParms, 2, 1)})
    \cup M("request", 2, {Request(ShaParms, ShaParms, 1, 1)})
    \cup M("proof", 1, {Proof(ConstructPubKey(Rsa1), <<0, 1, 2, 0, 0>>),
                        Proof(Explicit(Rsa2), <<2, 1, 0, 1, 3>>)})
    \cup M("proof", 0, {Proof(ConstructPubKey(k), <<1, 2, 0, 0, 0>>) : k \in RsaKeys})
    \cup M("proof", 0, {Proof(Explicit(k), <<1, 2, 0, 0, 0>>) : k \in RsaKeys})
    \cup M("key", 2, {Key(2)})
    \cup M("contents", 1, {[key |-> Key(3), aik |-> aik] :
                             aik \in {ConstructPubKey(Rsa1), Explicit(Rsa1)}})
    \cup M("exchange", 1, {Exchange(Rsa1, ConstructPubKey(Rsa1), TRUE, Rsa3),
                           Exchange(Rsa1, Explicit(Rsa1), FALSE, Rsa3),
                           Exchange(Rsa2, Der(Rsa2), FALSE, Rsa3),
                           Exchange(Rsa2, ConstructPubKey(Rsa2), FALSE, Rsa1)})
    \cup M("cert", 0, {[alg |-> alg, random |-> Text(32), iv |-> Text(16),
                        cert |-> Text(n)] : alg \in Aes, n \in 1..33})
    \cup M("cert", 1, {[alg |-> 9, random |-> Text(32), iv |-> Text(16),
                        cert |-> Text(17)]})
    \cup M("csr", 1, {CsrMessage(2, Part(Certificate, 2), <<0, 1, 0, 2, 0, 3>>),
                      CsrMessage(1, Part(EccPublic, 1), <<2, 0, 1, 0, 1, 0>>)})
=============================================================================
