--------------------------- MODULE MCCertVerifier ---------------------------
(* Certificates and requests for model checking CertVerifier.              *)
EXTENDS CertVerifier

X(subject, issuer, ca, serial, key, bits) ==
    [subject |-> subject, issuer |-> issuer, ca |-> ca, serial |-> serial,
     key |-> key, bits |-> bits]

Inter1  == X("i1", "root", TRUE,  <<"">>, "ecc", 384)
Inter2  == X("i2", "i1",   TRUE,  <<"">>, "ecc", 384)
NotCa   == X("i1", "root", FALSE, <<"">>, "ecc", 384)
IakDir  == X("a",  "root", FALSE, <<"7">>, "ecc", 256)
IakDeep == X("b",  "i2",   FALSE, <<"PID:1 ", "7">>, "rsa", 2041)
IakWeak == X("c",  "root", FALSE, <<"7">>, "rsa", 2040)
IakKind == X("f",  "root", FALSE, <<"7">>, "ed25519", 256)
DevDeep == X("d",  "i1",   FALSE, <<"7">>, "ecc", 384)
DevElse == X("e",  "root", FALSE, <<"PID:1 ", "8">>, "ecc", 521)

Certs == {Inter1, Inter2, NotCa, IakDir, IakDeep, IakWeak, IakKind, DevDeep, DevElse}
RootNames == {"root"}
Vendor    == {Inter1}

Iaks == {<<>>, <<IakDir>>, <<IakWeak>>, <<IakKind>>, <<IakDeep>>, <<IakDeep, Inter2>>,
         <<IakDeep, Inter2, Inter1>>}
Devs == {<<>>, Garbage, <<DevDeep>>, <<DevDeep, Inter1>>, <<DevDeep, NotCa>>,
         <<DevElse>>}

AllRequests ==
    {[both |-> TRUE, named |-> TRUE, iak |-> i, idevid |-> d, chassisSerial |-> ch,
      cardSerial |-> "7"] :
        i \in Iaks, d \in Devs, ch \in {"7", "8"}}
    \cup {[both |-> FALSE, named |-> TRUE, iak |-> i, idevid |-> <<>>,
           chassisSerial |-> "9", cardSerial |-> sn] : i \in Iaks, sn \in {"7", "8"}}
    \cup {[both |-> b, named |-> FALSE, iak |-> <<IakDir>>, idevid |-> <<>>,
           chassisSerial |-> "", cardSerial |-> ""] : b \in BOOLEAN}
=============================================================================
