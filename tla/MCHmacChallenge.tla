--------------------------- MODULE MCHmacChallenge ----------------------------
(* Keys, records and seatings for model checking HmacChallenge.            *)
EXTENDS HmacChallenge

CONSTANTS A, B, C

Ecc(nameAlg, attrs, curve, unique) ==
    [type |-> "ECC", nameAlg |-> nameAlg, attrs |-> attrs, scheme |-> "ECDSA",
     curve |-> curve, unique |-> unique]

\* The IAK of B is an RSA key.
IakOf ==
    [c \in Card |->
        IF c = B
        THEN [type |-> "RSA", nameAlg |-> "SHA384", attrs |-> IakAttributes,
              scheme |-> "RSAPSS", curve |-> "none", unique |-> <<c, "iak">>]
        ELSE Ecc("SHA256", IakAttributes, "P256", <<c, "iak">>)]

\* The IDevID key of C is on a curve no template is for.
IDevIDOf ==
    [c \in Card |-> Ecc("SHA384", IDevIDAttributes, IF c = C THEN "P256" ELSE "P384",
                        <<c, "idevid">>)]

\* An IAK of A with a name of SHA512.
LongNamed == Ecc("SHA512", IakAttributes, "P256", <<A, "long">>)
\* A signing key of A without restriction, and its area with the attributes of
\* an IAK put in.
FreeKey    == Ecc("SHA256", IDevIDAttributes, "P256", <<A, "free">>)
FreeAsIak  == [FreeKey EXCEPT !.attrs = IakAttributes]
\* A restricted HMAC key of A: VerifyIAKAttributes does not ask for the type.
MacKey == [type |-> "KEYEDHASH", nameAlg |-> "SHA256", attrs |-> IakAttributes,
           scheme |-> "HMAC", curve |-> "none", unique |-> <<A, "mac">>]
\* A key of software, with the attributes of an IAK, of an IDevID and its own.
SoftKey       == Ecc("SHA384", {"signEncrypt", "userWithAuth", "adminWithPolicy"},
                     "P384", <<NoCard, "soft">>)
SoftAsIak     == [SoftKey EXCEPT !.attrs = IakAttributes]
SoftAsIDevID  == [SoftKey EXCEPT !.attrs = IDevIDAttributes]

InTpms == {IakOf[c] : c \in Card} \cup {IDevIDOf[c] : c \in Card} 
          \cup {FreeKey, LongNamed, MacKey}
Shown  == InTpms \cup {FreeAsIak, SoftKey, SoftAsIak, SoftAsIDevID}

Ek(c, kind, bits, e) == [kind |-> kind, bits |-> bits, e |-> e, unique |-> <<c, kind>>]

FitKeys == {Ek(A, "EK", 2048, 65537), Ek(A, "PPK", 2048, 5),
            Ek(B, "EK", 2048, 3), Ek(B, "PPK", 2048, 65537)}
TpmKeys == FitKeys \cup {Ek(C, "EK", 3072, 65537), Ek(C, "PPK", 2048, 65537)}

\* Besides the true records ones with the wrong exponent, an even one, one that
\* is too large, and with the EK for the PPK; one under the empty serial.
Database ==
    [c \in CardId |->
        CASE c = A -> {k \in TpmKeys : k.unique[1] = A}
                      \cup {Ek(A, "EK", 2048, e) : e \in {3, 4, MaxExponent + 2}}
                      \cup {[Ek(A, "PPK", 2048, 5) EXCEPT !.kind = "EK"]}
          [] c = NoSerial -> {Ek(A, "EK", 2048, 65537)}
          [] OTHER -> {k \in TpmKeys : k.unique[1] = c}]

Seats == {[r \in Role |-> IF r = "active" THEN A ELSE B],
          [r \in Role |-> IF r = "active" THEN A ELSE C],
          [r \in Role |-> IF r = "active" THEN B ELSE NoCard]}
=============================================================================
