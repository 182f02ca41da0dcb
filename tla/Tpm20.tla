-------------------------------- MODULE Tpm20 --------------------------------
(***************************************************************************)
(* DefaultTPM20Utils (service/biz/tpm20_utils.go): what the service checks *)
(* of the keys, the certify infos and the signatures of a TPM 2.0, and how *)
(* it wraps an HMAC key to the key on record.                              *)
(*                                                                         *)
(* Structures are records of the fields these checks read.  A key pair is  *)
(* known by its public part, "unique"; a signature shows the key that made *)
(* it and what it is over; the name of an object is the whole public area, *)
(* of which it is a digest.  <<>> stands for an error, <<v>> for a value.  *)
(***************************************************************************)
EXTENDS Integers

CONSTANT MaxExponent    \* of an RSA key, 2^31 - 1 in the code

ASSUME Tpm20Assumption == MaxExponent \in Nat

\* TPMA_OBJECT, as far as it is checked, and noDA.
Checked   == {"fixedTPM", "restricted", "sensitiveDataOrigin", "signEncrypt",
              "decrypt", "fixedParent", "userWithAuth", "adminWithPolicy"}
Attribute == Checked \cup {"noDA"}

\* hash algorithms of the crypto package that are linked in.
Hashes == {"SHA1", "SHA256", "SHA384", "SHA512"}

-----------------------------------------------------------------------------
(* The HMAC key and its wrapping.                                          *)

\* A key of 2041 bits fills 256 bytes as well as one of 2048.
ValidateRSAPublicKey(k) ==
    /\ 8 * ((k.bits + 7) \div 8) = 2048
    /\ k.e >= 2 /\ k.e % 2 = 1
    /\ k.e <= MaxExponent

\* A restricted signing key that is bound to no TPM.
GenerateRestrictedHMACKey(key) ==
    [type |-> "KEYEDHASH", nameAlg |-> "SHA256", scheme |-> "HMAC", curve |-> "none",
     attrs |-> {"userWithAuth", "noDA", "restricted", "signEncrypt"}, unique |-> key]

\* Mutant: The exponent is always taken for the default.
RSAEKPublicKeyToTPMTPublicDefault(k) == [exponent |-> 0, unique |-> k.unique]

\* The EK template with the key's exponent and modulus; TPMs write the default
\* exponent as 0.
RSAEKPublicKeyToTPMTPublic(k) ==
    [exponent |-> IF k.e = 65537 THEN 0 ELSE k.e, unique |-> k.unique]

ObjectName(pub) == pub

WrapHMACKeytoRSAPublicKey(k, pub) ==
    IF ValidateRSAPublicKey(k)
    THEN <<[parent |-> RSAEKPublicKeyToTPMTPublic(k), name |-> ObjectName(pub)]>>
    ELSE <<>>

VerifyHMAC(message, sig, key) ==
    /\ sig.alg = "HMAC" /\ sig.hash = "SHA256"
    /\ sig.key = key /\ sig.data = message

-----------------------------------------------------------------------------
(* What a TPM certifies, and the keys.                                     *)

\* Mutant: The magic number is not looked at.
VerifyCertifyInfoOfAny(info, pub) ==
    /\ info.type = "certify"
    /\ info.name = ObjectName(pub)
    /\ ~info.qualifiedAsName

\* The qualified name of a loaded object names its parents too.
VerifyCertifyInfo(info, pub) ==
    /\ info.magic = "TPM" /\ info.type = "certify"
    /\ info.name = ObjectName(pub)
    /\ ~info.qualifiedAsName

VerifyTPMTPublicAttributes(pub, expected) == pub.attrs \cap Checked = expected

IakAttributes == {"fixedTPM", "restricted", "sensitiveDataOrigin", "signEncrypt",
                  "fixedParent", "userWithAuth", "adminWithPolicy"}

\* Mutant: An IAK need not be restricted to what its TPM generates.
VerifyIAKAttributesUnrestricted(pub) ==
    /\ VerifyTPMTPublicAttributes([pub EXCEPT !.attrs = @ \cup {"restricted"}],
                                  IakAttributes)
    /\ pub.nameAlg \in {"SHA256", "SHA384"}

VerifyIAKAttributes(pub) ==
    /\ VerifyTPMTPublicAttributes(pub, IakAttributes)
    /\ pub.nameAlg \in {"SHA256", "SHA384"}

IDevIDAttributes == IakAttributes \ {"restricted"}

\* KEY_TEMPLATE_ECC_NIST_P384 is the one template there is.
VerifyIdevidAttributes(pub, template) ==
    /\ VerifyTPMTPublicAttributes(pub, IDevIDAttributes)
    /\ template = "ECC_NIST_P384"
    /\ pub.type = "ECC" /\ pub.nameAlg = "SHA384"
    /\ pub.curve = "P384" /\ pub.scheme = "ECDSA"

TPMTPublicToPEM(pub) ==
    IF pub.type \in {"RSA", "ECC"} THEN <<pub.unique>> ELSE <<>>

-----------------------------------------------------------------------------
(* Signatures.                                                             *)

\* verifyRSASSA, verifyRSAPSS and verifyECDSA: the hash is the signature's.
VerifyWith(data, sig, pub) ==
    /\ sig.hash \in Hashes
    /\ sig.key = pub.unique /\ sig.data = data

TypeOf(alg) == CASE alg \in {"RSASSA", "RSAPSS"} -> "RSA" [] alg = "ECDSA" -> "ECC"

\* An HMAC is no signature here.
VerifyTPMTSignature(data, sig, pub) ==
    /\ sig.alg \in {"RSASSA", "RSAPSS", "ECDSA"}
    /\ pub.type = TypeOf(sig.alg)
    /\ pub.scheme = sig.alg
    /\ VerifyWith(data, sig, pub)
=============================================================================
