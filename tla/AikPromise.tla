------------------------------ MODULE AikPromise ------------------------------
(***************************************************************************)
(* What TPM 1.2 enrollment promises to the switch owner, without streams,  *)
(* messages or errors.  A TPM makes AIKs for a session; the CA certifies   *)
(* one of them, for an identity; the session is sealed only after the TPM  *)
(* of that AIK has proved to hold the EK on record for that identity; and  *)
(* a certificate becomes final only in a sealed session.  A session may be *)
(* given up at any moment before.                                          *)
(***************************************************************************)
EXTENDS Naturals

CONSTANTS Session, Tpm, NoParty,
          Record        \* the TPM whose EK is on record, by identity

VARIABLES stage,        \* how far a session is
          makers,       \* the TPMs that made an AIK for it
          party         \* identity and TPM in its certificate

vars == <<stage, makers, party>>

Init ==
    /\ stage = [s \in Session |-> "open"]
    /\ makers = [s \in Session |-> {}]
    /\ party = [s \in Session |-> NoParty]

Advance(s, from, to) == stage[s] = from /\ stage' = [stage EXCEPT ![s] = to]

Make(s) ==
    /\ \E t \in Tpm : makers' = [makers EXCEPT ![s] = @ \cup {t}]
    /\ UNCHANGED <<stage, party>>

\* The certificate may come too late for the session.
Certify(s) ==
    /\ Advance(s, "open", "certified") \/ Advance(s, "open", "over")
    /\ \E t \in makers[s], id \in Tpm : party' = [party EXCEPT ![s] = <<id, t>>]
    /\ UNCHANGED makers

Prove(s) ==
    /\ Advance(s, "certified", "proved")
    /\ Record[party[s][1]] = party[s][2]
    /\ UNCHANGED <<makers, party>>

Seal(s)   == Advance(s, "proved", "sealed") /\ UNCHANGED <<makers, party>>
Finish(s) == Advance(s, "sealed", "final") /\ UNCHANGED <<makers, party>>

GiveUp(s) ==
    /\ \E from \in {"open", "certified", "proved", "sealed"} : Advance(s, from, "over")
    /\ UNCHANGED <<makers, party>>

Next == \E s \in Session :
    Make(s) \/ Certify(s) \/ Prove(s) \/ Seal(s) \/ Finish(s) \/ GiveUp(s)

Spec == Init /\ [][Next]_vars
=============================================================================
