---------------------------- MODULE OwnerPromise ----------------------------
(***************************************************************************)
(* What enrollment promises to the switch owner, without selections, remote*)
(* calls or errors.  A session admits a switch once, as a whole; only then *)
(* are cards signed for; a signed card gets its certificates from the      *)
(* session that signed for it, after the signing is over; and a session    *)
(* that rotates atomically delivers to every card it signed for in one     *)
(* step.  A session may give up at any moment.                             *)
(***************************************************************************)
EXTENDS FiniteSets

CONSTANTS Session, Card, Nobody

VARIABLES stage,        \* how far a session is
          together,     \* the session delivers to all its cards in one step
          signed,       \* the cards the CA has signed an oIAK for, by session
          owner         \* the session a card has its oIAK certificate from

vars == <<stage, together, signed, owner>>

Init ==
    /\ stage = [s \in Session |-> "open"]
    /\ together = [s \in Session |-> FALSE]
    /\ signed = [s \in Session |-> {}]
    /\ owner = [c \in Card |-> Nobody]

Close(s) ==
    /\ stage' = [stage EXCEPT ![s] = "closed"]
    /\ together' = [together EXCEPT ![s] = FALSE]

GiveUp(s) ==
    /\ stage[s] # "closed"
    /\ Close(s)
    /\ UNCHANGED <<signed, owner>>

Admit(s) ==
    /\ stage[s] = "open"
    /\ stage' = [stage EXCEPT ![s] = "signing"]
    /\ \E b \in BOOLEAN : together' = [together EXCEPT ![s] = b]
    /\ UNCHANGED <<signed, owner>>

\* The signature may be lost on its way back, which ends the session.
Sign(s, c) ==
    /\ stage[s] = "signing"
    /\ signed' = [signed EXCEPT ![s] = @ \cup {c}]
    /\ \/ stage' = [stage EXCEPT ![s] = "delivering"] /\ UNCHANGED together
       \/ UNCHANGED <<stage, together>>
       \/ Close(s)
    /\ UNCHANGED owner

\* Cards confirm to the session they got their certificates from; the
\* confirmation may be lost, which ends the session too.
Deliver(s, D) ==
    /\ stage[s] = "delivering"
    /\ D # {} /\ D \subseteq signed[s]
    /\ together[s] => D = signed[s]
    /\ owner' = [c \in Card |-> IF c \in D THEN s ELSE owner[c]]
    /\ \/ Close(s)
       \/ ~together[s] /\ UNCHANGED <<stage, together>>
    /\ UNCHANGED signed

Next == \E s \in Session :
    \/ GiveUp(s) \/ Admit(s)
    \/ \E c \in Card : Sign(s, c)
    \/ \E D \in SUBSET Card : Deliver(s, D)

Spec == Init /\ [][Next]_vars
=============================================================================
