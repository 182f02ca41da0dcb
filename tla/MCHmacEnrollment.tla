--------------------------- MODULE MCHmacEnrollment ---------------------------
(* Requests and databases for model checking HmacEnrollment.               *)
EXTENDS HmacEnrollment

CONSTANTS A, B, C

R(sels, profile) ==
    [kind |-> "hmac", sels |-> sels, profile |-> profile, skip |-> FALSE]

\* A record under the empty serial number holds the EK of A.
Database == [c \in CardId |-> IF c = NoSerial THEN A ELSE c]

OneSession ==
    {R(sels, profile) :
        sels \in {<<>>, <<"active">>, <<B>>, <<"active", "standby">>,
                  <<"standby", "active">>, <<A, A>>, <<A, B, C>>},
        profile \in BOOLEAN}

TwoSessions == {R(<<"active", "standby">>, TRUE), R(<<"standby">>, TRUE)}
=============================================================================
