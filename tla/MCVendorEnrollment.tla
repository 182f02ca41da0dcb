-------------------------- MODULE MCVendorEnrollment --------------------------
(* Requests for model checking VendorEnrollment.                           *)
EXTENDS VendorEnrollment

CONSTANTS A, B, C

R(kind, sels, profile, skip) ==
    [kind |-> kind, sels |-> sels, profile |-> profile, skip |-> skip]

Both == <<"active", "standby">>

\* One session, all shapes of request.
OneSession ==
    {R("enroll", sels, profile, skip) :
        sels \in {<<>>, <<"active">>, <<"standby">>, <<B>>, Both,
                  <<"standby", "active">>, <<A, B>>, <<"active", "active">>,
                  <<A, B, C>>},
        profile \in BOOLEAN, skip \in BOOLEAN}
    \cup {R("rotate", sels, profile, skip) :
        sels \in {<<"standby">>, Both, <<B, A>>},
        profile \in BOOLEAN, skip \in BOOLEAN}

\* Two sessions that meet: an enrollment and a rotation of the same cards.
TwoSessions ==
    {R("enroll", Both, TRUE, FALSE), R("rotate", Both, FALSE, TRUE)}

\* The active card alone, as the enrollment of a switch starts.
ActiveOnly == {R("enroll", <<"active">>, TRUE, FALSE)}
=============================================================================
