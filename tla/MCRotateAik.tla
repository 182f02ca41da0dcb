----------------------------- MODULE MCRotateAik -----------------------------
(* Databases for model checking RotateAik.                                 *)
EXTENDS RotateAik

CONSTANTS A, B, C

\* C has no record.  A card that gives the id of another one, as any handler may,
\* meets a record with a wrong EK, stale or not.
MissingRecord == [c \in Card |-> IF c = C THEN NoCard ELSE c]
Records       == [c \in Card |-> c]
=============================================================================
