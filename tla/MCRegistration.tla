--------------------------- MODULE MCRegistration ---------------------------
EXTENDS Registration

\* With a verification, whether enumeration is protected against changes no
\* more than the answer for an address that is taken.
MCEngines == {g \in SUBSET Feature : "protect" \in g \/ "verification" \notin g}
=============================================================================
