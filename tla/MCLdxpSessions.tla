---------------------------- MODULE MCLdxpSessions ----------------------------
(* LdxpSessions on the sets its configuration names.                       *)
EXTENDS LdxpSessions

CONSTANTS u1, u2

\* One user tops up, the other buys a value package; both may ask again when
\* their session has ended or is late.
MCRequests == {<<u1, "topup">>, <<u2, "value_package">>}
=============================================================================
