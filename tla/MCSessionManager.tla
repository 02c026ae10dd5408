--------------------------- MODULE MCSessionManager ---------------------------
(***************************************************************************)
(* Sets and symmetry for the TLC runs of SessionManager.                   *)
(***************************************************************************)
EXTENDS SessionManager, TLC

CONSTANTS c1, c2, c3, a, local, host

TwoCalls   == {c1, c2}
ThreeCalls == {c1, c2, c3}
OneID      == {a}
OneRemote  == {local}
TwoRemotes == {local, host}

\* Calls, IDs and remotes are only compared for equality.  For runs without
\* liveness properties.
Symmetry ==
    Permutations(Call) \cup Permutations(SessionID) \cup Permutations(Remote)
=============================================================================
