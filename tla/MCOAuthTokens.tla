--------------------------- MODULE MCOAuthTokens ---------------------------
(* Two processes on a document with two profiles; the liveness run keeps    *)
(* one profile and two refresh tokens, and uses no symmetry.                *)
EXTENDS OAuthTokens, TLC

CONSTANTS p1, p2, work, home, r1, r2, r3

MCProcs == {p1, p2}
MCProfiles == {work, home}
MCOneProfile == {work}
MCRefreshTokens == {r1, r2, r3}
MCFewTokens == {r1, r2}

\* Processes and refresh tokens are interchangeable.
MCSymmetry == Permutations(MCProcs) \cup Permutations(MCRefreshTokens)
=============================================================================
