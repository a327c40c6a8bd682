-------------------------- MODULE MCOAuthSessions --------------------------
(* Two processes, which are interchangeable, two sessions, and an HTTP call *)
(* of two attempts.                                                         *)
EXTENDS OAuthSessions, TLC

CONSTANTS p1, p2, s1, s2

MCProcs == {p1, p2}
MCSessions == {s1, s2}
MCSymmetry == Permutations(MCProcs)
=============================================================================
