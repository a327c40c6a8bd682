---------------------------- MODULE MCHttpClient ----------------------------
(* Model-checking instance of HttpClient: three hosts, so that a redirect   *)
(* can stay, go to an allowed host or go to one that is not allowed.        *)
EXTENDS HttpClient

CONSTANTS h1, h2, h3

MCHosts == {h1, h2, h3}
=============================================================================
