-------------------------- MODULE SessionLifecycle --------------------------
(***************************************************************************)
(* The life of an authorization session as its user may rely on it: it is  *)
(* created once, and from then on it only moves forward, to expired or to  *)
(* spent and, once spent, to redeemed.  No session is ever forgotten,      *)
(* revived or redeemed twice.  How often the request that redeems it has   *)
(* to be sent until it is answered is not seen at this level.              *)
(*                                                                         *)
(* The session file is written without a lock.  Once a command has acted   *)
(* on something that another one had changed meanwhile, the promise is off *)
(* for good; OAuthSessions implements this with interfered <- ~clean.      *)
(***************************************************************************)

CONSTANT Sessions

VARIABLES
    phase,        \* how far each session has come
    interfered    \* commands have overlapped harmfully

lvars == <<phase, interfered>>

Phases == {"unknown", "usable", "expired", "spent", "redeemed"}

LInit ==
    /\ phase = [s \in Sessions |-> "unknown"]
    /\ interfered = FALSE

\* The steps of a session's life.
Forward ==
    {<<"unknown", "usable">>, <<"usable", "expired">>, <<"usable", "spent">>,
     <<"spent", "redeemed">>}

Advance(s) ==
    /\ ~interfered
    /\ \E f \in Forward:
          /\ phase[s] = f[1]
          /\ phase' = [phase EXCEPT ![s] = f[2]]
    /\ UNCHANGED interfered

Interfere == interfered'

LNext == Interfere \/ \E s \in Sessions: Advance(s)

LSpec == LInit /\ [][LNext]_lvars
=============================================================================
