--------------------------- MODULE TokenRegister ---------------------------
(***************************************************************************)
(* The token store as the commands may rely on it: one register for each   *)
(* profile, which is set in one step, and a server that renews only what a *)
(* register holds or held.                                                 *)
(*                                                                         *)
(* The store has no lock.  Two writes that overlap may put the registers   *)
(* of other profiles back, but only to a token they held before or to none *)
(* at all; OAuthTokens, where all registers are in one file, implements    *)
(* this.                                                                   *)
(***************************************************************************)

CONSTANTS
    Profiles,
    Tokens,    \* what the server issues and accepts
    Blank,     \* register values that are no token
    Empty      \* the blank that a register starts with

VARIABLES
    reg,        \* the register of each profile
    past,       \* the tokens each register has held so far
    accepted,   \* the tokens the server accepts, by the profile they were issued for
    torn        \* writes have overlapped

rvars == <<reg, past, accepted, torn>>

Fresh(t) == \A prof \in Profiles: t \notin accepted[prof] \cup past[prof]

RInit ==
    /\ reg = [prof \in Profiles |-> Empty]
    /\ past = [prof \in Profiles |-> {}]
    /\ accepted = [prof \in Profiles |-> {}]
    /\ torn = FALSE

\* A login: the server issues a token that nobody has seen.
Issue(prof, t) ==
    /\ Fresh(t)
    /\ accepted' = [accepted EXCEPT ![prof] = @ \cup {t}]
    /\ UNCHANGED <<reg, past, torn>>

\* A refresh: a token that this register held is replaced by a new one.
Renew(prof, new) ==
    /\ Fresh(new)
    /\ \E old \in past[prof] \cap accepted[prof]:
          accepted' = [accepted EXCEPT ![prof] = (@ \ {old}) \cup {new}]
    /\ UNCHANGED <<reg, past, torn>>

\* A register is cleared, or set to what the server accepts just now.  The
\* others stay, or fall back in an overlap.
Write(prof) ==
    /\ reg' \in [Profiles -> Tokens \cup Blank]
    /\ reg'[prof] \in accepted[prof] \cup Blank
    /\ \A other \in Profiles \ {prof}:
          \/ reg'[other] = reg[other]
          \/ torn' /\ reg'[other] \in past[other] \cup Blank
    /\ past' = [past EXCEPT ![prof] = @ \cup ({reg'[prof]} \cap Tokens)]
    /\ torn' \in {torn, TRUE}
    /\ UNCHANGED accepted

RNext ==
    \E prof \in Profiles:
        \/ \E t \in Tokens: Issue(prof, t) \/ Renew(prof, t)
        \/ Write(prof)

RSpec == RInit /\ [][RNext]_rvars
=============================================================================
