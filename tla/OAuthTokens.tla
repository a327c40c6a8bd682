---------------------------- MODULE OAuthTokens ----------------------------
(***************************************************************************)
(* The encrypted token document that CLI processes share, the automatic    *)
(* refresh of access tokens, saving after a code exchange, and logout.     *)
(*                                                                         *)
(* EncryptedOAuthTokenStore.save and .delete read the whole document,      *)
(* change one profile and replace the file atomically (os.replace); no     *)
(* lock is held between the two.  The refresh request goes through         *)
(* SafeAsyncHttpClient, which repeats a POST whose answer did not arrive.  *)
(* The authorization server is the environment: it either keeps refresh    *)
(* tokens (and may leave them out of the answer) or makes them single use. *)
(*                                                                         *)
(* A stored token set is abstracted to its refresh token: whether its      *)
(* access token is due for a refresh may go either way at every read.      *)
(***************************************************************************)
EXTENDS Naturals

CONSTANTS
    Procs,          \* CLI processes
    Profiles,       \* token profile ids
    RefreshTokens,  \* the refresh tokens the server can ever issue
    NoRefresh,      \* a stored token set without a refresh token
    Absent,         \* no token set under this profile
    MaxAttempts     \* 1 + settings.http_max_retries

ASSUME TokensAssumption ==
    /\ Profiles # {}
    /\ NoRefresh \notin RefreshTokens
    /\ Absent \notin RefreshTokens \cup {NoRefresh}
    /\ MaxAttempts \in Nat \ {0}

VARIABLES
    doc,        \* the token file: profile -> stored token set
    job,        \* what each process is doing
    singleUse,  \* server: an accepted refresh token is replaced by a new one
    live,       \* server: refresh tokens it accepts, by profile
    issued,     \* server: refresh tokens it ever issued, by profile
    past,       \* history: the refresh tokens each profile's entry has held
    torn,       \* history: a write went back behind another one
    clean,      \* history: no rotated token was lost, no two writes interleaved
    quiet       \* history: logged out while nothing else ran, no login since

vars == <<doc, past, torn, job, singleUse, live, issued, clean, quiet>>

document == <<doc, past, torn>>

server == <<singleUse, live, issued>>

-----------------------------------------------------------------------------
TokenSets == RefreshTokens \cup {NoRefresh}
Documents == [Profiles -> TokenSets \cup {Absent}]
EmptyDocument == [prof \in Profiles |-> Absent]

Steps == {"idle", "get", "post", "reply", "save", "replace"}

Jobs ==
    [pc: Steps,
     command: {"get", "login", "logout"},
     profile: Profiles,
     held: TokenSets \cup {Absent},    \* the token set in hand; for logout, Absent
     answer: TokenSets,                \* refresh token of the server's answer
     snap: Documents,                  \* the document read by the running save
     attempt: 1..MaxAttempts]

Idle ==
    [pc |-> "idle", command |-> "get",
     profile |-> CHOOSE prof \in Profiles: TRUE,
     held |-> NoRefresh, answer |-> NoRefresh,
     snap |-> EmptyDocument, attempt |-> 1]

Unissued == RefreshTokens \ UNION {issued[prof]: prof \in Profiles}

\* The server has replaced the refresh token of p's profile and the new one
\* is not in the document yet.
HoldsRotated(p) ==
    singleUse /\ job[p].command = "get" /\ job[p].pc \in {"reply", "save", "replace"}

OthersIdle(p) == \A q \in Procs \ {p}: job[q].pc = "idle"

Goto(p, j) == job' = [job EXCEPT ![p] = j]

\* The command ends, with a result or an error, keeping nothing.
End(p) == Goto(p, Idle)

Abandon(p) ==
    /\ End(p)
    /\ clean' = (clean /\ ~HoldsRotated(p))
    /\ UNCHANGED <<document, server, quiet>>

-----------------------------------------------------------------------------
Init ==
    /\ doc = EmptyDocument
    /\ past = [prof \in Profiles |-> {}]
    /\ torn = FALSE
    /\ job = [p \in Procs |-> Idle]
    /\ singleUse \in BOOLEAN
    /\ live = [prof \in Profiles |-> {}]
    /\ issued = [prof \in Profiles |-> {}]
    /\ clean = TRUE
    /\ quiet = [prof \in Profiles |-> FALSE]

\* `oauth exchange-code --persist-token`: the server has answered the code
\* exchange with a new grant, which is saved as it came.
StartLogin(p, prof) ==
    /\ job[p].pc = "idle"
    /\ \E new \in Unissued \cup {NoRefresh}:
          /\ Goto(p, [Idle EXCEPT !.pc = "save", !.command = "login",
                                  !.profile = prof, !.held = new])
          /\ live' = [live EXCEPT ![prof] = @ \cup ({new} \ {NoRefresh})]
          /\ issued' = [issued EXCEPT ![prof] = @ \cup ({new} \ {NoRefresh})]
    /\ quiet' = [quiet EXCEPT ![prof] = FALSE]
    /\ UNCHANGED <<document, singleUse, clean>>

\* `oauth logout`: deleting is a save that removes the profile.
StartLogout(p, prof) ==
    /\ job[p].pc = "idle"
    /\ Goto(p, [Idle EXCEPT !.pc = "save", !.command = "logout",
                            !.profile = prof, !.held = Absent])
    /\ UNCHANGED <<document, server, clean, quiet>>

\* Any command that needs an access token: get_access_token.
StartGet(p, prof) ==
    /\ job[p].pc = "idle"
    /\ Goto(p, [Idle EXCEPT !.pc = "get", !.profile = prof])
    /\ UNCHANGED <<document, server, clean, quiet>>

\* No token set, an access token still good, a stale one without a refresh
\* token, or an unreadable document: the call ends here.
GetEnds(p) ==
    /\ job[p].pc = "get"
    /\ End(p)
    /\ UNCHANGED <<document, server, clean, quiet>>

\* The stored access token is within the skew of its expiry.
GetNeedsRefresh(p) ==
    /\ job[p].pc = "get"
    /\ doc[job[p].profile] \in RefreshTokens
    /\ Goto(p, [job[p] EXCEPT !.pc = "post", !.held = doc[job[p].profile]])
    /\ UNCHANGED <<document, server, clean, quiet>>

-----------------------------------------------------------------------------
(* The refresh request. *)

\* Mutant: one attempt too many.
MutPostRetriesOffByOne(p) ==
    /\ job[p].pc = "post"
    /\ job[p].attempt <= MaxAttempts
    /\ Goto(p, [job[p] EXCEPT !.attempt = @ + 1])
    /\ UNCHANGED <<document, server, clean, quiet>>

\* Lost before the server saw it, or answered 429 or 5xx: sent again.
PostRetries(p) ==
    /\ job[p].pc = "post"
    /\ job[p].attempt < MaxAttempts
    /\ Goto(p, [job[p] EXCEPT !.attempt = @ + 1])
    /\ UNCHANGED <<document, server, clean, quiet>>

\* Rejected (400, 401, 403), out of attempts, or any other failure.
PostFails(p) ==
    /\ job[p].pc = "post"
    /\ End(p)
    /\ UNCHANGED <<document, server, clean, quiet>>

ServerRefreshes(p) ==
    /\ job[p].pc = "post"
    /\ job[p].held \in live[job[p].profile]
    /\ \/ /\ singleUse
          /\ \E new \in Unissued:
                /\ Goto(p, [job[p] EXCEPT !.pc = "reply", !.answer = new])
                /\ live' = [live EXCEPT ![job[p].profile] = (@ \ {job[p].held}) \cup {new}]
                /\ issued' = [issued EXCEPT ![job[p].profile] = @ \cup {new}]
       \/ /\ ~singleUse
          /\ \E same \in {job[p].held, NoRefresh}:
                Goto(p, [job[p] EXCEPT !.pc = "reply", !.answer = same])
          /\ UNCHANGED <<live, issued>>
    /\ UNCHANGED <<document, singleUse, clean, quiet>>

\* Mutant: the retry does not count as an attempt.
MutReplyLostUncounted(p) ==
    /\ job[p].pc = "reply"
    /\ Goto(p, [job[p] EXCEPT !.pc = "post", !.answer = NoRefresh])
    /\ clean' = (clean /\ ~singleUse)
    /\ UNCHANGED <<document, server, quiet>>

\* The server acted, its answer did not arrive: the same POST is sent again.
ReplyLost(p) ==
    /\ job[p].pc = "reply"
    /\ job[p].attempt < MaxAttempts
    /\ Goto(p, [job[p] EXCEPT !.pc = "post", !.answer = NoRefresh, !.attempt = @ + 1])
    /\ clean' = (clean /\ ~singleUse)
    /\ UNCHANGED <<document, server, quiet>>

\* No answer to the last attempt, or one that does not parse.
ReplyFails(p) ==
    /\ job[p].pc = "reply"
    /\ Abandon(p)

\* Mutant: an answer without a refresh token drops the stored one.
MutRefreshedDropsOld(p) == job[p].answer

\* Mutant: the stored refresh token is kept although the answer has a new one.
MutRefreshedIgnoresNew(p) == job[p].held

\* The token set to store: an answer without a refresh token keeps the old.
Refreshed(p) == IF job[p].answer = NoRefresh THEN job[p].held ELSE job[p].answer

ReplyArrives(p) ==
    /\ job[p].pc = "reply"
    /\ Goto(p, [Idle EXCEPT !.pc = "save", !.profile = job[p].profile,
                            !.held = Refreshed(p)])
    /\ UNCHANGED <<document, server, clean, quiet>>

-----------------------------------------------------------------------------
(* EncryptedOAuthTokenStore.save and .delete. *)

SaveReads(p) ==
    /\ job[p].pc = "save"
    /\ Goto(p, [job[p] EXCEPT !.pc = "replace", !.snap = doc])
    /\ UNCHANGED <<document, server, clean, quiet>>

\* Writing disabled, an unreadable document or an OSError before the rename.
SaveFails(p) ==
    /\ job[p].pc \in {"save", "replace"}
    /\ Abandon(p)

\* Mutant: deleting writes the document back as it was read.
MutWrittenKeepsDeleted(p) ==
    IF job[p].command = "logout" THEN job[p].snap
    ELSE [job[p].snap EXCEPT ![job[p].profile] = job[p].held]

\* Mutant: the other profiles are not carried over.
MutWrittenAlone(p) == [EmptyDocument EXCEPT ![job[p].profile] = job[p].held]

\* The document as read, with the one profile set or removed.
Written(p) == [job[p].snap EXCEPT ![job[p].profile] = job[p].held]

SaveReplaces(p) ==
    /\ job[p].pc = "replace"
    /\ doc' = Written(p)
    /\ past' = [prof \in Profiles |-> past[prof] \cup ({doc'[prof]} \cap RefreshTokens)]
    /\ torn' = (torn \/ job[p].snap # doc)
    /\ End(p)
    /\ clean' = (clean /\ job[p].snap = doc)
    /\ quiet' = IF job[p].command = "logout" /\ OthersIdle(p)
                THEN [quiet EXCEPT ![job[p].profile] = TRUE]
                ELSE quiet
    /\ UNCHANGED server

\* The process is killed; a temporary file may stay behind, the document not.
Crash(p) ==
    /\ job[p].pc # "idle"
    /\ Abandon(p)

-----------------------------------------------------------------------------
Start(p) ==
    \E prof \in Profiles: StartLogin(p, prof) \/ StartLogout(p, prof) \/ StartGet(p, prof)

Proceed(p) ==
    \/ GetEnds(p)
    \/ GetNeedsRefresh(p)
    \/ PostRetries(p)
    \/ PostFails(p)
    \/ ServerRefreshes(p)
    \/ ReplyLost(p)
    \/ ReplyFails(p)
    \/ ReplyArrives(p)
    \/ SaveReads(p)
    \/ SaveFails(p)
    \/ SaveReplaces(p)

Next == \E p \in Procs: Start(p) \/ Proceed(p) \/ Crash(p)

\* A running process is scheduled and its calls return; users need not
\* start commands and processes need not crash.
Spec == Init /\ [][Next]_vars /\ \A p \in Procs: WF_vars(Proceed(p))

-----------------------------------------------------------------------------
TypeOK ==
    /\ doc \in Documents
    /\ past \in [Profiles -> SUBSET RefreshTokens]
    /\ torn \in BOOLEAN
    /\ job \in [Procs -> Jobs]
    /\ singleUse \in BOOLEAN
    /\ live \in [Profiles -> SUBSET RefreshTokens]
    /\ issued \in [Profiles -> SUBSET RefreshTokens]
    /\ clean \in BOOLEAN
    /\ quiet \in [Profiles -> BOOLEAN]

\* However reads, replaces and crashes of several processes interleave, what
\* is stored under a profile was issued for that profile.
EntriesBelongToProfile ==
    \A prof \in Profiles: doc[prof] \in issued[prof] \cup {NoRefresh, Absent}

\* A stored refresh token is one the server still accepts, unless a process
\* holds its replacement.  The only ways to lose a profile's credential are
\* the ones `clean` records: an answer lost after the server rotated the
\* token, a rotated token that was not saved, and two interleaved writes.  In
\* particular two processes that refresh the same profile at the same time do
\* not lose it.
CredentialLive ==
    clean =>
        \A prof \in Profiles:
            \/ doc[prof] \in live[prof] \cup {NoRefresh, Absent}
            \/ \E p \in Procs: job[p].profile = prof /\ HoldsRotated(p)

\* A logout that ran alone is final: until the next login no process, however
\* late, brings the profile back into the document or uses its tokens.
QuietLogoutIsFinal ==
    \A prof \in Profiles: quiet[prof] =>
        /\ doc[prof] = Absent
        /\ \A p \in Procs:
              /\ job[p].profile = prof /\ job[p].pc # "idle"
                    => job[p].command = "logout" \/ job[p].pc = "get"
              /\ job[p].snap[prof] = Absent

\* A profile that can be refreshed stays so through any number of refreshes:
\* only a login (or a write based on an older document) replaces its token
\* set by one without a refresh token.
RefreshabilityKept ==
    [][\A prof \in Profiles:
          doc[prof] \in RefreshTokens /\ doc'[prof] = NoRefresh =>
             \E p \in Procs:
                /\ job[p].pc = "replace"
                /\ \/ job[p].command = "login" /\ job[p].profile = prof
                   \/ job[p].profile # prof /\ job[p].snap[prof] = NoRefresh]_vars

Registers == INSTANCE TokenRegister WITH
    Profiles <- Profiles, Tokens <- RefreshTokens, Blank <- {NoRefresh, Absent},
    Empty <- Absent, reg <- doc, past <- past, accepted <- live, torn <- torn

\* Although all profiles live in one file and no lock is held, each is a
\* register of its own: a command changes no profile but its own, unless its
\* write overlapped another, and even then the others only go back to a token
\* they held before or to none; the token it stores is accepted by the server then; and
\* the server is asked to renew only what this profile's register has held.
ImplementsRegister == Registers!RSpec

\* The steps that a command can still take, at most.
StepsLeft(p) ==
    LET retries == 2 * (MaxAttempts - job[p].attempt)
    IN  [idle |-> 0, replace |-> 1, save |-> 2, reply |-> 3 + retries,
         post |-> 4 + retries, get |-> 5 + retries][job[p].pc]

StepBudget == 2 * MaxAttempts + 3

\* However other processes and the server interfere, a command that was
\* started ends after a bounded number of steps: each of its own brings it
\* nearer to its end, and no step of another takes it back.
CommandsAdvance ==
    [][\A p \in Procs: job'[p] # job[p] =>
          StepsLeft(p)' \in 0..(IF job[p].pc = "idle" THEN StepBudget
                                                    ELSE StepsLeft(p) - 1)]_vars

\* Every command ends: the retries of the refresh POST are bounded and
\* nothing waits for another process.
CommandsEnd == \A p \in Procs: (job[p].pc # "idle") ~> (job[p].pc = "idle")

-----------------------------------------------------------------------------
(* The parts of the inductive invariant behind the safety properties. *)

\* What the local variables of a command are at each of its steps.
CommandShape ==
    \A p \in Procs:
        /\ job[p].pc = "idle" => job[p] = Idle
        /\ job[p].pc \in {"get", "post", "reply"} => job[p].command = "get"
        /\ job[p].command = "logout" <=> job[p].held = Absent
        /\ job[p].pc \in {"post", "reply"} => job[p].held \in RefreshTokens
        /\ singleUse /\ job[p].pc = "reply" => job[p].answer \in RefreshTokens
        /\ job[p].command = "get" /\ job[p].pc \in {"save", "replace"}
              => job[p].held \in RefreshTokens

\* Every token anyone holds was issued for the profile it is held for.
Provenance ==
    \A prof \in Profiles:
        /\ live[prof] \subseteq issued[prof]
        /\ doc[prof] \in issued[prof] \cup {NoRefresh, Absent}
        /\ \A p \in Procs:
              /\ job[p].snap[prof] \in issued[prof] \cup {NoRefresh, Absent}
              /\ job[p].profile = prof =>
                    /\ job[p].held \in issued[prof] \cup {NoRefresh, Absent}
                    /\ job[p].answer \in issued[prof] \cup {NoRefresh}

\* A server that does not rotate accepts every token it issued.
Reusable == ~singleUse => live = issued

\* The refresh token a process is about to store, if it has one.
Secret(p) ==
    IF job[p].pc = "reply" THEN job[p].answer
    ELSE IF job[p].pc \in {"save", "replace"} THEN job[p].held ELSE NoRefresh

\* With single-use tokens, a token on its way to the document is accepted by
\* the server and known to nobody else.
SecretsPrivate ==
    singleUse =>
        \A p \in Procs: Secret(p) \in RefreshTokens =>
            /\ Secret(p) \in live[job[p].profile]
            /\ \A prof \in Profiles: doc[prof] # Secret(p)
            /\ \A q \in Procs \ {p}:
                  /\ job[q].held # Secret(p)
                  /\ job[q].answer # Secret(p)
                  /\ \A prof \in Profiles: job[q].snap[prof] # Secret(p)

TokensInv ==
    /\ TypeOK
    /\ CommandShape
    /\ Provenance
    /\ Reusable
    /\ SecretsPrivate
    /\ CredentialLive
    /\ QuietLogoutIsFinal

\* What a process has read of the document was once in it, entry by entry,
\* the token that it sends to the server included.
PastShape ==
    \A prof \in Profiles:
        /\ doc[prof] \in past[prof] \cup {NoRefresh, Absent}
        /\ past[prof] \subseteq issued[prof]
        /\ \A p \in Procs:
              /\ job[p].snap[prof] \in past[prof] \cup {NoRefresh, Absent}
              /\ job[p].profile = prof /\ job[p].pc \in {"post", "reply"}
                    => job[p].held \in past[prof]

RegistersInv == TokensInv /\ PastShape
=============================================================================
