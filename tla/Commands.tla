------------------------------ MODULE Commands ------------------------------
(***************************************************************************)
(* The command line over its settings and its two encrypted files: every   *)
(* command loads the settings, applies its own --allow flags, checks what  *)
(* it needs (its gates) and only then touches the session file, the server *)
(* or the token file.  `doctor` decides in a list of its own whether the   *)
(* settings will do.                                                       *)
(*                                                                         *)
(* The settings may be edited at any time, their encryption keys included, *)
(* so that a file can be left behind under a key that is no longer         *)
(* configured.  Commands run one at a time here; how they overlap is the   *)
(* subject of OAuthSessions and OAuthTokens.                               *)
(***************************************************************************)
EXTENDS Resolver

CONSTANTS
    Keys,        \* Fernet keys
    Sessions,    \* authorization sessions, each with the code the server gave for it
    Profiles     \* token profiles

VARIABLES
    env,         \* the settings, or Invalid
    sessions,    \* the session file: the key it is encrypted with, session -> status
    tokens,      \* the token file: the key, profile -> session whose code brought the set
    run,         \* the code exchange under way
    ready,       \* doctor has reported download_ready for these settings
    out,         \* what the last command came to, under these settings
    delivered,   \* history: sessions whose tokens reached the user
    excused,     \* history: sessions an outside failure has cost their tokens
    overlooked   \* history: sessions spent for want of something no gate asks for

vars == <<env, sessions, tokens, run, ready, out, delivered, excused, overlooked>>

-----------------------------------------------------------------------------
OrNone(S) == S \cup {None}

Settings ==
    [network: BOOLEAN, writes: BOOLEAN, sessionKey: OrNone(Keys), tokenKey: OrNone(Keys),
     clientId: BOOLEAN, clientSecret: BOOLEAN]

Invalid == None    \* settings that AppSettings refuses to load

Statuses == {"pending", "consumed", "expired"}
SessionFiles == [key: OrNone(Keys), status: [Sessions -> OrNone(Statuses)]]
TokenFiles == [key: OrNone(Keys), holds: [Profiles -> OrNone(Sessions)]]

\* An exchange whose gates let it pass, with the settings as it loaded them.
Exchanges ==
    [pc: {"consume", "post", "save"}, session: Sessions, profile: Profiles,
     persist: BOOLEAN, sessionKey: Keys, tokenKey: OrNone(Keys),
     url: BOOLEAN]    \* the request builder will accept the auth base URL

ASSUME CommandsAssumption ==
    /\ None \notin Keys \cup Sessions \cup Statuses
    /\ None \notin Settings \cup Exchanges

Flags == [network: {"unset", "on", "off"}, writes: {"unset", "on", "off"}]

\* A flag overrides the setting for the one command.
Allowed(setting, flag) == flag = "on" \/ (flag = "unset" /\ setting)
Network(f) == Allowed(env.network, f.network)
Writes(f) == Allowed(env.writes, f.writes)
Overridden(f) == f.network = "off" \/ f.writes = "off"

\* How a refusal is counted: for a setting that is missing, or for a flag.
Refusal(f) == IF Overridden(f) THEN "denied" ELSE "refused"

\* Mutant: whatever a file holds is accepted.
MutReadable(file, key) == key # None

\* _read_document succeeds: no file yet, or one under the configured key.
Readable(file, key) == key # None /\ file.key \in {None, key}

-----------------------------------------------------------------------------
(* The gates. *)

\* _validate_token_persistence_settings.
TokenGates(f) == env.tokenKey # None /\ Writes(f)

\* Mutant: the session file is not asked for.
MutExchangeGatesNoSession(f, persist) == Writes(f) /\ Network(f) /\ (persist => TokenGates(f))

\* Mutant: whether tokens can be stored is found out when they are.
MutExchangeGatesNoTokens(f, persist) == env.sessionKey # None /\ Writes(f) /\ Network(f)

\* _validate_exchange_code_settings and, with --persist-token, the above.
ExchangeGates(f, persist) ==
    /\ env.sessionKey # None
    /\ Writes(f)
    /\ Network(f)
    /\ persist => TokenGates(f)

\* Of `download track` and of `resolver inspect --official`, which are the same.
DownloadGates(f) ==
    /\ Network(f)
    /\ Writes(f)
    /\ env.tokenKey # None
    /\ env.clientId
    /\ env.clientSecret

\* Mutant: doctor does not ask for the key of the token file.
MutMissingTokenKey ==
    \/ ~env.network \/ ~env.writes
    \/ ~env.clientId \/ ~env.clientSecret
    \/ env.sessionKey = None

\* _missing_required, without the ffmpeg binary.
Missing ==
    \/ ~env.network \/ ~env.writes
    \/ ~env.clientId \/ ~env.clientSecret
    \/ env.tokenKey = None \/ env.sessionKey = None

-----------------------------------------------------------------------------
Init ==
    /\ env \in Settings \cup {Invalid}
    /\ sessions = [key |-> None, status |-> [s \in Sessions |-> None]]
    /\ tokens = [key |-> None, holds |-> [p \in Profiles |-> None]]
    /\ run = None
    /\ ready = FALSE
    /\ out = "none"
    /\ delivered = {}
    /\ excused = {}
    /\ overlooked = {}

\* The user edits a setting, breaks the file or mends it.
Edit ==
    /\ IF env = Invalid THEN env' \in Settings
       ELSE \/ env' = Invalid
            \/ \E b \in BOOLEAN: env' \in {[env EXCEPT !.network = b], [env EXCEPT !.writes = b],
                                        [env EXCEPT !.clientId = b], [env EXCEPT !.clientSecret = b]}
            \/ \E k \in OrNone(Keys): env' \in {[env EXCEPT !.sessionKey = k],
                                              [env EXCEPT !.tokenKey = k]}
    /\ ready' = FALSE
    /\ out' = "none"
    /\ UNCHANGED <<sessions, tokens, run, delivered, excused, overlooked>>

Files == <<sessions, tokens>>
History == <<delivered, excused, overlooked>>

\* The next command is started, with settings that load.
Loaded == run = None /\ env # Invalid

\* A command that ends at once and changes nothing.
Say(verdict) ==
    /\ out' = verdict
    /\ UNCHANGED <<env, Files, run, ready, History>>

\* Only doctor turns a ValidationError of the settings into a report.
LoadFails ==
    /\ run = None /\ env = Invalid
    /\ out' \in {"crashed", "failed"}
    /\ UNCHANGED <<env, Files, run, ready, History>>

\* ffmpeg may be missing on the PATH, or not be looked for.
Doctor ==
    /\ Loaded
    /\ \E found \in BOOLEAN: ready' = (~Missing /\ found)
    /\ out' = "done"
    /\ UNCHANGED <<env, Files, run, History>>

\* `oauth create-session`; with --memory nothing outlives the process.
CreateSession(s, f, persist) ==
    /\ Loaded
    /\ s \notin delivered \cup excused /\ sessions.status[s] = None
    /\ IF ~persist THEN Say("done")
       ELSE IF env.sessionKey = None \/ ~Writes(f) THEN Say(Refusal(f))
       ELSE \/ Say("failed")
            \/ /\ Readable(sessions, env.sessionKey)
               /\ sessions' = [key |-> env.sessionKey,
                               status |-> [sessions.status EXCEPT ![s] = "pending"]]
               /\ out' = "done"
               /\ UNCHANGED <<env, tokens, run, ready, History>>

\* `oauth exchange-code` up to the construction of the stores.  The auth base
\* URL is a setting, of which AppSettings checks the parts but not the scheme,
\* or is taken from --auth-base-url as it stands.
StartExchange(s, p, f, persist) ==
    /\ Loaded
    /\ IF ~ExchangeGates(f, persist) THEN Say(Refusal(f))
       ELSE /\ \E url \in BOOLEAN:
                   run' = [pc |-> "consume", session |-> s, profile |-> p, persist |-> persist,
                           sessionKey |-> env.sessionKey, tokenKey |-> env.tokenKey, url |-> url]
            /\ out' = "none"
            /\ UNCHANGED <<env, Files, ready, History>>

\* The exchange ends with a message, "none" when it was killed.
EndExchange(verdict) == run' = None /\ out' = verdict

ReadsSession ==
    /\ run # None /\ run.pc = "consume"
    /\ Readable(sessions, run.sessionKey)
    /\ sessions.status[run.session] # None

SaveSession(status) ==
    sessions' = [key |-> run.sessionKey,
                 status |-> [sessions.status EXCEPT ![run.session] = status]]

\* consume_session: the session is spent on disk.
Consume ==
    /\ ReadsSession
    /\ sessions.status[run.session] = "pending"
    /\ SaveSession("consumed")
    /\ run' = [run EXCEPT !.pc = "post"]
    /\ UNCHANGED <<env, tokens, ready, out, History>>

\* The clock has passed expires_at.
FindExpired ==
    /\ ReadsSession
    /\ sessions.status[run.session] # "consumed"
    /\ SaveSession("expired")
    /\ EndExchange("failed")
    /\ UNCHANGED <<env, tokens, ready, History>>

\* The file cannot be read or written, the session is not in it or consumed,
\* or the state does not match.
ConsumeFails ==
    /\ run # None /\ run.pc = "consume"
    /\ EndExchange("failed")
    /\ UNCHANGED <<env, Files, ready, History>>

\* build_authorization_code_request raises: the base URL is not an http(s)
\* one, or carries a query, a fragment or user info.  Nothing was sent.
BuildFails ==
    /\ run # None /\ run.pc = "post"
    /\ ~run.url
    /\ EndExchange("failed")
    /\ overlooked' = overlooked \cup {run.session}
    /\ UNCHANGED <<env, Files, ready, delivered, excused>>

\* The request is built and the server accepts the code.  Without
\* --persist-token the command only reports that it has received the tokens.
Redeem ==
    /\ run # None /\ run.pc = "post"
    /\ run.url
    /\ IF run.persist
       THEN run' = [run EXCEPT !.pc = "save"] /\ UNCHANGED <<out, delivered>>
       ELSE EndExchange("done") /\ delivered' = delivered \cup {run.session}
    /\ UNCHANGED <<env, Files, ready, excused, overlooked>>

\* token_store.save.
SaveTokens ==
    /\ run # None /\ run.pc = "save"
    /\ Readable(tokens, run.tokenKey)
    /\ tokens' = [key |-> run.tokenKey,
                  holds |-> [tokens.holds EXCEPT ![run.profile] = run.session]]
    /\ EndExchange("done")
    /\ delivered' = delivered \cup {run.session}
    /\ UNCHANGED <<env, sessions, ready, excused, overlooked>>

\* The token file is under another key: the tokens are lost.
SaveUnreadable ==
    /\ run # None /\ run.pc = "save"
    /\ ~Readable(tokens, run.tokenKey)
    /\ EndExchange("failed")
    /\ overlooked' = IF tokens.key # None THEN overlooked \cup {run.session} ELSE overlooked
    /\ UNCHANGED <<env, Files, ready, delivered, excused>>

\* Outside failures: the server cannot be reached or refuses the code (for
\* want of a client secret, perhaps, which is sent if there is one), the disk
\* refuses a write, the process is killed.
Break ==
    /\ run # None
    /\ \E verdict \in {"failed", "none"}: EndExchange(verdict)
    /\ excused' = IF run.pc = "consume" THEN excused ELSE excused \cup {run.session}
    /\ UNCHANGED <<env, Files, ready, delivered, overlooked>>

\* `oauth logout` rewrites the file, and creates one that was not there.
Logout(p, f) ==
    /\ Loaded
    /\ IF ~TokenGates(f) THEN Say(Refusal(f))
       ELSE \/ Say("failed")
            \/ /\ Readable(tokens, env.tokenKey)
               /\ tokens' = [key |-> env.tokenKey, holds |-> [tokens.holds EXCEPT ![p] = None]]
               /\ out' = "done"
               /\ UNCHANGED <<env, sessions, run, ready, History>>

\* `oauth token-status` has no flags.
TokenStatus ==
    /\ Loaded
    /\ IF env.tokenKey = None THEN Say("refused")
       ELSE Say("failed") \/ (Readable(tokens, env.tokenKey) /\ Say("done"))

\* `download track`: DownloadWorkflow goes on from here.
Download(f) ==
    /\ Loaded
    /\ IF DownloadGates(f) THEN Say("done") ELSE Say(Refusal(f))

\* What the answers of the service can be reported as.
Reports == {Reported(Read(answer)): answer \in Answers}
Askable == {Asks(in): in \in Inputs}

\* `resolver inspect --official`: an input that is not asked for needs no
\* token; a token that is missing, unreadable or not refreshed ends it.
InspectOfficial(p, f) ==
    /\ Loaded
    /\ IF ~DownloadGates(f) THEN Say(Refusal(f))
       ELSE \E asks \in Askable:
            \/ ~asks /\ Say("unknown_reason")
            \/ asks /\ Say("profile_unusable")
            \/ /\ asks /\ Readable(tokens, env.tokenKey) /\ tokens.holds[p] # None
               /\ \E report \in Reports: Say(report)

\* `resolver inspect --offline` loads no settings.
InspectOffline == run = None /\ Say("done")

\* `resolver inspect --external` needs the network and an endpoint, and
\* prints what it was told; an unreachable endpoint is not caught.
InspectExternal(f) ==
    /\ Loaded
    /\ IF ~Network(f) THEN Say(Refusal(f)) ELSE \E verdict \in {"denied", "done", "crashed"}: Say(verdict)

Next ==
    \/ Edit
    \/ LoadFails
    \/ Doctor
    \/ \E s \in Sessions, f \in Flags, persist \in BOOLEAN:
          \/ CreateSession(s, f, persist)
          \/ \E p \in Profiles: StartExchange(s, p, f, persist)
    \/ Consume
    \/ FindExpired
    \/ ConsumeFails
    \/ BuildFails
    \/ Redeem
    \/ SaveTokens
    \/ SaveUnreadable
    \/ Break
    \/ \E p \in Profiles, f \in Flags: Logout(p, f) \/ InspectOfficial(p, f)
    \/ TokenStatus
    \/ InspectOffline
    \/ \E f \in Flags: Download(f) \/ InspectExternal(f)

Spec == Init /\ [][Next]_vars

-----------------------------------------------------------------------------
Verdicts == {"none", "done", "failed", "refused", "denied", "crashed",
             "resolved", "payload_invalid", "unknown_reason", "profile_unusable"}

TypeOK ==
    /\ env \in Settings \cup {Invalid}
    /\ sessions \in SessionFiles
    /\ tokens \in TokenFiles
    /\ run \in Exchanges \cup {None}
    /\ ready \in BOOLEAN
    /\ out \in Verdicts
    /\ delivered \in SUBSET Sessions
    /\ excused \in SUBSET Sessions
    /\ overlooked \in SUBSET Sessions

\* A session that was spent has brought its tokens, is about to, or was cost
\* them from outside (the server, the disk, a kill), or by one of the two
\* things that are looked at only after it is spent: an auth base URL that no
\* request can be built for, and a token file under another key.  Whatever
\* else the program needs is found missing while the session can still be used.
NothingElseSpentInVain ==
    \A s \in Sessions: sessions.status[s] = "consumed" =>
        \/ s \in delivered \cup excused \cup overlooked
        \/ run # None /\ run.session = s /\ run.pc \in {"post", "save"}

\* Once doctor has called the settings ready and until they are edited, no
\* command turns the user away for a setting, unless its own flags deny it
\* or an external inspection is given no endpoint.
ReadyMeansRunnable == ready => out # "refused"

\* However keys come and go, a file that is there stays under its key, no
\* session leaves it or is usable again, and a token set leaves only alone:
\* no command overwrites what it cannot read.
StoresSurviveKeyChange ==
    [][/\ sessions.key # None => sessions'.key = sessions.key
       /\ tokens.key # None => tokens'.key = tokens.key
       /\ \A s \in Sessions: sessions.status[s] # None =>
             sessions'.status[s] \in {sessions.status[s], "consumed", "expired"}
       /\ \A s \in Sessions: sessions.status[s] \in {"consumed", "expired"} =>
             sessions'.status[s] = sessions.status[s]
       /\ \A p, q \in Profiles:
             tokens'.holds[p] # tokens.holds[p] /\ tokens'.holds[q] # tokens.holds[q] => p = q]_vars

\* The mapping to the abstract life cycle: what the file says of a session,
\* and whether its tokens have reached the user.
PhaseOf(s) ==
    CASE sessions.status[s] = None -> "unknown"
      [] sessions.status[s] = "pending" -> "usable"
      [] sessions.status[s] = "expired" -> "expired"
      [] sessions.status[s] = "consumed" -> IF s \in delivered THEN "redeemed" ELSE "spent"

Phase == [s \in Sessions |-> PhaseOf(s)]

Lifecycle == INSTANCE SessionLifecycle WITH phase <- Phase, interfered <- FALSE

\* The commands keep a session's life cycle without its proviso, whatever is
\* done to the settings and keys in between: each is created once, moves
\* forward only, and brings tokens to the user only after it was spent on
\* disk, by an exchange that loaded a key the file can be read with.
KeepsLifecycle == Lifecycle!LSpec

-----------------------------------------------------------------------------
(* The parts of the inductive invariant. *)

\* The gates that an exchange passed hold of the settings it has loaded.
RunShape ==
    run # None =>
        /\ run.persist => run.tokenKey # None
        /\ run.pc = "save" => run.persist

\* What doctor has seen is still so.
ReadyShape == ready => env # Invalid /\ ~Missing

\* A session's code is sent, and its tokens reach the user, only once the file
\* says that it is spent.
SpentShape ==
    /\ run # None /\ run.pc \in {"post", "save"} => sessions.status[run.session] = "consumed"
    /\ \A s \in delivered: sessions.status[s] = "consumed"

CommandsInv ==
    /\ TypeOK
    /\ RunShape
    /\ ReadyShape
    /\ NothingElseSpentInVain
    /\ ReadyMeansRunnable

LifecycleInv == CommandsInv /\ SpentShape
=============================================================================
