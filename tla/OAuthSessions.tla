---------------------------- MODULE OAuthSessions ----------------------------
(***************************************************************************)
(* Authorization sessions of the PKCE login: `oauth create-session         *)
(* --persist` stores one, `oauth exchange-code` looks it up, marks it      *)
(* consumed and then sends the authorization code to the server, in one    *)
(* call of the HTTP client, which repeats the request when it fails.       *)
(*                                                                         *)
(* EncryptedOAuthAuthorizationSessionStore keeps all sessions in one       *)
(* encrypted file; save reads the whole document, changes one session and  *)
(* replaces the file.  consume_session reads the session before that, and  *)
(* no lock is held over the three steps.                                   *)
(*                                                                         *)
(* A session is abstracted to its status.  Its expiry is compared with the *)
(* wall clock, which the environment moves, backwards too.                 *)
(***************************************************************************)
EXTENDS Naturals

CONSTANTS
    Procs,         \* CLI processes
    Sessions,      \* session ids (uuid4: never drawn twice)
    MaxAttempts    \* 1 + settings.http_max_retries

ASSUME SessionsAssumption ==
    /\ Sessions # {}
    /\ MaxAttempts \in Nat \ {0}

VARIABLES
    doc,        \* the session file: session -> status
    job,        \* what each process is doing
    due,        \* sessions whose expires_at the clock has reached
    created,    \* history: sessions whose id create-session has printed
    redeemed,   \* history: in how many exchanges a session's verifier was sent
    sends,      \* history: how many requests carried a session's verifier
    settled,    \* history: sessions spent by a command that ran alone
    clean       \* history: no command acted on something that had changed

vars == <<doc, job, due, created, redeemed, sends, settled, clean>>

history == <<created, redeemed, sends, settled, clean>>

-----------------------------------------------------------------------------
Absent == "absent"
Spent == {"consumed", "expired"}
Statuses == {"pending"} \cup Spent
Documents == [Sessions -> Statuses \cup {Absent}]
EmptyDocument == [s \in Sessions |-> Absent]

\* Bounds of the history counters: one more than either should reach.
RedeemCap == 2
SendCap == MaxAttempts + 1

UpTo(cap, n) == IF n < cap THEN n + 1 ELSE n

\* "post": about to call the HTTP client; "await": a request is on the wire
\* or the next attempt scheduled.
Steps == {"idle", "get", "check", "save", "replace", "post", "await"}

Jobs ==
    [pc: Steps,
     command: {"create", "exchange"},
     session: Sessions,
     match: BOOLEAN,                  \* the returned state is the session's
     seen: Statuses \cup {Absent},    \* the session as consume_session read it
     write: Statuses,                 \* the status to save
     snap: Documents,                 \* the document read by the running save
     attempt: 1..MaxAttempts]         \* attempt of the HTTP call

Idle ==
    [pc |-> "idle", command |-> "create", session |-> CHOOSE s \in Sessions: TRUE,
     match |-> FALSE, seen |-> Absent, write |-> "pending", snap |-> EmptyDocument,
     attempt |-> 1]

Goto(p, j) == job' = [job EXCEPT ![p] = j]
End(p) == Goto(p, Idle)
OthersIdle(p) == \A q \in Procs \ {p}: job[q].pc = "idle"

-----------------------------------------------------------------------------
Init ==
    /\ doc = EmptyDocument
    /\ job = [p \in Procs |-> Idle]
    /\ due = {}
    /\ created = {}
    /\ redeemed = [s \in Sessions |-> 0]
    /\ sends = [s \in Sessions |-> 0]
    /\ settled = {}
    /\ clean = TRUE

\* create_session: a new id; expires_at lies ahead.
StartCreate(p, s) ==
    /\ job[p].pc = "idle"
    /\ s \notin created
    /\ \A q \in Procs: job[q].pc # "idle" => job[q].session # s
    /\ Goto(p, [Idle EXCEPT !.pc = "save", !.session = s])
    /\ due' = due \ {s}
    /\ UNCHANGED <<doc, history>>

\* `oauth exchange-code` for a session the user was told of, with the state
\* the redirect returned or another one.
StartExchange(p, s, match) ==
    /\ job[p].pc = "idle"
    /\ s \in created
    /\ Goto(p, [Idle EXCEPT !.pc = "get", !.command = "exchange",
                            !.session = s, !.match = match])
    /\ UNCHANGED <<doc, due, history>>

GetSession(p) ==
    /\ job[p].pc = "get"
    /\ Goto(p, [job[p] EXCEPT !.pc = "check", !.seen = doc[job[p].session]])
    /\ UNCHANGED <<doc, due, history>>

\* Mutant: only the clock decides; the stored status is not looked at.
MutIsExpiredByClock(p) == job[p].session \in due

\* is_expired: by the clock, or found expired before.
IsExpired(p) == job[p].session \in due \/ job[p].seen = "expired"

\* Mutant: a consumed session is accepted again.
MutUsableConsumed(p) == job[p].seen \in {"pending", "consumed"}

\* The checks before the expiry: the session is stored and not consumed.
Usable(p) == job[p].seen \notin {Absent, "consumed"}

\* Not found, already consumed, or the state does not match: nothing is saved.
Reject(p) ==
    /\ job[p].pc = "check"
    /\ ~Usable(p) \/ (~IsExpired(p) /\ ~job[p].match)
    /\ End(p)
    /\ UNCHANGED <<doc, due, history>>

FindExpired(p) ==
    /\ job[p].pc = "check"
    /\ Usable(p)
    /\ IsExpired(p)
    /\ Goto(p, [job[p] EXCEPT !.pc = "save", !.write = "expired"])
    /\ UNCHANGED <<doc, due, history>>

Accept(p) ==
    /\ job[p].pc = "check"
    /\ Usable(p)
    /\ ~IsExpired(p)
    /\ job[p].match
    /\ Goto(p, [job[p] EXCEPT !.pc = "save", !.write = "consumed"])
    /\ UNCHANGED <<doc, due, history>>

SaveReads(p) ==
    /\ job[p].pc = "save"
    /\ Goto(p, [job[p] EXCEPT !.pc = "replace", !.snap = doc])
    /\ UNCHANGED <<doc, due, history>>

\* Mutant: the value of the one session in place of the document.
MutWrittenOnly(p) == [s \in {job[p].session} |-> job[p].write]

\* The document as read, with the one session set.
Written(p) == [job[p].snap EXCEPT ![job[p].session] = job[p].write]

\* What a command acts on is still so: nobody replaced the document since
\* it was read, nor the session since it was looked up.
UpToDate(p) ==
    /\ job[p].snap = doc
    /\ job[p].command = "exchange" => job[p].seen = doc[job[p].session]

\* The file is replaced.  create-session prints the id, an expired session
\* ends the exchange, a consumed one is redeemed next.
SaveReplaces(p) ==
    /\ job[p].pc = "replace"
    /\ doc' = Written(p)
    /\ IF job[p].write = "consumed" THEN Goto(p, [job[p] EXCEPT !.pc = "post"]) ELSE End(p)
    /\ created' = created \cup {job[p].session}
    /\ settled' = IF job[p].write \in Spent /\ OthersIdle(p)
                  THEN settled \cup {job[p].session} ELSE settled
    /\ clean' = (clean /\ UpToDate(p))
    /\ UNCHANGED <<due, redeemed, sends>>

\* exchange_authorization_code: a call of the HTTP client begins, and code
\* and verifier go to the server.
Redeem(p) ==
    /\ job[p].pc = "post"
    /\ redeemed' = [redeemed EXCEPT ![job[p].session] = UpTo(RedeemCap, @)]
    /\ sends' = [sends EXCEPT ![job[p].session] = UpTo(SendCap, @)]
    /\ Goto(p, [job[p] EXCEPT !.pc = "await", !.attempt = 1])
    /\ UNCHANGED <<doc, due, created, settled, clean>>

AttemptsLeft(p) == job[p].attempt < MaxAttempts

\* The attempt timed out, lost its connection or met a retryable status:
\* whether or not the server has acted on it, the client sends it again.
Resend(p) ==
    /\ job[p].pc = "await"
    /\ AttemptsLeft(p)
    /\ sends' = [sends EXCEPT ![job[p].session] = UpTo(SendCap, @)]
    /\ Goto(p, [job[p] EXCEPT !.attempt = @ + 1])
    /\ UNCHANGED <<doc, due, created, redeemed, settled, clean>>

\* The call returned or gave up.  Whatever the server answered, the session
\* is not touched again.
Answered(p) ==
    /\ job[p].pc = "await"
    /\ End(p)
    /\ UNCHANGED <<doc, due, history>>

\* A storage error, disabled writes, a request that cannot be built or a
\* kill ends the command anywhere.
Stop(p) ==
    /\ job[p].pc # "idle"
    /\ End(p)
    /\ UNCHANGED <<doc, due, history>>

\* The clock passes expires_at, or is set back before it.
ClockMoves(s) ==
    /\ due' = IF s \in due THEN due \ {s} ELSE due \cup {s}
    /\ UNCHANGED <<doc, job, history>>

Next ==
    \/ \E p \in Procs:
          \/ \E s \in Sessions: StartCreate(p, s)
          \/ \E s \in Sessions, match \in BOOLEAN: StartExchange(p, s, match)
          \/ GetSession(p)
          \/ Reject(p)
          \/ FindExpired(p)
          \/ Accept(p)
          \/ SaveReads(p)
          \/ SaveReplaces(p)
          \/ Redeem(p)
          \/ Resend(p)
          \/ Answered(p)
          \/ Stop(p)
    \/ \E s \in Sessions: ClockMoves(s)

Spec == Init /\ [][Next]_vars

-----------------------------------------------------------------------------
TypeOK ==
    /\ doc \in Documents
    /\ job \in [Procs -> Jobs]
    /\ due \in SUBSET Sessions
    /\ created \in SUBSET Sessions
    /\ redeemed \in [Sessions -> 0..RedeemCap]
    /\ sends \in [Sessions -> 0..SendCap]
    /\ settled \in SUBSET Sessions
    /\ clean \in BOOLEAN

\* A session's verifier is sent by one exchange at most, and by no more
\* requests than one HTTP call has attempts, through any crashes, failed
\* exchanges and repeated commands: the session is consumed on disk before
\* the first request leaves.  Only commands that overlap can break this: one
\* that looked the session up before another consumed it, or one that writes
\* back a document it read before.
RedeemedOnce == clean => \A s \in Sessions: redeemed[s] <= 1 /\ sends[s] <= MaxAttempts

\* Once a command that ran alone has spent a session, no command gets as far
\* as redeeming it again, whatever overlaps later.
SettledIsFinal ==
    \A s \in settled:
        /\ doc[s] \in Spent
        /\ \A p \in Procs:
              ~(/\ job[p].pc \in {"save", "replace"}
                /\ job[p].session = s
                /\ job[p].write # "expired")

-----------------------------------------------------------------------------
\* How far a session has come: what the file says of it and what was sent.
PhaseOf(s) ==
    IF redeemed[s] > 0
    THEN IF redeemed[s] = 1 /\ sends[s] <= MaxAttempts THEN "redeemed" ELSE "replayed"
    ELSE CASE doc[s] = "consumed" -> "spent"
           [] doc[s] = "pending" -> "usable"
           [] doc[s] = "expired" -> "expired"
           [] OTHER -> "unknown"

Phase == [s \in Sessions |-> IF clean THEN PhaseOf(s) ELSE "unknown"]

Lifecycle == INSTANCE SessionLifecycle WITH phase <- Phase, interfered <- ~clean

\* Unless commands overlapped harmfully, sessions only move forward, one at
\* a time: one that was created is never lost from the file, one that an
\* exchange refused as expired is not revived by a clock set back, one that
\* was spent is not usable again, and none is redeemed but out of spent, by
\* one exchange and within the attempts of its one call.
FollowsLifecycle == Lifecycle!LSpec

-----------------------------------------------------------------------------
(* The parts of the inductive invariant. *)

\* A session being created is known to nobody; an exchange is for one that
\* was printed, and writes what the session it looked up calls for.
CommandShape ==
    \A p \in Procs: job[p].pc # "idle" =>
        IF job[p].command = "create"
        THEN /\ job[p].pc \in {"save", "replace"}
             /\ job[p].session \notin created
             /\ job[p].write = "pending"
             /\ \A q \in Procs \ {p}: job[q].pc # "idle" => job[q].session # job[p].session
        ELSE /\ job[p].session \in created
             /\ job[p].pc \in {"save", "replace"} =>
                   \/ job[p].write = "consumed" /\ job[p].seen = "pending"
                   \/ job[p].write = "expired" /\ job[p].seen \in {"pending", "expired"}

\* Without harmful overlaps the file knows every session that was printed
\* and no other, and a redemption under way is the only one of its session.
CleanShape ==
    clean =>
        /\ \A s \in Sessions: doc[s] # Absent <=> s \in created
        /\ \A s \in Sessions: redeemed[s] > 0 => redeemed[s] = 1 /\ doc[s] = "consumed"
        /\ \A s \in Sessions: sends[s] <= MaxAttempts /\ (redeemed[s] = 0 => sends[s] = 0)
        /\ \A p \in Procs: job[p].pc \in {"post", "await"} =>
              /\ doc[job[p].session] = "consumed"
              /\ redeemed[job[p].session] = IF job[p].pc = "post" THEN 0 ELSE 1
              /\ sends[job[p].session] = IF job[p].pc = "post" THEN 0 ELSE job[p].attempt
              /\ \A q \in Procs \ {p}:
                    job[q].pc \in {"post", "await"} => job[q].session # job[p].session

\* Whatever a command still holds of a settled session is that it is spent.
SettledShape ==
    \A s \in settled:
        /\ s \in created
        /\ \A p \in Procs:
              /\ job[p].pc = "replace" => job[p].snap[s] \in Spent
              /\ job[p].pc = "check" /\ job[p].session = s => job[p].seen \in Spent

SessionsInv ==
    /\ TypeOK
    /\ CommandShape
    /\ CleanShape
    /\ SettledShape
    /\ SettledIsFinal
=============================================================================
