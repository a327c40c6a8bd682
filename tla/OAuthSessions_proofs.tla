------------------------ MODULE OAuthSessions_proofs ------------------------
(***************************************************************************)
(* SessionsInv of OAuthSessions is inductive, for any number of processes  *)
(* and sessions, and with it every step is one of SessionLifecycle.        *)
(***************************************************************************)
EXTENDS OAuthSessions, TLAPS

USE DEF Absent, Spent, Statuses

\* The job of a process that does nothing.
LEMMA IdleType ==
    ASSUME NEW s \in Sessions
    PROVE  Idle \in Jobs /\ Idle.pc = "idle" /\ Idle.command = "create" /\ Idle.write = "pending"
<1>1. EmptyDocument \in Documents
    BY DEF EmptyDocument, Documents
<1>2. QED
    BY <1>1, SessionsAssumption DEF Idle, Jobs, Steps

\* A process has a job of the right shape, so there is a session.
LEMMA JobFields ==
    ASSUME TypeOK, NEW p \in Procs
    PROVE  /\ job[p] \in Jobs
           /\ job[p].session \in Sessions
           /\ job[p].pc \in Steps
           /\ job[p].command \in {"create", "exchange"}
           /\ job[p].seen \in Statuses \cup {Absent}
           /\ job[p].write \in Statuses
           /\ job[p].snap \in Documents
           /\ job[p].attempt \in 1..MaxAttempts
           /\ Idle \in Jobs /\ Idle.pc = "idle"
<1>1. job[p] \in Jobs
    BY DEF TypeOK
<1>2. job[p].session \in Sessions
    BY <1>1 DEF Jobs
<1>3. QED
    BY <1>1, <1>2, IdleType DEF Jobs

-----------------------------------------------------------------------------
LEMMA InitSessionsInv == Init => SessionsInv
<1> SUFFICES ASSUME Init PROVE SessionsInv
    OBVIOUS
<1>1. Idle \in Jobs /\ Idle.pc = "idle"
    BY SessionsAssumption, IdleType
<1>2. TypeOK
    BY <1>1, SessionsAssumption DEF Init, TypeOK, EmptyDocument, Documents, RedeemCap, SendCap
<1>3. CommandShape /\ CleanShape /\ SettledShape /\ SettledIsFinal
    BY <1>1, SessionsAssumption
       DEF Init, CommandShape, CleanShape, SettledShape, SettledIsFinal, EmptyDocument
<1>4. QED
    BY <1>2, <1>3 DEF SessionsInv

-----------------------------------------------------------------------------
(* Steps that change nothing but the job of their process. *)

\* What CommandShape, SettledShape and SettledIsFinal ask of one job.
Fits(p, j) ==
    /\ j \in Jobs
    /\ j.pc \notin {"post", "await"}
    /\ j.pc # "idle" =>
          /\ \A q \in Procs \ {p}: job[q].pc # "idle" /\ job[q].command = "create"
                                      => job[q].session # j.session
          /\ IF j.command = "create"
             THEN /\ j.pc \in {"save", "replace"}
                  /\ j.session \notin created
                  /\ j.write = "pending"
                  /\ \A q \in Procs \ {p}: job[q].pc # "idle" => job[q].session # j.session
             ELSE /\ j.session \in created
                  /\ j.pc \in {"save", "replace"} =>
                        \/ j.write = "consumed" /\ j.seen = "pending"
                        \/ j.write = "expired" /\ j.seen \in {"pending", "expired"}
    /\ \A s \in settled:
          /\ j.pc = "replace" => j.snap[s] \in Spent
          /\ j.pc = "check" /\ j.session = s => j.seen \in Spent
          /\ ~(j.pc \in {"save", "replace"} /\ j.session = s /\ j.write # "expired")

LEMMA JobStepKeepsInv ==
    ASSUME SessionsInv, NEW p \in Procs, NEW j, Fits(p, j), Goto(p, j),
           due' \in SUBSET Sessions, UNCHANGED <<doc, history>>
    PROVE  SessionsInv'
<1>1. /\ job \in [Procs -> Jobs]
      /\ UNCHANGED <<doc, created, redeemed, sends, settled, clean>>
    BY DEF SessionsInv, TypeOK, history
<1>2. job'[p] = j /\ \A q \in Procs \ {p}: job'[q] = job[q]
    BY <1>1 DEF Goto
<1>3. TypeOK'
    BY <1>1 DEF SessionsInv, TypeOK, Fits, Goto
<1>4. CommandShape'
    <2> SUFFICES ASSUME NEW q \in Procs, job'[q].pc # "idle"
                 PROVE  CommandShape!(q)'
        BY Zenon DEF CommandShape
    <2>1. CASE q = p
        BY <1>1, <1>2, <2>1 DEF Fits
    <2>2. CASE q # p
        BY <1>1, <1>2, <2>2 DEF SessionsInv, CommandShape, Fits
    <2>3. QED
        BY <2>1, <2>2
<1>5. CleanShape'
    BY <1>1, <1>2 DEF SessionsInv, CleanShape, Fits
<1>6. SettledShape'
    BY <1>1, <1>2 DEF SessionsInv, SettledShape, Fits
<1>7. SettledIsFinal'
    BY <1>1, <1>2 DEF SessionsInv, SettledIsFinal, Fits
<1>8. QED
    BY <1>3, <1>4, <1>5, <1>6, <1>7 DEF SessionsInv

\* Ending a command: what is idle fits anywhere.
LEMMA EndKeepsInv ==
    ASSUME SessionsInv, NEW p \in Procs, End(p), UNCHANGED <<doc, due, history>>
    PROVE  SessionsInv'
<1>1. Fits(p, Idle)
    BY JobFields DEF SessionsInv, Fits
<1>2. due' \in SUBSET Sessions
    BY DEF SessionsInv, TypeOK
<1>3. QED
    BY <1>1, <1>2, JobStepKeepsInv DEF End

\* Starting to create a session keeps the invariant.
LEMMA StartCreateKeepsInv ==
    ASSUME SessionsInv, NEW p \in Procs, NEW s \in Sessions, StartCreate(p, s)
    PROVE  SessionsInv'
<1> DEFINE j == [Idle EXCEPT !.pc = "save", !.session = s]
<1>1. /\ j \in Jobs /\ j.pc = "save" /\ j.session = s
      /\ j.command = "create" /\ j.write = "pending"
    BY IdleType DEF Jobs, Steps
<1>2. s \notin created /\ \A q \in Procs: job[q].pc # "idle" => job[q].session # s
    BY DEF StartCreate
<1>3. s \notin settled
    BY <1>2 DEF SessionsInv, SettledShape
<1>4. Fits(p, j)
    BY <1>1, <1>2, <1>3 DEF Fits
<1>5. Goto(p, j) /\ due' \in SUBSET Sessions /\ UNCHANGED <<doc, history>>
    BY DEF StartCreate, SessionsInv, TypeOK
<1>6. QED
    BY <1>4, <1>5, JobStepKeepsInv

\* Starting an exchange keeps the invariant.
LEMMA StartExchangeKeepsInv ==
    ASSUME SessionsInv, NEW p \in Procs, NEW s \in Sessions, NEW match \in BOOLEAN,
           StartExchange(p, s, match)
    PROVE  SessionsInv'
<1> DEFINE j == [Idle EXCEPT !.pc = "get", !.command = "exchange",
                             !.session = s, !.match = match]
<1>1. j \in Jobs /\ j.pc = "get" /\ j.session = s /\ j.command = "exchange"
    BY IdleType DEF Jobs, Steps
<1>2. Fits(p, j)
    BY <1>1 DEF Fits, StartExchange, SessionsInv, CommandShape
<1>3. Goto(p, j) /\ due' \in SUBSET Sessions /\ UNCHANGED <<doc, history>>
    BY DEF StartExchange, SessionsInv, TypeOK
<1>4. QED
    BY <1>2, <1>3, JobStepKeepsInv

\* An exchange is under way: what the invariant says of its job.
LEMMA ExchangeJob ==
    ASSUME SessionsInv, NEW p \in Procs, job[p].pc \in {"get", "check"}
    PROVE  /\ job[p].command = "exchange"
           /\ job[p].session \in created
           /\ \A q \in Procs \ {p}: job[q].pc # "idle" /\ job[q].command = "create"
                                       => job[q].session # job[p].session
<1>1. job[p].command \in {"create", "exchange"}
    BY JobFields DEF SessionsInv
<1>2. job[p].pc # "idle" /\ job[p].pc \notin {"save", "replace"}
    OBVIOUS
<1>3. QED
    BY <1>1, <1>2 DEF SessionsInv, CommandShape

\* Looking the session up keeps the invariant.
LEMMA GetSessionKeepsInv ==
    ASSUME SessionsInv, NEW p \in Procs, GetSession(p)
    PROVE  SessionsInv'
<1> DEFINE j == [job[p] EXCEPT !.pc = "check", !.seen = doc[job[p].session]]
<1>1. /\ job[p] \in Jobs /\ job[p].session \in Sessions /\ job[p].pc = "get"
      /\ doc[job[p].session] \in Statuses \cup {Absent}
    BY JobFields DEF SessionsInv, TypeOK, Documents, GetSession
<1>2. /\ j \in Jobs /\ j.pc = "check" /\ j.session = job[p].session
      /\ j.command = job[p].command /\ j.seen = doc[job[p].session]
    BY <1>1 DEF Jobs, Steps
<1>3. \A s \in settled: doc[s] \in Spent
    BY DEF SessionsInv, SettledIsFinal
<1>4. Fits(p, j)
    BY <1>1, <1>2, <1>3, ExchangeJob DEF Fits
<1>5. Goto(p, j) /\ due' \in SUBSET Sessions /\ UNCHANGED <<doc, history>>
    BY DEF GetSession, SessionsInv, TypeOK
<1>6. QED
    BY <1>4, <1>5, JobStepKeepsInv

\* Deciding what to save keeps the invariant: a settled session is at most
\* marked expired again.
LEMMA DecideKeepsInv ==
    ASSUME SessionsInv, NEW p \in Procs, FindExpired(p) \/ Accept(p)
    PROVE  SessionsInv'
<1>1. PICK w \in {"expired", "consumed"}:
          /\ Goto(p, [job[p] EXCEPT !.pc = "save", !.write = w])
          /\ w = "expired" => job[p].seen \in {"pending", "expired"}
          /\ w = "consumed" => job[p].seen = "pending"
          /\ job[p].pc = "check"
          /\ UNCHANGED <<doc, due, history>>
    BY JobFields DEF SessionsInv, FindExpired, Accept, Usable, IsExpired
<1> DEFINE j == [job[p] EXCEPT !.pc = "save", !.write = w]
<1>2. /\ j \in Jobs /\ j.pc = "save" /\ j.write = w
      /\ j.session = job[p].session /\ j.command = job[p].command /\ j.seen = job[p].seen
    BY JobFields DEF SessionsInv, Jobs, Steps
<1>3. job[p].session \in settled => job[p].seen \in Spent
    BY <1>1 DEF SessionsInv, SettledShape
<1>4. Fits(p, j)
    BY <1>1, <1>2, <1>3, ExchangeJob DEF Fits
<1>5. due' \in SUBSET Sessions
    BY <1>1 DEF SessionsInv, TypeOK
<1>6. QED
    BY <1>1, <1>4, <1>5, JobStepKeepsInv

\* Reading the document to change keeps the invariant.
LEMMA SaveReadsKeepsInv ==
    ASSUME SessionsInv, NEW p \in Procs, SaveReads(p)
    PROVE  SessionsInv'
<1> DEFINE j == [job[p] EXCEPT !.pc = "replace", !.snap = doc]
<1>1. /\ j \in Jobs /\ j.pc = "replace" /\ j.write = job[p].write /\ j.snap = doc
      /\ j.session = job[p].session /\ j.command = job[p].command /\ j.seen = job[p].seen
    BY JobFields DEF SessionsInv, TypeOK, Jobs, Steps
<1>2. \A s \in settled:
          /\ doc[s] \in Spent
          /\ ~(job[p].session = s /\ job[p].write # "expired")
    BY DEF SessionsInv, SettledIsFinal, SaveReads
<1>3. Fits(p, j)
    BY <1>1, <1>2 DEF Fits, SaveReads, SessionsInv, CommandShape
<1>4. Goto(p, j) /\ due' \in SUBSET Sessions /\ UNCHANGED <<doc, history>>
    BY DEF SaveReads, SessionsInv, TypeOK
<1>5. QED
    BY <1>3, <1>4, JobStepKeepsInv

-----------------------------------------------------------------------------
\* Counting up to a cap that a counter has not reached.
LEMMA CountedUp ==
    ASSUME NEW n \in Nat, NEW cap \in Nat, n < cap
    PROVE  UpTo(cap, n) = n + 1
BY DEF UpTo

\* A counter never passes its cap.
LEMMA CapHolds ==
    ASSUME NEW cap \in Nat, NEW n \in 0..cap
    PROVE  UpTo(cap, n) \in 0..cap
BY DEF UpTo

\* What a request that carries code and verifier does to each part of the
\* state, the first one of a call or a repeated one.
LEMMA Sent ==
    ASSUME SessionsInv, NEW p \in Procs, Redeem(p) \/ Resend(p)
    PROVE  /\ job[p].pc \in {"post", "await"}
           /\ job'[p] \in Jobs /\ job'[p].pc = "await"
           /\ job'[p].session = job[p].session /\ job'[p].command = job[p].command
           /\ job'[p].attempt = IF job[p].pc = "post" THEN 1 ELSE job[p].attempt + 1
           /\ \A q \in Procs \ {p}: job'[q] = job[q]
           /\ redeemed' \in [Sessions -> 0..RedeemCap] /\ sends' \in [Sessions -> 0..SendCap]
           /\ redeemed'[job[p].session] = IF job[p].pc = "post"
                                          THEN UpTo(RedeemCap, redeemed[job[p].session])
                                          ELSE redeemed[job[p].session]
           /\ sends'[job[p].session] = UpTo(SendCap, sends[job[p].session])
           /\ \A t \in Sessions \ {job[p].session}:
                 redeemed'[t] = redeemed[t] /\ sends'[t] = sends[t]
           /\ UNCHANGED <<doc, due, created, settled, clean>>
<1>1. /\ job \in [Procs -> Jobs] /\ job[p] \in Jobs /\ job[p].session \in Sessions
      /\ job[p].attempt \in 1..MaxAttempts /\ MaxAttempts \in Nat \ {0}
      /\ redeemed \in [Sessions -> 0..RedeemCap] /\ sends \in [Sessions -> 0..SendCap]
    BY JobFields, SessionsAssumption DEF SessionsInv, TypeOK
<1>2. RedeemCap \in Nat /\ SendCap \in Nat
    BY <1>1 DEF RedeemCap, SendCap
<1>3. /\ UpTo(RedeemCap, redeemed[job[p].session]) \in 0..RedeemCap
      /\ UpTo(SendCap, sends[job[p].session]) \in 0..SendCap
    BY <1>1, <1>2, CapHolds
<1>4. CASE Redeem(p)
    <2> DEFINE j == [job[p] EXCEPT !.pc = "await", !.attempt = 1]
    <2>1. /\ j \in Jobs /\ j.pc = "await" /\ j.attempt = 1
          /\ j.session = job[p].session /\ j.command = job[p].command
        <3>1. 1 \in 1..MaxAttempts
            BY <1>1
        <3>2. QED
            BY <1>1, <3>1 DEF Jobs, Steps
    <2>2. job'[p] = j /\ \A q \in Procs \ {p}: job'[q] = job[q]
        BY <1>1, <1>4 DEF Redeem, Goto
    <2> HIDE DEF j
    <2>3. QED
        BY <1>1, <1>3, <1>4, <2>1, <2>2 DEF Redeem
<1>5. CASE Resend(p)
    <2> DEFINE j == [job[p] EXCEPT !.attempt = @ + 1]
    <2>1. job[p].pc = "await" /\ job[p].attempt + 1 \in 1..MaxAttempts
        BY <1>1, <1>5 DEF Resend, AttemptsLeft
    <2>2. /\ j \in Jobs /\ j.pc = "await" /\ j.attempt = job[p].attempt + 1
          /\ j.session = job[p].session /\ j.command = job[p].command
        BY <1>1, <2>1 DEF Jobs, Steps
    <2>3. job'[p] = j /\ \A q \in Procs \ {p}: job'[q] = job[q]
        BY <1>1, <1>5 DEF Resend, Goto
    <2> HIDE DEF j
    <2>4. QED
        BY <1>1, <1>3, <1>5, <2>1, <2>2, <2>3 DEF Resend
<1>6. QED
    BY <1>4, <1>5

\* Without harmful overlaps, what the history says of a session whose code
\* is being sent: this exchange is the first, and each attempt one request.
LEMMA SentCounts ==
    ASSUME SessionsInv, clean, NEW p \in Procs, Redeem(p) \/ Resend(p)
    PROVE  /\ doc[job[p].session] = "consumed"
           /\ redeemed'[job[p].session] = 1
           /\ sends'[job[p].session] = job'[p].attempt
           /\ job'[p].attempt \in 1..MaxAttempts
<1>1. /\ MaxAttempts \in Nat \ {0} /\ job[p].attempt \in 1..MaxAttempts
      /\ job'[p].attempt \in 1..MaxAttempts
    BY JobFields, Sent, SessionsAssumption DEF SessionsInv, Jobs
<1>2. /\ doc[job[p].session] = "consumed"
      /\ redeemed[job[p].session] = IF job[p].pc = "post" THEN 0 ELSE 1
      /\ sends[job[p].session] = IF job[p].pc = "post" THEN 0 ELSE job[p].attempt
    BY Sent DEF SessionsInv, CleanShape
<1>3. job[p].pc = "post" => UpTo(RedeemCap, redeemed[job[p].session]) = 1
    BY <1>2 DEF UpTo, RedeemCap
<1>4. UpTo(SendCap, sends[job[p].session]) = IF job[p].pc = "post" THEN 1 ELSE job[p].attempt + 1
    BY <1>1, <1>2, CountedUp DEF SendCap
<1>5. /\ redeemed'[job[p].session] = IF job[p].pc = "post"
                                     THEN UpTo(RedeemCap, redeemed[job[p].session])
                                     ELSE redeemed[job[p].session]
      /\ sends'[job[p].session] = UpTo(SendCap, sends[job[p].session])
      /\ job'[p].attempt = IF job[p].pc = "post" THEN 1 ELSE job[p].attempt + 1
    BY Sent
<1>6. QED
    BY <1>1, <1>2, <1>3, <1>4, <1>5

\* Sending the code, again or for the first time, keeps the invariant: nobody
\* else has this session's, and no other exchange has sent it before.
LEMMA SendKeepsInv ==
    ASSUME SessionsInv, NEW p \in Procs, Redeem(p) \/ Resend(p)
    PROVE  SessionsInv'
<1> DEFINE s == job[p].session
<1>1. s \in Sessions /\ \A q \in Procs: job[q].session \in Sessions
    BY JobFields DEF SessionsInv
<1>2. TypeOK'
    BY Sent DEF SessionsInv, TypeOK, Redeem, Resend, Goto
<1>3. CommandShape'
    <2> SUFFICES ASSUME NEW q \in Procs, job'[q].pc # "idle"
                 PROVE  CommandShape!(q)'
        BY Zenon DEF CommandShape
    <2>1. \A r \in Procs: job'[r].pc # "idle" => job[r].pc # "idle" /\ job'[r].session = job[r].session
        BY Sent
    <2>2. CASE q = p
        BY <2>1, <2>2, Sent DEF SessionsInv, CommandShape
    <2>3. CASE q # p
        BY <2>1, <2>3, Sent DEF SessionsInv, CommandShape
    <2>4. QED
        BY <2>2, <2>3
<1>4. CleanShape'
    <2> SUFFICES ASSUME clean PROVE CleanShape'
        BY Sent DEF CleanShape
    <2>1. /\ doc[s] = "consumed" /\ redeemed'[s] = 1 /\ sends'[s] = job'[p].attempt
          /\ job'[p].attempt \in 1..MaxAttempts /\ MaxAttempts \in Nat
        BY SentCounts, SessionsAssumption
    <2>2. /\ \A q \in Procs \ {p}: job'[q] = job[q]
          /\ \A t \in Sessions \ {s}: redeemed'[t] = redeemed[t] /\ sends'[t] = sends[t]
          /\ job[p].pc \in {"post", "await"}
          /\ job'[p].pc = "await" /\ job'[p].session = s /\ doc' = doc /\ created' = created
        BY Sent
    <2>3. /\ \A t \in Sessions: doc[t] # Absent <=> t \in created
          /\ \A t \in Sessions: redeemed[t] > 0 => redeemed[t] = 1 /\ doc[t] = "consumed"
          /\ \A t \in Sessions: sends[t] <= MaxAttempts /\ (redeemed[t] = 0 => sends[t] = 0)
        BY DEF SessionsInv, CleanShape
    <2>4. ASSUME NEW q \in Procs, job[q].pc \in {"post", "await"}
          PROVE  /\ doc[job[q].session] = "consumed"
                 /\ redeemed[job[q].session] = IF job[q].pc = "post" THEN 0 ELSE 1
                 /\ sends[job[q].session] = IF job[q].pc = "post" THEN 0 ELSE job[q].attempt
                 /\ \A r \in Procs \ {q}:
                       job[r].pc \in {"post", "await"} => job[r].session # job[q].session
        BY <2>4 DEF SessionsInv, CleanShape
    <2>5. /\ \A t \in Sessions: redeemed'[t] > 0 => redeemed'[t] = 1 /\ doc'[t] = "consumed"
          /\ \A t \in Sessions: sends'[t] <= MaxAttempts /\ (redeemed'[t] = 0 => sends'[t] = 0)
        BY <2>1, <2>2, <2>3
    <2>6. ASSUME NEW q \in Procs, job'[q].pc \in {"post", "await"}
          PROVE  /\ doc'[job'[q].session] = "consumed"
                 /\ redeemed'[job'[q].session] = IF job'[q].pc = "post" THEN 0 ELSE 1
                 /\ sends'[job'[q].session] = IF job'[q].pc = "post" THEN 0 ELSE job'[q].attempt
                 /\ \A r \in Procs \ {q}:
                       job'[r].pc \in {"post", "await"} => job'[r].session # job'[q].session
        <3>1. CASE q = p
            <4>1. \A r \in Procs \ {p}: job[r].pc \in {"post", "await"} => job[r].session # s
                BY <2>2, <2>4
            <4>2. QED
                BY <2>1, <2>2, <3>1, <4>1
        <3>2. CASE q # p
            <4>1. job'[q] = job[q] /\ job[q].session # s
                BY <2>2, <2>4, <2>6, <3>2
            <4>2. \A r \in Procs \ {q}:
                      job'[r].pc \in {"post", "await"} => job'[r].session # job[q].session
                BY <2>2, <2>4, <2>6, <3>2, <4>1
            <4>3. QED
                BY <1>1, <2>2, <2>4, <2>6, <4>1, <4>2
        <3>3. QED
            BY <3>1, <3>2
    <2>7. QED
        BY <2>2, <2>3, <2>5, <2>6 DEF CleanShape
<1>5. SettledShape' /\ SettledIsFinal'
    BY Sent DEF SessionsInv, SettledShape, SettledIsFinal
<1>6. QED
    BY <1>2, <1>3, <1>4, <1>5 DEF SessionsInv

\* The clock is not part of what a session may still do.
LEMMA ClockKeepsInv ==
    ASSUME SessionsInv, NEW s \in Sessions, ClockMoves(s)
    PROVE  SessionsInv'
<1>1. UNCHANGED <<doc, job, created, redeemed, sends, settled, clean>> /\ due' \in SUBSET Sessions
    BY DEF ClockMoves, history, SessionsInv, TypeOK
<1>2. QED
    BY <1>1 DEF SessionsInv, TypeOK, CommandShape, CleanShape, SettledShape, SettledIsFinal

\* What replacing the file does to each part of the state.
LEMMA Replaced ==
    ASSUME SessionsInv, NEW p \in Procs, SaveReplaces(p)
    PROVE  /\ job[p].pc = "replace"
           /\ job[p].session \in Sessions
           /\ doc' \in Documents
           /\ doc'[job[p].session] = job[p].write
           /\ \A t \in Sessions \ {job[p].session}: doc'[t] = job[p].snap[t]
           /\ \A q \in Procs \ {p}: job'[q] = job[q]
           /\ job'[p] \in Jobs
           /\ IF job[p].write = "consumed"
              THEN /\ job'[p].pc = "post" /\ job'[p].session = job[p].session
                   /\ job'[p].command = job[p].command
              ELSE job'[p].pc = "idle"
           /\ created' = created \cup {job[p].session}
           /\ settled' = IF job[p].write \in Spent /\ OthersIdle(p)
                         THEN settled \cup {job[p].session} ELSE settled
           /\ clean' = (clean /\ UpToDate(p))
           /\ UNCHANGED <<due, redeemed, sends>>
<1>1. /\ job \in [Procs -> Jobs] /\ job[p] \in Jobs /\ Idle \in Jobs /\ Idle.pc = "idle"
      /\ job[p].session \in Sessions /\ job[p].write \in Statuses /\ job[p].snap \in Documents
    BY JobFields DEF SessionsInv, TypeOK
<1> DEFINE j == IF job[p].write = "consumed" THEN [job[p] EXCEPT !.pc = "post"] ELSE Idle
<1>2. /\ j \in Jobs
      /\ IF job[p].write = "consumed"
         THEN j.pc = "post" /\ j.session = job[p].session /\ j.command = job[p].command
         ELSE j.pc = "idle"
    BY <1>1 DEF Jobs, Steps
<1>3. Goto(p, j) /\ doc' = [job[p].snap EXCEPT ![job[p].session] = job[p].write]
    BY DEF SaveReplaces, Written, End, Goto
<1>4. job'[p] = j /\ \A q \in Procs \ {p}: job'[q] = job[q]
    BY <1>1, <1>3 DEF Goto
<1>5. /\ doc' \in Documents /\ doc'[job[p].session] = job[p].write
      /\ \A t \in Sessions \ {job[p].session}: doc'[t] = job[p].snap[t]
    BY <1>1, <1>3 DEF Documents
<1> HIDE DEF j
<1>6. QED
    BY <1>1, <1>2, <1>4, <1>5 DEF SaveReplaces

\* Replacing the file keeps the invariant.
LEMMA SaveReplacesKeepsInv ==
    ASSUME SessionsInv, NEW p \in Procs, SaveReplaces(p)
    PROVE  SessionsInv'
<1> DEFINE s == job[p].session
<1>1. job \in [Procs -> Jobs] /\ \A q \in Procs: job[q].session \in Sessions
    BY JobFields DEF SessionsInv, TypeOK
<1>2. TypeOK'
    <2>1. job' \in [Procs -> Jobs]
        BY <1>1, Replaced DEF SaveReplaces, End, Goto
    <2>2. created' \in SUBSET Sessions /\ settled' \in SUBSET Sessions
        BY Replaced DEF SessionsInv, TypeOK
    <2>3. clean' \in BOOLEAN
        BY Replaced DEF UpToDate
    <2>4. QED
        BY <2>1, <2>2, <2>3, Replaced DEF SessionsInv, TypeOK
<1>3. CommandShape'
    <2> SUFFICES ASSUME NEW q \in Procs, job'[q].pc # "idle"
                 PROVE  CommandShape!(q)'
        BY Zenon DEF CommandShape
    <2>1. CASE q = p
        BY <2>1, Replaced DEF SessionsInv, CommandShape
    <2>2. CASE q # p
        <3>1. job'[q] = job[q] /\ job[q].pc # "idle"
            BY <2>2, Replaced
        <3>2. job[q].command = "create" => job[q].session # s
            BY <3>1, <2>2, Replaced DEF SessionsInv, CommandShape
        <3>3. \A r \in Procs: job'[r].pc # "idle" => job[r].pc # "idle" /\ job'[r].session = job[r].session
            BY Replaced
        <3>4. QED
            BY <3>1, <3>2, <3>3, Replaced DEF SessionsInv, CommandShape
    <2>3. QED
        BY <2>1, <2>2
<1>4. CleanShape'
    <2> SUFFICES ASSUME clean, UpToDate(p) PROVE CleanShape'
        BY Replaced DEF CleanShape
    <2>1. \A t \in Sessions \ {s}: doc'[t] = doc[t]
        BY Replaced DEF UpToDate
    <2>2. /\ \A t \in Sessions: doc[t] # Absent <=> t \in created
          /\ \A t \in Sessions: redeemed[t] > 0 => redeemed[t] = 1 /\ doc[t] = "consumed"
          /\ \A t \in Sessions: sends[t] <= MaxAttempts /\ (redeemed[t] = 0 => sends[t] = 0)
          /\ \A q \in Procs: job[q].pc \in {"post", "await"} =>
                /\ doc[job[q].session] = "consumed"
                /\ redeemed[job[q].session] = IF job[q].pc = "post" THEN 0 ELSE 1
                /\ sends[job[q].session] = IF job[q].pc = "post" THEN 0 ELSE job[q].attempt
        BY DEF SessionsInv, CleanShape
    <2>3. doc[s] # "consumed" /\ redeemed[s] = 0 /\ sends[s] = 0
        <3>1. CASE job[p].command = "create"
            BY <3>1, <2>2, Replaced DEF SessionsInv, CommandShape, TypeOK, RedeemCap
        <3>2. CASE job[p].command # "create"
            BY <3>2, <2>2, Replaced, JobFields
               DEF SessionsInv, CommandShape, UpToDate, TypeOK, RedeemCap
        <3>3. QED
            BY <3>1, <3>2
    <2>4. \A q \in Procs \ {p}: job[q].pc \in {"post", "await"} => job[q].session # s
        BY <2>2, <2>3
    <2>5. job[p].write # Absent
        BY JobFields DEF SessionsInv
    <2>6. \A t \in Sessions: doc'[t] # Absent <=> t \in created'
        BY <2>1, <2>2, <2>5, Replaced
    <2>7. /\ \A t \in Sessions: redeemed'[t] > 0 => redeemed'[t] = 1 /\ doc'[t] = "consumed"
          /\ \A t \in Sessions: sends'[t] <= MaxAttempts /\ (redeemed'[t] = 0 => sends'[t] = 0)
        BY <2>1, <2>2, <2>3, Replaced
    <2>8. ASSUME NEW q \in Procs, job'[q].pc \in {"post", "await"}
          PROVE  /\ doc'[job'[q].session] = "consumed"
                 /\ redeemed'[job'[q].session] = IF job'[q].pc = "post" THEN 0 ELSE 1
                 /\ sends'[job'[q].session] = IF job'[q].pc = "post" THEN 0 ELSE job'[q].attempt
                 /\ \A r \in Procs \ {q}:
                       job'[r].pc \in {"post", "await"} => job'[r].session # job'[q].session
        <3>1. CASE q = p
            BY <3>1, <2>3, <2>4, <2>8, Replaced
        <3>2. CASE q # p
            <4>1. job'[q] = job[q] /\ job[q].session # s /\ job[q].session \in Sessions
                BY <3>2, <2>4, <2>8, <1>1, Replaced
            <4>2. \A r \in Procs \ {q}:
                      job'[r].pc \in {"post", "await"} => job'[r].session # job[q].session
                BY <4>1, <2>8, Replaced DEF SessionsInv, CleanShape
            <4>3. QED
                BY <4>1, <4>2, <2>1, <2>2, <2>8, Replaced
        <3>3. QED
            BY <3>1, <3>2
    <2>9. QED
        BY <2>6, <2>7, <2>8 DEF CleanShape
<1>5. SettledShape' /\ SettledIsFinal'
    <2> SUFFICES ASSUME NEW t \in settled'
                 PROVE  /\ t \in created' /\ doc'[t] \in Spent
                        /\ \A q \in Procs:
                              /\ job'[q].pc = "replace" => job'[q].snap[t] \in Spent
                              /\ job'[q].pc = "check" /\ job'[q].session = t
                                    => job'[q].seen \in Spent
                              /\ ~(/\ job'[q].pc \in {"save", "replace"}
                                   /\ job'[q].session = t /\ job'[q].write # "expired")
        BY DEF SettledShape, SettledIsFinal
    <2>1. CASE t \in settled
        <3>1. t \in Sessions
            BY <2>1 DEF SessionsInv, TypeOK
        <3>2. doc'[t] \in Spent
            BY <2>1, <3>1, Replaced DEF SessionsInv, SettledShape, SettledIsFinal
        <3>3. QED
            BY <2>1, <3>2, Replaced DEF SessionsInv, SettledShape, SettledIsFinal
    <2>2. CASE t \notin settled
        <3>1. t = s /\ job[p].write \in Spent /\ OthersIdle(p)
            BY <2>2, Replaced
        <3>2. \A q \in Procs: job'[q].pc \in {"idle", "post"}
            BY <3>1, Replaced DEF OthersIdle
        <3>3. QED
            BY <3>1, <3>2, Replaced
    <2>3. QED
        BY <2>1, <2>2
<1>6. QED
    BY <1>2, <1>3, <1>4, <1>5 DEF SessionsInv

-----------------------------------------------------------------------------
\* Every step keeps the invariant.
LEMMA NextKeepsInv == SessionsInv /\ [Next]_vars => SessionsInv'
<1> SUFFICES ASSUME SessionsInv, [Next]_vars PROVE SessionsInv'
    OBVIOUS
<1>1. ASSUME NEW p \in Procs, NEW s \in Sessions, StartCreate(p, s)
      PROVE  SessionsInv'
    BY <1>1, StartCreateKeepsInv
<1>2. ASSUME NEW p \in Procs, NEW s \in Sessions, NEW match \in BOOLEAN,
             StartExchange(p, s, match)
      PROVE  SessionsInv'
    BY <1>2, StartExchangeKeepsInv
<1>3. ASSUME NEW p \in Procs, GetSession(p)
      PROVE  SessionsInv'
    BY <1>3, GetSessionKeepsInv
<1>4. ASSUME NEW p \in Procs, Reject(p) \/ Answered(p) \/ Stop(p)
      PROVE  SessionsInv'
    BY <1>4, EndKeepsInv DEF Reject, Answered, Stop
<1>5. ASSUME NEW p \in Procs, FindExpired(p) \/ Accept(p)
      PROVE  SessionsInv'
    BY <1>5, DecideKeepsInv
<1>6. ASSUME NEW p \in Procs, SaveReads(p)
      PROVE  SessionsInv'
    BY <1>6, SaveReadsKeepsInv
<1>7. ASSUME NEW p \in Procs, SaveReplaces(p)
      PROVE  SessionsInv'
    BY <1>7, SaveReplacesKeepsInv
<1>8. ASSUME NEW p \in Procs, Redeem(p) \/ Resend(p)
      PROVE  SessionsInv'
    BY <1>8, SendKeepsInv
<1>9. ASSUME NEW s \in Sessions, ClockMoves(s)
      PROVE  SessionsInv'
    BY <1>9, ClockKeepsInv
<1>10. CASE UNCHANGED vars
    BY <1>10 DEF vars, SessionsInv, TypeOK, CommandShape, CleanShape, SettledShape, SettledIsFinal
<1>11. QED
    BY <1>1, <1>2, <1>3, <1>4, <1>5, <1>6, <1>7, <1>8, <1>9, <1>10 DEF Next

\* The invariant holds in every state of every execution, for any number of
\* processes and sessions.
THEOREM SessionsInvariant == Spec => []SessionsInv
<1>1. QED
    BY InitSessionsInv, NextKeepsInv, PTL DEF Spec

\* The session file and the commands have the shape the code gives them.
THEOREM SessionsTypeCorrect == Spec => []TypeOK
<1>1. SessionsInv => TypeOK
    BY DEF SessionsInv
<1>2. QED
    BY <1>1, SessionsInvariant, PTL

\* Unless commands overlapped harmfully, a session's verifier is sent by one
\* exchange only, and at most once per attempt of its HTTP call.
THEOREM SessionsRedeemedOnce == Spec => []RedeemedOnce
<1>1. SessionsInv => RedeemedOnce
    <2> SUFFICES ASSUME SessionsInv, clean, NEW s \in Sessions
                 PROVE  redeemed[s] <= 1 /\ sends[s] <= MaxAttempts
        BY DEF RedeemedOnce
    <2>1. /\ redeemed[s] \in Nat /\ (redeemed[s] > 0 => redeemed[s] = 1)
          /\ sends[s] <= MaxAttempts
        BY DEF SessionsInv, TypeOK, RedeemCap, CleanShape
    <2>2. QED
        BY <2>1
<1>2. QED
    BY <1>1, SessionsInvariant, PTL

\* A session spent by a command that ran alone is never redeemed again.
THEOREM SessionsSettledFinal == Spec => []SettledIsFinal
<1>1. SessionsInv => SettledIsFinal
    BY DEF SessionsInv
<1>2. QED
    BY <1>1, SessionsInvariant, PTL

-----------------------------------------------------------------------------
\* No session is known at the start.
LEMMA InitIsLifecycleInit == Init => Lifecycle!LInit
<1> SUFFICES ASSUME Init PROVE Lifecycle!LInit
    OBVIOUS
<1>1. \A s \in Sessions: PhaseOf(s) = "unknown"
    BY DEF Init, PhaseOf, EmptyDocument
<1>2. QED
    BY <1>1 DEF Init, Lifecycle!LInit, Phase

\* A step that leaves the file, the redemptions and the overlaps alone is not
\* seen in any session's life.
LEMMA QuietStep ==
    UNCHANGED <<doc, redeemed, sends, clean>> => UNCHANGED Lifecycle!lvars
BY DEF Lifecycle!lvars, Phase, PhaseOf

\* A change of one session's phase along its life is a step of that life.
LEMMA ForwardStep ==
    ASSUME clean, clean', NEW s \in Sessions,
           \A t \in Sessions \ {s}: PhaseOf(t)' = PhaseOf(t),
           <<PhaseOf(s), PhaseOf(s)'>> \in Lifecycle!Forward
    PROVE  Lifecycle!Advance(s)
<1>1. Phase = [t \in Sessions |-> PhaseOf(t)] /\ Phase' = [t \in Sessions |-> PhaseOf(t)']
    BY DEF Phase
<1>2. Phase[s] = PhaseOf(s) /\ Phase' = [Phase EXCEPT ![s] = PhaseOf(s)']
    BY <1>1
<1>3. \E f \in Lifecycle!Forward: Phase[s] = f[1] /\ Phase' = [Phase EXCEPT ![s] = f[2]]
    BY <1>2
<1>4. QED
    BY <1>3 DEF Lifecycle!Advance

\* Every step takes one session one step forward, or none, or interferes.
LEMMA StepFollowsLifecycle ==
    SessionsInv /\ [Next]_vars => [Lifecycle!LNext]_Lifecycle!lvars
<1> SUFFICES ASSUME SessionsInv, [Next]_vars
             PROVE  Lifecycle!LNext \/ UNCHANGED Lifecycle!lvars
    OBVIOUS
<1>1. CASE ~clean'
    BY <1>1 DEF Lifecycle!LNext, Lifecycle!Interfere
<1>2. ASSUME NEW p \in Procs, SaveReplaces(p), clean'
      PROVE  Lifecycle!Advance(job[p].session) \/ UNCHANGED Lifecycle!lvars
    <2> PICK s \in Sessions: s = job[p].session
        BY <1>2, JobFields DEF SessionsInv
    <2>1. clean /\ UpToDate(p) /\ redeemed' = redeemed /\ sends' = sends
        BY <1>2, Replaced
    <2>2. \A t \in Sessions \ {s}: doc'[t] = doc[t]
        BY <1>2, <2>1, Replaced DEF UpToDate
    <2>3. \A t \in Sessions \ {s}: PhaseOf(t)' = PhaseOf(t)
        BY <2>1, <2>2 DEF PhaseOf
    <2>4. redeemed \in [Sessions -> 0..2] /\ (redeemed[s] > 0 => doc[s] = "consumed")
        BY <2>1 DEF SessionsInv, TypeOK, RedeemCap, CleanShape
    <2>5. doc'[s] = job[p].write
        BY <1>2, Replaced
    <2>6. CASE job[p].command = "create"
        <3>1. doc[s] = Absent /\ doc'[s] = "pending"
            BY <1>2, <2>1, <2>5, <2>6, Replaced DEF SessionsInv, CommandShape, CleanShape
        <3>2. PhaseOf(s) = "unknown" /\ PhaseOf(s)' = "usable"
            BY <2>1, <2>4, <3>1 DEF PhaseOf
        <3>3. QED
            BY <2>1, <2>3, <3>2, ForwardStep, <1>2 DEF Lifecycle!Forward
    <2>7. CASE job[p].command # "create"
        <3>1. \/ doc[s] = "pending" /\ doc'[s] \in {"consumed", "expired"}
              \/ doc[s] = "expired" /\ doc'[s] = "expired"
            BY <1>2, <2>1, <2>5, <2>7, Replaced, JobFields
               DEF SessionsInv, CommandShape, UpToDate
        <3>2. CASE doc[s] = "pending"
            <4>1. PhaseOf(s) = "usable" /\ PhaseOf(s)' \in {"spent", "expired"}
                BY <2>1, <2>4, <3>1, <3>2 DEF PhaseOf
            <4>2. QED
                BY <2>1, <2>3, <4>1, ForwardStep, <1>2 DEF Lifecycle!Forward
        <3>3. CASE doc[s] = "expired"
            <4>1. \A t \in Sessions: doc'[t] = doc[t]
                BY <2>2, <3>1, <3>3
            <4>2. /\ doc \in [Sessions -> Statuses \cup {Absent}]
                  /\ doc' \in [Sessions -> Statuses \cup {Absent}]
                BY <1>2, Replaced DEF SessionsInv, TypeOK, Documents
            <4>3. doc' = doc
                BY <4>1, <4>2
            <4>4. QED
                BY <1>2, <2>1, <4>3, QuietStep
        <3>4. QED
            BY <3>1, <3>2, <3>3
    <2>8. QED
        BY <2>6, <2>7
<1>3. ASSUME NEW p \in Procs, Redeem(p) \/ Resend(p), clean'
      PROVE  Lifecycle!Advance(job[p].session) \/ UNCHANGED Lifecycle!lvars
    <2> PICK s \in Sessions: s = job[p].session
        BY <1>3, JobFields DEF SessionsInv
    <2>1. /\ clean /\ doc' = doc /\ doc[s] = "consumed"
          /\ redeemed'[s] = 1 /\ sends'[s] <= MaxAttempts
          /\ \A t \in Sessions \ {s}: redeemed'[t] = redeemed[t] /\ sends'[t] = sends[t]
        <3>1. /\ clean /\ doc' = doc
              /\ \A t \in Sessions \ {s}: redeemed'[t] = redeemed[t] /\ sends'[t] = sends[t]
            BY <1>3, Sent
        <3>2. /\ doc[s] = "consumed" /\ redeemed'[s] = 1
              /\ sends'[s] = job'[p].attempt /\ job'[p].attempt \in 1..MaxAttempts
            BY <1>3, <3>1, SentCounts
        <3>3. QED
            BY <3>1, <3>2, SessionsAssumption
    <2>2. PhaseOf(s)' = "redeemed" /\ \A t \in Sessions \ {s}: PhaseOf(t)' = PhaseOf(t)
        BY <2>1 DEF PhaseOf
    <2>3. CASE Redeem(p)
        <3>1. redeemed[s] = 0
            BY <2>1, <2>3 DEF Redeem, SessionsInv, CleanShape
        <3>2. PhaseOf(s) = "spent"
            BY <2>1, <3>1 DEF PhaseOf
        <3>3. QED
            BY <1>3, <2>1, <2>2, <3>2, ForwardStep DEF Lifecycle!Forward
    <2>4. CASE Resend(p)
        <3>1. redeemed[s] = 1 /\ sends[s] <= MaxAttempts
            BY <2>1, <2>4 DEF Resend, SessionsInv, CleanShape
        <3>2. PhaseOf(s) = "redeemed"
            BY <3>1 DEF PhaseOf
        <3>3. \A t \in Sessions: PhaseOf(t)' = PhaseOf(t)
            BY <2>2, <3>2
        <3>4. QED
            BY <1>3, <2>1, <3>3 DEF Phase, Lifecycle!lvars
    <2>5. QED
        BY <1>3, <2>3, <2>4
<1>4. ASSUME NEW p \in Procs,
             \/ \E s \in Sessions: StartCreate(p, s)
             \/ \E s \in Sessions, match \in BOOLEAN: StartExchange(p, s, match)
             \/ GetSession(p) \/ Reject(p) \/ FindExpired(p) \/ Accept(p)
             \/ SaveReads(p) \/ Answered(p) \/ Stop(p)
      PROVE  UNCHANGED Lifecycle!lvars
    BY <1>4, QuietStep
       DEF StartCreate, StartExchange, GetSession, Reject, FindExpired, Accept, SaveReads,
           Answered, Stop, history
<1>5. ASSUME NEW s \in Sessions, ClockMoves(s)
      PROVE  UNCHANGED Lifecycle!lvars
    BY <1>5, QuietStep DEF ClockMoves, history
<1>6. CASE UNCHANGED vars
    BY <1>6, QuietStep DEF vars
<1>7. \A p \in Procs: SaveReplaces(p) \/ Redeem(p) \/ Resend(p) => job[p].session \in Sessions
    BY JobFields DEF SessionsInv
<1>8. QED
    BY <1>1, <1>2, <1>3, <1>4, <1>5, <1>6, <1>7 DEF Next, Lifecycle!LNext

\* Unless commands overlapped harmfully, every session follows its life.
THEOREM SessionsFollowLifecycle == Spec => FollowsLifecycle
<1>1. QED
    BY InitIsLifecycleInit, StepFollowsLifecycle, SessionsInvariant, PTL
       DEF Spec, FollowsLifecycle, Lifecycle!LSpec
=============================================================================
