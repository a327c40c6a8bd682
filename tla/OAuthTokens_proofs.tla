------------------------- MODULE OAuthTokens_proofs -------------------------
(***************************************************************************)
(* TokensInv of OAuthTokens is inductive, for any number of processes and  *)
(* profiles and any pool of refresh tokens.                                *)
(***************************************************************************)
EXTENDS OAuthTokens, TLAPS

USE TokensAssumption DEF document

\* The idle job is a job.
LEMMA IdleIsJob ==
    /\ Idle \in Jobs
    /\ Idle.pc = "idle" /\ Idle.command = "get"
    /\ Idle.held = NoRefresh /\ Idle.answer = NoRefresh
    /\ Idle.snap = EmptyDocument /\ Idle.attempt = 1
<1>1. (CHOOSE prof \in Profiles: TRUE) \in Profiles
    OBVIOUS
<1>2. EmptyDocument \in Documents
    BY DEF EmptyDocument, Documents
<1>3. QED
    BY <1>1, <1>2 DEF Idle, Jobs, Steps, TokenSets

\* A step of one process leaves the jobs of the others alone.
LEMMA OneJobMoves ==
    ASSUME job \in [Procs -> Jobs], NEW p \in Procs, NEW j \in Jobs, Goto(p, j)
    PROVE  /\ job' \in [Procs -> Jobs]
           /\ job'[p] = j
           /\ \A q \in Procs \ {p}: job'[q] = job[q]
BY DEF Goto

\* Nothing is stored, held or issued at first.
LEMMA InitTokensInv == Init => TokensInv
<1> SUFFICES ASSUME Init PROVE TokensInv
    OBVIOUS
<1>1. \A p \in Procs: job[p] = Idle
    BY DEF Init
<1>2. TypeOK
    BY <1>1, IdleIsJob DEF Init, TypeOK, EmptyDocument, Documents
<1>3. CommandShape
    BY <1>1, IdleIsJob DEF CommandShape, HoldsRotated
<1>4. Provenance
    BY <1>1, IdleIsJob DEF Init, Provenance, EmptyDocument
<1>5. Reusable
    BY DEF Init, Reusable
<1>6. SecretsPrivate
    BY <1>1, IdleIsJob DEF SecretsPrivate, Secret
<1>7. CredentialLive /\ QuietLogoutIsFinal
    BY DEF Init, CredentialLive, QuietLogoutIsFinal, EmptyDocument
<1>8. QED
    BY <1>2, <1>3, <1>4, <1>5, <1>6, <1>7 DEF TokensInv

\* A command that ends without writing, for whatever reason.
LEMMA EndKeepsInv ==
    ASSUME TokensInv, NEW p \in Procs, End(p),
           UNCHANGED <<document, server, quiet>>, clean' \in BOOLEAN,
           clean' => clean /\ ~HoldsRotated(p)
    PROVE  TokensInv'
<1>1. /\ job' \in [Procs -> Jobs]
      /\ job'[p] = Idle
      /\ \A q \in Procs \ {p}: job'[q] = job[q]
    BY IdleIsJob, OneJobMoves DEF End, TokensInv, TypeOK
<1>2. UNCHANGED <<document, singleUse, live, issued, quiet>>
    BY DEF server
<1>3. TypeOK'
    BY <1>1, <1>2 DEF TokensInv, TypeOK
<1>4. CommandShape'
    BY <1>1, <1>2, IdleIsJob DEF TokensInv, CommandShape, HoldsRotated
<1>5. Provenance'
    BY <1>1, <1>2, IdleIsJob DEF TokensInv, Provenance, EmptyDocument
<1>6. Reusable'
    BY <1>2 DEF TokensInv, Reusable
<1>7. SecretsPrivate'
    BY <1>1, <1>2, IdleIsJob DEF TokensInv, SecretsPrivate, Secret, EmptyDocument
<1>8. CredentialLive'
    BY <1>1, <1>2 DEF TokensInv, CredentialLive, HoldsRotated
<1>9. QuietLogoutIsFinal'
    BY <1>1, <1>2, IdleIsJob DEF TokensInv, QuietLogoutIsFinal, EmptyDocument
<1>10. QED
    BY <1>3, <1>4, <1>5, <1>6, <1>7, <1>8, <1>9 DEF TokensInv

\* A command is started: login, logout or any use of an access token.
LEMMA StartKeepsInv ==
    ASSUME TokensInv, NEW p \in Procs, NEW prof \in Profiles,
           StartLogout(p, prof) \/ StartGet(p, prof)
    PROVE  TokensInv'
<1>1. PICK j \in Jobs:
         /\ Goto(p, j) /\ j.profile = prof
         /\ j.snap = EmptyDocument /\ j.answer = NoRefresh
         /\ \/ j.pc = "save" /\ j.command = "logout" /\ j.held = Absent
            \/ j.pc = "get" /\ j.command = "get" /\ j.held = NoRefresh
    <2>1. [Idle EXCEPT !.pc = "save", !.command = "logout", !.profile = prof,
                       !.held = Absent] \in Jobs
        BY IdleIsJob DEF Jobs, Steps
    <2>2. [Idle EXCEPT !.pc = "get", !.profile = prof] \in Jobs
        BY IdleIsJob DEF Jobs, Steps
    <2>3. QED
        BY <2>1, <2>2, IdleIsJob DEF StartLogout, StartGet, Jobs
<1>2. /\ job' \in [Procs -> Jobs]
      /\ job'[p] = j
      /\ \A q \in Procs \ {p}: job'[q] = job[q]
    BY <1>1, OneJobMoves DEF TokensInv, TypeOK
<1>3. /\ UNCHANGED <<document, singleUse, live, issued, clean, quiet>>
      /\ job[p].pc = "idle"
    BY DEF StartLogout, StartGet, server
<1>4. TypeOK'
    BY <1>2, <1>3 DEF TokensInv, TypeOK
<1>5. CommandShape'
    BY <1>1, <1>2, <1>3 DEF TokensInv, CommandShape, HoldsRotated
<1>6. Provenance'
    BY <1>1, <1>2, <1>3 DEF TokensInv, Provenance, EmptyDocument
<1>7. Reusable'
    BY <1>3 DEF TokensInv, Reusable
<1>8. SecretsPrivate'
    BY <1>1, <1>2, <1>3 DEF TokensInv, SecretsPrivate, Secret, EmptyDocument
<1>9. CredentialLive'
    BY <1>2, <1>3 DEF TokensInv, CredentialLive, HoldsRotated
<1>10. QuietLogoutIsFinal'
    BY <1>1, <1>2, <1>3 DEF TokensInv, QuietLogoutIsFinal, EmptyDocument
<1>11. QED
    BY <1>4, <1>5, <1>6, <1>7, <1>8, <1>9, <1>10 DEF TokensInv

\* The token set of a new grant is known to the login that saves it only.
LEMMA StartLoginKeepsInv ==
    ASSUME TokensInv, NEW p \in Procs, NEW prof \in Profiles, StartLogin(p, prof)
    PROVE  TokensInv'
<1>1. PICK new \in Unissued \cup {NoRefresh}:
         /\ Goto(p, [Idle EXCEPT !.pc = "save", !.command = "login",
                                 !.profile = prof, !.held = new])
         /\ live' = [live EXCEPT ![prof] = @ \cup ({new} \ {NoRefresh})]
         /\ issued' = [issued EXCEPT ![prof] = @ \cup ({new} \ {NoRefresh})]
    BY DEF StartLogin
<1> DEFINE j == [Idle EXCEPT !.pc = "save", !.command = "login",
                             !.profile = prof, !.held = new]
<1>2. /\ j \in Jobs /\ j.pc = "save" /\ j.command = "login" /\ j.profile = prof
      /\ j.held = new /\ j.answer = NoRefresh /\ j.snap = EmptyDocument
    BY IdleIsJob DEF Jobs, Steps, TokenSets, Unissued
<1> HIDE DEF j
<1>3. /\ job' \in [Procs -> Jobs]
      /\ job'[p] = j
      /\ \A q \in Procs \ {p}: job'[q] = job[q]
    BY <1>1, <1>2, OneJobMoves DEF TokensInv, TypeOK, j
<1>4. /\ UNCHANGED <<document, singleUse, clean>>
      /\ job[p].pc = "idle"
      /\ quiet' = [quiet EXCEPT ![prof] = FALSE]
    BY DEF StartLogin
<1>5. /\ new \in RefreshTokens \cup {NoRefresh}
      /\ \A other \in Profiles: new \notin issued[other]
    BY DEF Unissued, TokensInv, TypeOK
<1>6. TypeOK'
    BY <1>1, <1>3, <1>4, <1>5 DEF TokensInv, TypeOK
<1>7. CommandShape'
    BY <1>2, <1>3, <1>4, <1>5 DEF TokensInv, CommandShape, HoldsRotated
<1>8. Provenance'
    BY <1>1, <1>2, <1>3, <1>4, <1>5 DEF TokensInv, TypeOK, Provenance, EmptyDocument
<1>9. Reusable'
    BY <1>1, <1>4 DEF TokensInv, Reusable
<1>10. SecretsPrivate'
    <2>1. /\ Secret(p)' = new
          /\ \A q \in Procs \ {p}: Secret(q)' = Secret(q)
        BY <1>2, <1>3 DEF Secret
    <2>2. new \in RefreshTokens =>
             /\ new \in live'[prof]
             /\ \A other \in Profiles: doc[other] # new
             /\ \A q \in Procs:
                   /\ job[q].held # new /\ job[q].answer # new
                   /\ \A other \in Profiles: job[q].snap[other] # new
        BY <1>1, <1>5 DEF TokensInv, TypeOK, Provenance, Jobs
    <2>3. \A q \in Procs: job[q].profile \in Profiles /\ live[job[q].profile] \subseteq issued[job[q].profile]
        BY DEF TokensInv, TypeOK, Jobs, Provenance
    <2>4. \A other \in Profiles: live[other] \subseteq live'[other]
        BY <1>1 DEF TokensInv, TypeOK
    <2>5. SUFFICES ASSUME singleUse', NEW q \in Procs, Secret(q)' \in RefreshTokens
                   PROVE  /\ Secret(q)' \in live'[job'[q].profile]
                          /\ \A other \in Profiles: doc'[other] # Secret(q)'
                          /\ \A r \in Procs \ {q}:
                                /\ job'[r].held # Secret(q)'
                                /\ job'[r].answer # Secret(q)'
                                /\ \A other \in Profiles: job'[r].snap[other] # Secret(q)'
        BY DEF SecretsPrivate
    <2>6. CASE q = p
        BY <1>2, <1>3, <1>4, <2>1, <2>2, <2>5, <2>6
    <2>7. CASE q # p
        <3>1. /\ Secret(q) \in live[job[q].profile]
              /\ \A other \in Profiles: doc[other] # Secret(q)
              /\ \A r \in Procs \ {q}:
                    /\ job[r].held # Secret(q) /\ job[r].answer # Secret(q)
                    /\ \A other \in Profiles: job[r].snap[other] # Secret(q)
            BY <1>4, <2>1, <2>5, <2>7 DEF TokensInv, SecretsPrivate
        <3>2. new # Secret(q)
            BY <1>5, <2>3, <2>5, <2>1, <2>7, <3>1
        <3>3. QED
            BY <1>2, <1>3, <1>4, <2>1, <2>3, <2>4, <2>5, <2>7, <3>1, <3>2 DEF EmptyDocument
    <2>8. QED
        BY <2>6, <2>7
<1>11. CredentialLive'
    BY <1>1, <1>3, <1>4 DEF TokensInv, TypeOK, CredentialLive, HoldsRotated
<1>12. QuietLogoutIsFinal'
    BY <1>2, <1>3, <1>4 DEF TokensInv, TypeOK, QuietLogoutIsFinal, EmptyDocument
<1>13. QED
    BY <1>6, <1>7, <1>8, <1>9, <1>10, <1>11, <1>12 DEF TokensInv

\* The refresh request is prepared from the stored set, or repeated.
LEMMA RequestKeepsInv ==
    ASSUME TokensInv, NEW p \in Procs, GetNeedsRefresh(p) \/ PostRetries(p)
    PROVE  TokensInv'
<1>1. PICK j \in Jobs:
         /\ Goto(p, j) /\ j.pc = "post" /\ j.command = "get"
         /\ j.profile = job[p].profile /\ j.snap = job[p].snap
         /\ j.answer = job[p].answer /\ j.held \in RefreshTokens
         /\ j.held = job[p].held \/ j.held = doc[job[p].profile]
    <2>1. job[p] \in Jobs
        BY DEF TokensInv, TypeOK
    <2>2. CASE GetNeedsRefresh(p)
        <3> DEFINE j == [job[p] EXCEPT !.pc = "post", !.held = doc[job[p].profile]]
        <3>1. doc[job[p].profile] \in RefreshTokens /\ job[p].command = "get"
            BY <2>2 DEF GetNeedsRefresh, TokensInv, CommandShape
        <3>2. /\ j \in Jobs /\ j.pc = "post" /\ j.command = "get"
              /\ j.profile = job[p].profile /\ j.snap = job[p].snap
              /\ j.answer = job[p].answer /\ j.held = doc[job[p].profile]
            BY <2>1, <3>1 DEF Jobs, Steps, TokenSets
        <3>3. Goto(p, j)
            BY <2>2 DEF GetNeedsRefresh
        <3>4. QED
            BY <3>1, <3>2, <3>3
    <2>3. CASE PostRetries(p)
        BY <2>1, <2>3 DEF PostRetries, TokensInv, CommandShape, Jobs
    <2>4. QED
        BY <2>2, <2>3
<1>2. /\ job' \in [Procs -> Jobs]
      /\ job'[p] = j
      /\ \A q \in Procs \ {p}: job'[q] = job[q]
    BY <1>1, OneJobMoves DEF TokensInv, TypeOK
<1>3. /\ UNCHANGED <<document, singleUse, live, issued, clean, quiet>>
      /\ job[p].pc \in {"get", "post"}
      /\ doc[job[p].profile] \in RefreshTokens \/ job[p].pc = "post"
      /\ job[p].profile \in Profiles
    BY DEF GetNeedsRefresh, PostRetries, server, TokensInv, TypeOK, Jobs
<1>4. TypeOK'
    BY <1>2, <1>3 DEF TokensInv, TypeOK
<1>5. CommandShape'
    BY <1>1, <1>2, <1>3 DEF TokensInv, CommandShape, HoldsRotated
<1>6. Provenance'
    BY <1>1, <1>2, <1>3 DEF TokensInv, Provenance
<1>7. Reusable'
    BY <1>3 DEF TokensInv, Reusable
<1>8. SecretsPrivate'
    BY <1>1, <1>2, <1>3 DEF TokensInv, SecretsPrivate, Secret
<1>9. CredentialLive'
    BY <1>1, <1>2, <1>3 DEF TokensInv, CredentialLive, HoldsRotated
<1>10. QuietLogoutIsFinal'
    BY <1>1, <1>2, <1>3 DEF TokensInv, TypeOK, QuietLogoutIsFinal, CommandShape
<1>11. QED
    BY <1>4, <1>5, <1>6, <1>7, <1>8, <1>9, <1>10 DEF TokensInv

\* What the uniqueness of single-use tokens says of one process's secret.
LEMMA SecretFacts ==
    ASSUME SecretsPrivate, singleUse, NEW p \in Procs, Secret(p) \in RefreshTokens
    PROVE  /\ Secret(p) \in live[job[p].profile]
           /\ \A prof \in Profiles: doc[prof] # Secret(p)
           /\ \A q \in Procs \ {p}:
                 /\ job[q].held # Secret(p)
                 /\ job[q].answer # Secret(p)
                 /\ \A prof \in Profiles: job[q].snap[prof] # Secret(p)
BY DEF SecretsPrivate

\* The server accepts the refresh token and replaces it.
LEMMA RotationKeepsInv ==
    ASSUME TokensInv, NEW p \in Procs, ServerRefreshes(p), singleUse
    PROVE  TokensInv'
<1> DEFINE prof == job[p].profile
           old == job[p].held
<1>1. PICK new \in Unissued:
         /\ Goto(p, [job[p] EXCEPT !.pc = "reply", !.answer = new])
         /\ live' = [live EXCEPT ![prof] = (@ \ {old}) \cup {new}]
         /\ issued' = [issued EXCEPT ![prof] = @ \cup {new}]
    BY DEF ServerRefreshes
<1> DEFINE j == [job[p] EXCEPT !.pc = "reply", !.answer = new]
<1>2. /\ UNCHANGED <<document, singleUse, clean, quiet>>
      /\ job[p] \in Jobs /\ prof \in Profiles
      /\ job[p].pc = "post" /\ job[p].command = "get"
      /\ old \in live[prof]
    BY DEF ServerRefreshes, TokensInv, TypeOK, Jobs, CommandShape
<1>3. /\ new \in RefreshTokens
      /\ \A other \in Profiles: new \notin issued[other]
    BY DEF Unissued, TokensInv, TypeOK
<1>4. /\ j \in Jobs /\ j.pc = "reply" /\ j.command = "get" /\ j.profile = prof
      /\ j.held = old /\ j.answer = new /\ j.snap = job[p].snap
    BY <1>2, <1>3 DEF Jobs, Steps, TokenSets
<1> HIDE DEF j
<1>5. /\ job' \in [Procs -> Jobs]
      /\ job'[p] = j
      /\ \A q \in Procs \ {p}: job'[q] = job[q]
    BY <1>1, <1>4, OneJobMoves DEF TokensInv, TypeOK, j
<1>6. TypeOK'
    BY <1>1, <1>2, <1>3, <1>5 DEF TokensInv, TypeOK
<1>7. CommandShape'
    BY <1>2, <1>3, <1>4, <1>5 DEF TokensInv, CommandShape, HoldsRotated
<1>8. Provenance'
    BY <1>1, <1>2, <1>3, <1>4, <1>5 DEF TokensInv, TypeOK, Provenance
<1>9. Reusable'
    BY <1>2 DEF Reusable
<1>10. SecretsPrivate'
    <2>1. /\ Secret(p)' = new
          /\ \A q \in Procs \ {p}: Secret(q)' = Secret(q)
        BY <1>4, <1>5 DEF Secret
    <2>2. /\ new \in live'[prof]
          /\ \A other \in Profiles: doc[other] # new
          /\ \A q \in Procs:
                /\ job[q].held # new /\ job[q].answer # new
                /\ \A other \in Profiles: job[q].snap[other] # new
        BY <1>1, <1>2, <1>3 DEF TokensInv, TypeOK, Provenance, Jobs
    <2>3. \A q \in Procs: /\ job[q].profile \in Profiles
                          /\ live[job[q].profile] \subseteq issued[job[q].profile]
        BY DEF TokensInv, TypeOK, Jobs, Provenance
    <2>4. \A other \in Profiles: live[other] \subseteq live'[other] \cup {old}
        BY <1>1, <1>2 DEF TokensInv, TypeOK
    <2>5. SUFFICES ASSUME NEW q \in Procs, Secret(q)' \in RefreshTokens
                   PROVE  /\ Secret(q)' \in live'[job'[q].profile]
                          /\ \A other \in Profiles: doc'[other] # Secret(q)'
                          /\ \A r \in Procs \ {q}:
                                /\ job'[r].held # Secret(q)'
                                /\ job'[r].answer # Secret(q)'
                                /\ \A other \in Profiles: job'[r].snap[other] # Secret(q)'
        BY DEF SecretsPrivate
    <2>6. CASE q = p
        BY <1>2, <1>4, <1>5, <2>1, <2>2, <2>6
    <2>7. CASE q # p
        <3>1. /\ Secret(q) \in live[job[q].profile]
              /\ \A other \in Profiles: doc[other] # Secret(q)
              /\ \A r \in Procs \ {q}:
                    /\ job[r].held # Secret(q) /\ job[r].answer # Secret(q)
                    /\ \A other \in Profiles: job[r].snap[other] # Secret(q)
            BY <2>1, <2>5, <2>7, SecretFacts DEF TokensInv
        <3>2. new # Secret(q) /\ old # Secret(q)
            BY <1>3, <2>3, <2>7, <3>1
        <3>3. Secret(q) \in live'[job'[q].profile]
            BY <1>5, <2>3, <2>4, <2>7, <3>1, <3>2
        <3>4. QED
            BY <1>2, <1>4, <1>5, <2>1, <2>7, <3>1, <3>2, <3>3
    <2>8. QED
        BY <2>6, <2>7
<1>11. CredentialLive'
    <2>1. HoldsRotated(p)' /\ job'[p].profile = prof
        BY <1>2, <1>4, <1>5 DEF HoldsRotated
    <2>2. \A other \in Profiles \ {prof}: live'[other] = live[other]
        BY <1>1, <1>2 DEF TokensInv, TypeOK
    <2>3. \A q \in Procs: HoldsRotated(q) => HoldsRotated(q)' /\ job'[q].profile = job[q].profile
        BY <1>2, <1>5 DEF HoldsRotated
    <2>4. QED
        BY <1>2, <2>1, <2>2, <2>3 DEF TokensInv, CredentialLive
<1>12. QuietLogoutIsFinal'
    BY <1>2, <1>4, <1>5 DEF TokensInv, QuietLogoutIsFinal
<1>13. QED
    BY <1>6, <1>7, <1>8, <1>9, <1>10, <1>11, <1>12 DEF TokensInv

\* The server accepts the refresh token and keeps it.
LEMMA ReuseKeepsInv ==
    ASSUME TokensInv, NEW p \in Procs, ServerRefreshes(p), ~singleUse
    PROVE  TokensInv'
<1>1. PICK same \in {job[p].held, NoRefresh}:
         Goto(p, [job[p] EXCEPT !.pc = "reply", !.answer = same])
    BY DEF ServerRefreshes
<1> DEFINE j == [job[p] EXCEPT !.pc = "reply", !.answer = same]
<1>2. /\ UNCHANGED <<document, singleUse, live, issued, clean, quiet>>
      /\ job[p] \in Jobs /\ job[p].profile \in Profiles
      /\ job[p].pc = "post" /\ job[p].command = "get" /\ job[p].held \in RefreshTokens
    BY DEF ServerRefreshes, TokensInv, TypeOK, Jobs, CommandShape
<1>3. /\ j \in Jobs /\ j.pc = "reply" /\ j.command = "get" /\ j.profile = job[p].profile
      /\ j.held = job[p].held /\ j.answer = same /\ j.snap = job[p].snap
    BY <1>2 DEF Jobs, Steps, TokenSets
<1> HIDE DEF j
<1>4. /\ job' \in [Procs -> Jobs]
      /\ job'[p] = j
      /\ \A q \in Procs \ {p}: job'[q] = job[q]
    BY <1>1, <1>3, OneJobMoves DEF TokensInv, TypeOK, j
<1>5. TypeOK'
    BY <1>2, <1>4 DEF TokensInv, TypeOK
<1>6. CommandShape'
    BY <1>2, <1>3, <1>4 DEF TokensInv, CommandShape, HoldsRotated
<1>7. Provenance'
    BY <1>2, <1>3, <1>4 DEF TokensInv, Provenance
<1>8. Reusable'
    BY <1>2 DEF TokensInv, Reusable
<1>9. (CredentialLive /\ SecretsPrivate)'
    BY <1>2, <1>7, <1>8 DEF Provenance, Reusable, CredentialLive, SecretsPrivate
<1>10. QuietLogoutIsFinal'
    BY <1>2, <1>3, <1>4 DEF TokensInv, QuietLogoutIsFinal
<1>11. QED
    BY <1>5, <1>6, <1>7, <1>8, <1>9, <1>10 DEF TokensInv

\* The answer is lost and the same request goes out again.
LEMMA ReplyLostKeepsInv ==
    ASSUME TokensInv, NEW p \in Procs, ReplyLost(p)
    PROVE  TokensInv'
<1> DEFINE j == [job[p] EXCEPT !.pc = "post", !.answer = NoRefresh, !.attempt = @ + 1]
<1>1. /\ UNCHANGED <<document, singleUse, live, issued, quiet>>
      /\ clean' = (clean /\ ~singleUse)
      /\ job[p] \in Jobs /\ job[p].profile \in Profiles
      /\ job[p].pc = "reply" /\ job[p].command = "get" /\ job[p].held \in RefreshTokens
    BY DEF ReplyLost, server, TokensInv, TypeOK, Jobs, CommandShape
<1>2. /\ j \in Jobs /\ j.pc = "post" /\ j.command = "get" /\ j.profile = job[p].profile
      /\ j.held = job[p].held /\ j.answer = NoRefresh /\ j.snap = job[p].snap
    <2>1. job[p].attempt + 1 \in 1..MaxAttempts
        BY <1>1 DEF ReplyLost, Jobs
    <2>2. "post" \in Steps /\ NoRefresh \in TokenSets
        BY DEF Steps, TokenSets
    <2>3. QED
        BY <1>1, <2>1, <2>2 DEF Jobs
<1>3. Goto(p, j)
    BY DEF ReplyLost
<1> HIDE DEF j
<1>4. /\ job' \in [Procs -> Jobs]
      /\ job'[p] = j
      /\ \A q \in Procs \ {p}: job'[q] = job[q]
    BY <1>2, <1>3, OneJobMoves DEF TokensInv, TypeOK
<1>5. TypeOK'
    <2>1. clean' \in BOOLEAN
        BY <1>1, Zenon
    <2>2. QED
        BY <1>1, <1>4, <2>1 DEF TokensInv, TypeOK
<1>6. CommandShape'
    BY <1>1, <1>2, <1>4 DEF TokensInv, CommandShape, HoldsRotated
<1>7. Provenance'
    BY <1>1, <1>2, <1>4 DEF TokensInv, Provenance
<1>8. Reusable'
    BY <1>1 DEF TokensInv, Reusable
<1>9. SecretsPrivate'
    BY <1>1, <1>2, <1>4 DEF TokensInv, SecretsPrivate, Secret
<1>10. CredentialLive'
    <2>1. CASE singleUse
        BY <1>1, <2>1 DEF CredentialLive
    <2>2. CASE ~singleUse
        BY <1>1, <1>7, <1>8, <2>2 DEF Provenance, Reusable, CredentialLive
    <2>3. QED
        BY <2>1, <2>2
<1>11. QuietLogoutIsFinal'
    BY <1>1, <1>2, <1>4 DEF TokensInv, QuietLogoutIsFinal
<1>12. QED
    BY <1>5, <1>6, <1>7, <1>8, <1>9, <1>10, <1>11 DEF TokensInv

\* The answer becomes the token set to store.
LEMMA ReplyArrivesKeepsInv ==
    ASSUME TokensInv, NEW p \in Procs, ReplyArrives(p)
    PROVE  TokensInv'
<1> DEFINE j == [Idle EXCEPT !.pc = "save", !.profile = job[p].profile,
                             !.held = Refreshed(p)]
<1>1. /\ UNCHANGED <<document, singleUse, live, issued, clean, quiet>>
      /\ job[p] \in Jobs /\ job[p].profile \in Profiles
      /\ job[p].pc = "reply" /\ job[p].command = "get" /\ job[p].held \in RefreshTokens
      /\ singleUse => job[p].answer \in RefreshTokens
    BY DEF ReplyArrives, server, TokensInv, TypeOK, Jobs, CommandShape
<1>2. /\ Refreshed(p) \in RefreshTokens
      /\ Refreshed(p) \in {job[p].held, job[p].answer}
      /\ singleUse => Refreshed(p) = job[p].answer
    BY <1>1 DEF Refreshed, Jobs, TokenSets
<1>3. /\ j \in Jobs /\ j.pc = "save" /\ j.command = "get" /\ j.profile = job[p].profile
      /\ j.held = Refreshed(p) /\ j.answer = NoRefresh /\ j.snap = EmptyDocument
    BY <1>1, <1>2, IdleIsJob DEF Jobs, Steps, TokenSets
<1>4. Goto(p, j)
    BY DEF ReplyArrives
<1> HIDE DEF j
<1>5. /\ job' \in [Procs -> Jobs]
      /\ job'[p] = j
      /\ \A q \in Procs \ {p}: job'[q] = job[q]
    BY <1>3, <1>4, OneJobMoves DEF TokensInv, TypeOK
<1>6. TypeOK'
    BY <1>1, <1>5 DEF TokensInv, TypeOK
<1>7. CommandShape'
    BY <1>1, <1>2, <1>3, <1>5 DEF TokensInv, CommandShape, HoldsRotated
<1>8. Provenance'
    <2>1. job[p].held \in issued[job[p].profile] /\ job[p].answer \in issued[job[p].profile] \cup {NoRefresh}
        BY <1>1 DEF TokensInv, Provenance
    <2>2. QED
        BY <1>1, <1>2, <1>3, <1>5, <2>1 DEF TokensInv, Provenance, EmptyDocument
<1>9. Reusable'
    BY <1>1 DEF TokensInv, Reusable
<1>10. SecretsPrivate'
    <2>1. singleUse => Secret(p)' = Secret(p)
        BY <1>1, <1>2, <1>3, <1>5 DEF Secret
    <2>2. \A q \in Procs \ {p}: Secret(q)' = Secret(q)
        BY <1>5 DEF Secret
    <2>3. \A q \in Procs \ {p}: singleUse /\ Secret(q) \in RefreshTokens =>
              Refreshed(p) # Secret(q)
        BY <1>1, <1>2 DEF TokensInv, SecretsPrivate
    <2>4. QED
        BY <1>1, <1>3, <1>5, <2>1, <2>2, <2>3 DEF TokensInv, SecretsPrivate, EmptyDocument
<1>11. CredentialLive'
    <2>1. \A q \in Procs: HoldsRotated(q) => HoldsRotated(q)' /\ job'[q].profile = job[q].profile
        BY <1>1, <1>3, <1>5 DEF HoldsRotated
    <2>2. QED
        BY <1>1, <2>1 DEF TokensInv, CredentialLive
<1>12. QuietLogoutIsFinal'
    BY <1>1, <1>3, <1>5 DEF TokensInv, QuietLogoutIsFinal, EmptyDocument
<1>13. QED
    BY <1>6, <1>7, <1>8, <1>9, <1>10, <1>11, <1>12 DEF TokensInv

\* The first half of a save: the document is read.
LEMMA SaveReadsKeepsInv ==
    ASSUME TokensInv, NEW p \in Procs, SaveReads(p)
    PROVE  TokensInv'
<1> DEFINE j == [job[p] EXCEPT !.pc = "replace", !.snap = doc]
<1>1. /\ UNCHANGED <<document, singleUse, live, issued, clean, quiet>>
      /\ job[p] \in Jobs /\ job[p].pc = "save" /\ doc \in Documents
    BY DEF SaveReads, server, TokensInv, TypeOK
<1>2. /\ j \in Jobs /\ j.pc = "replace" /\ j.command = job[p].command
      /\ j.profile = job[p].profile /\ j.held = job[p].held
      /\ j.answer = job[p].answer /\ j.snap = doc
    BY <1>1 DEF Jobs, Steps
<1>3. Goto(p, j)
    BY DEF SaveReads
<1> HIDE DEF j
<1>4. /\ job' \in [Procs -> Jobs]
      /\ job'[p] = j
      /\ \A q \in Procs \ {p}: job'[q] = job[q]
    BY <1>2, <1>3, OneJobMoves DEF TokensInv, TypeOK
<1>5. TypeOK'
    BY <1>1, <1>4 DEF TokensInv, TypeOK
<1>6. CommandShape'
    BY <1>1, <1>2, <1>4 DEF TokensInv, CommandShape, HoldsRotated
<1>7. Provenance'
    BY <1>1, <1>2, <1>4 DEF TokensInv, Provenance
<1>8. Reusable'
    BY <1>1 DEF TokensInv, Reusable
<1>9. SecretsPrivate'
    <2>1. \A q \in Procs: Secret(q)' = Secret(q)
        BY <1>1, <1>2, <1>4 DEF Secret
    <2>2. QED
        BY <1>1, <1>2, <1>4, <2>1 DEF TokensInv, SecretsPrivate
<1>10. CredentialLive'
    <2>1. \A q \in Procs: HoldsRotated(q) => HoldsRotated(q)' /\ job'[q].profile = job[q].profile
        BY <1>1, <1>2, <1>4 DEF HoldsRotated
    <2>2. QED
        BY <1>1, <2>1 DEF TokensInv, CredentialLive
<1>11. QuietLogoutIsFinal'
    BY <1>1, <1>2, <1>4 DEF TokensInv, QuietLogoutIsFinal
<1>12. QED
    BY <1>5, <1>6, <1>7, <1>8, <1>9, <1>10, <1>11 DEF TokensInv

\* The second half: the document is replaced by the one read, changed.
LEMMA SaveReplacesKeepsInv ==
    ASSUME TokensInv, NEW p \in Procs, SaveReplaces(p)
    PROVE  TokensInv'
<1> DEFINE prof == job[p].profile
           held == job[p].held
           snap == job[p].snap
<1>1. /\ UNCHANGED <<singleUse, live, issued>>
      /\ doc' = [snap EXCEPT ![prof] = held]
      /\ End(p)
      /\ clean' = (clean /\ snap = doc)
      /\ quiet' = IF job[p].command = "logout" /\ OthersIdle(p)
                  THEN [quiet EXCEPT ![prof] = TRUE] ELSE quiet
      /\ job[p].pc = "replace"
    BY DEF SaveReplaces, Written, server
<1>2. /\ prof \in Profiles /\ held \in TokenSets \cup {Absent} /\ snap \in Documents
      /\ job[p].command = "logout" <=> held = Absent
    BY DEF TokensInv, TypeOK, Jobs, CommandShape
<1>3. /\ job' \in [Procs -> Jobs]
      /\ job'[p] = Idle
      /\ \A q \in Procs \ {p}: job'[q] = job[q]
    BY <1>1, IdleIsJob, OneJobMoves DEF End, TokensInv, TypeOK
<1>4. /\ doc' \in Documents
      /\ doc'[prof] = held
      /\ \A other \in Profiles \ {prof}: doc'[other] = snap[other]
    BY <1>1, <1>2 DEF Documents
<1>5. TypeOK'
    <2>1. clean' \in BOOLEAN
        BY <1>1, Zenon
    <2>2. quiet' \in [Profiles -> BOOLEAN]
        BY <1>1, <1>2 DEF TokensInv, TypeOK
    <2>3. past' \in [Profiles -> SUBSET RefreshTokens]
        BY DEF SaveReplaces, TokensInv, TypeOK
    <2>4. torn' \in BOOLEAN
        BY Zenon DEF SaveReplaces
    <2>5. QED
        BY <1>1, <1>3, <1>4, <2>1, <2>2, <2>3, <2>4 DEF TokensInv, TypeOK
<1>6. CommandShape'
    BY <1>1, <1>3, IdleIsJob DEF TokensInv, CommandShape, HoldsRotated
<1>7. Provenance'
    <2>1. \A other \in Profiles: doc'[other] \in issued[other] \cup {NoRefresh, Absent}
        BY <1>2, <1>4 DEF TokensInv, Provenance
    <2>2. QED
        BY <1>1, <1>3, <2>1, IdleIsJob DEF TokensInv, Provenance, EmptyDocument
<1>8. Reusable'
    BY <1>1 DEF TokensInv, Reusable
<1>9. SecretsPrivate'
    <2>1. Secret(p)' \notin RefreshTokens /\ \A q \in Procs \ {p}: Secret(q)' = Secret(q)
        BY <1>3, IdleIsJob DEF Secret
    <2>2. \A q \in Procs \ {p}: singleUse /\ Secret(q) \in RefreshTokens =>
              \A other \in Profiles: doc'[other] # Secret(q)
        BY <1>2, <1>4 DEF TokensInv, SecretsPrivate
    <2>3. QED
        BY <1>1, <1>3, <2>1, <2>2, IdleIsJob DEF TokensInv, SecretsPrivate, EmptyDocument
<1>10. CredentialLive'
    <2>1. CASE ~singleUse
        BY <1>1, <1>7, <1>8, <2>1 DEF Provenance, Reusable, CredentialLive
    <2>2. CASE singleUse
        <3>1. SUFFICES ASSUME clean', NEW other \in Profiles
                       PROVE  \/ doc'[other] \in live'[other] \cup {NoRefresh, Absent}
                              \/ \E q \in Procs: job'[q].profile = other /\ HoldsRotated(q)'
            BY DEF CredentialLive
        <3>2. clean /\ snap = doc
            BY <1>1, <3>1
        <3>3. CASE other = prof
            <4>1. Secret(p) = held
                BY <1>1 DEF Secret
            <4>2. held \in RefreshTokens => held \in live[prof]
                BY <2>2, <4>1, SecretFacts DEF TokensInv
            <4>3. QED
                BY <1>1, <1>2, <1>4, <3>3, <4>2 DEF TokenSets
        <3>4. CASE other # prof
            <4>1. doc'[other] = doc[other]
                BY <1>4, <3>2, <3>4
            <4>2. \A q \in Procs: job[q].profile = other /\ HoldsRotated(q) =>
                      job'[q].profile = other /\ HoldsRotated(q)'
                BY <1>1, <1>3, <3>4 DEF HoldsRotated
            <4>3. QED
                BY <1>1, <3>2, <4>1, <4>2 DEF TokensInv, CredentialLive
        <3>5. QED
            BY <3>3, <3>4
    <2>3. QED
        BY <2>1, <2>2
<1>11. QuietLogoutIsFinal'
    <2>1. SUFFICES ASSUME NEW other \in Profiles, quiet'[other]
                   PROVE  /\ doc'[other] = Absent
                          /\ \A q \in Procs:
                                /\ job'[q].profile = other /\ job'[q].pc # "idle"
                                      => job'[q].command = "logout" \/ job'[q].pc = "get"
                                /\ job'[q].snap[other] = Absent
        BY DEF QuietLogoutIsFinal
    <2>2. CASE quiet[other]
        BY <1>1, <1>2, <1>3, <1>4, <2>2, IdleIsJob DEF TokensInv, QuietLogoutIsFinal, EmptyDocument
    <2>3. CASE ~quiet[other]
        <3>1. other = prof /\ job[p].command = "logout" /\ OthersIdle(p)
            BY <1>1, <2>1, <2>3 DEF TokensInv, TypeOK
        <3>2. \A q \in Procs: job'[q] = Idle
            BY <1>3, <3>1 DEF OthersIdle, TokensInv, CommandShape
        <3>3. QED
            BY <1>2, <1>4, <3>1, <3>2, IdleIsJob DEF EmptyDocument
    <2>4. QED
        BY <2>2, <2>3
<1>12. QED
    BY <1>5, <1>6, <1>7, <1>8, <1>9, <1>10, <1>11 DEF TokensInv

\* Every way a command can end without writing is an instance of EndKeepsInv.
LEMMA AbandonKeepsInv ==
    ASSUME TokensInv, NEW p \in Procs,
           \/ GetEnds(p) \/ PostFails(p) \/ ReplyFails(p) \/ SaveFails(p) \/ Crash(p)
    PROVE  TokensInv'
<1>1. CASE GetEnds(p) \/ PostFails(p)
    <2>1. End(p) /\ UNCHANGED <<document, server, clean, quiet>> /\ ~HoldsRotated(p)
        BY <1>1 DEF GetEnds, PostFails, HoldsRotated
    <2>2. QED
        BY <2>1, EndKeepsInv DEF TokensInv, TypeOK
<1>2. CASE ReplyFails(p) \/ SaveFails(p) \/ Crash(p)
    <2>1. /\ End(p) /\ UNCHANGED <<document, server, quiet>>
          /\ clean' = (clean /\ ~HoldsRotated(p))
        BY <1>2 DEF ReplyFails, SaveFails, Crash, Abandon
    <2>2. clean' \in BOOLEAN
        BY <2>1, Zenon
    <2>3. QED
        BY <2>1, <2>2, EndKeepsInv
<1>3. QED
    BY <1>1, <1>2

\* One step of the system keeps the invariant.
LEMMA NextTokensInv == TokensInv /\ [Next]_vars => TokensInv'
<1> SUFFICES ASSUME TokensInv, [Next]_vars PROVE TokensInv'
    OBVIOUS
<1>1. CASE UNCHANGED vars
    <2>1. UNCHANGED <<document, job, singleUse, live, issued, clean, quiet>>
        BY <1>1 DEF vars
    <2>2. (TypeOK /\ CommandShape)'
        BY <2>1 DEF TokensInv, TypeOK, CommandShape, HoldsRotated
    <2>3. (Provenance /\ Reusable /\ SecretsPrivate)'
        BY <2>1 DEF TokensInv, Provenance, Reusable, SecretsPrivate, Secret
    <2>4. (CredentialLive /\ QuietLogoutIsFinal)'
        BY <2>1 DEF TokensInv, CredentialLive, QuietLogoutIsFinal, HoldsRotated
    <2>5. QED
        BY <2>2, <2>3, <2>4 DEF TokensInv
<1>2. CASE Next
    <2>1. PICK p \in Procs: Start(p) \/ Proceed(p) \/ Crash(p)
        BY <1>2 DEF Next
    <2>2. CASE Start(p)
        BY <2>2, StartKeepsInv, StartLoginKeepsInv DEF Start
    <2>3. CASE Crash(p)
        BY <2>3, AbandonKeepsInv
    <2>4. CASE Proceed(p)
        <3>1. CASE ServerRefreshes(p)
            BY <3>1, RotationKeepsInv, ReuseKeepsInv
        <3>2. CASE GetEnds(p) \/ PostFails(p) \/ ReplyFails(p) \/ SaveFails(p)
            BY <3>2, AbandonKeepsInv
        <3>3. CASE GetNeedsRefresh(p) \/ PostRetries(p)
            BY <3>3, RequestKeepsInv
        <3>4. CASE ReplyLost(p) \/ ReplyArrives(p)
            BY <3>4, ReplyLostKeepsInv, ReplyArrivesKeepsInv
        <3>5. CASE SaveReads(p) \/ SaveReplaces(p)
            BY <3>5, SaveReadsKeepsInv, SaveReplacesKeepsInv
        <3>6. QED
            BY <2>4, <3>1, <3>2, <3>3, <3>4, <3>5 DEF Proceed
    <2>5. QED
        BY <2>1, <2>2, <2>3, <2>4
<1>3. QED
    BY <1>1, <1>2

\* TokensInv holds in every reachable state.
THEOREM TokensInvariant == Spec => []TokensInv
BY InitTokensInv, NextTokensInv, PTL DEF Spec

\* Type correctness of the token document and its users.
THEOREM TokensTypeCorrect == Spec => []TypeOK
<1>1. TokensInv => TypeOK
    BY DEF TokensInv
<1>2. QED
    BY <1>1, TokensInvariant, PTL

\* What is stored under a profile was issued for that profile.
THEOREM TokensBelong == Spec => []EntriesBelongToProfile
<1>1. TokensInv => EntriesBelongToProfile
    BY DEF TokensInv, Provenance, EntriesBelongToProfile
<1>2. QED
    BY <1>1, TokensInvariant, PTL

\* A stored refresh token stays usable unless one of three things happened.
THEOREM TokensCredentialLive == Spec => []CredentialLive
<1>1. TokensInv => CredentialLive
    BY DEF TokensInv
<1>2. QED
    BY <1>1, TokensInvariant, PTL

\* A logout that ran alone is final.
THEOREM TokensQuietLogout == Spec => []QuietLogoutIsFinal
<1>1. TokensInv => QuietLogoutIsFinal
    BY DEF TokensInv
<1>2. QED
    BY <1>1, TokensInvariant, PTL

\* A refresh never costs a profile the ability to be refreshed: the token set
\* it stores keeps the old refresh token unless the answer brought a new one.
THEOREM TokensRefreshabilityKept == Spec => RefreshabilityKept
<1>1. ASSUME TokensInv, [Next]_vars, NEW prof \in Profiles,
             doc[prof] \in RefreshTokens, doc'[prof] = NoRefresh
      PROVE  \E p \in Procs:
                /\ job[p].pc = "replace"
                /\ \/ job[p].command = "login" /\ job[p].profile = prof
                   \/ job[p].profile # prof /\ job[p].snap[prof] = NoRefresh
    <2>1. doc' # doc
        BY <1>1, TokensAssumption
    <2>2. PICK p \in Procs: SaveReplaces(p)
        BY <1>1, <2>1
        DEF Next, Start, Proceed, Crash, StartLogin, StartLogout, StartGet, GetEnds, GetNeedsRefresh,
            PostRetries, PostFails, ServerRefreshes, ReplyLost, ReplyFails, ReplyArrives, SaveReads,
            SaveFails, Abandon, vars
    <2>3. /\ job[p].pc = "replace" /\ doc' = [job[p].snap EXCEPT ![job[p].profile] = job[p].held]
          /\ job[p] \in Jobs
        BY <1>1, <2>2 DEF SaveReplaces, Written, TokensInv, TypeOK
    <2>4. CASE job[p].profile = prof
        <3>1. job[p].held = NoRefresh
            BY <1>1, <2>3, <2>4 DEF Jobs, Documents
        <3>2. job[p].command = "login"
            BY <1>1, <2>3, <3>1, TokensAssumption DEF TokensInv, CommandShape, Jobs
        <3>3. QED
            BY <2>3, <2>4, <3>2
    <2>5. CASE job[p].profile # prof
        <3>1. job[p].snap[prof] = NoRefresh
            BY <1>1, <2>3, <2>5 DEF Jobs, Documents
        <3>2. QED
            BY <2>3, <2>5, <3>1
    <2>6. QED
        BY <2>4, <2>5
<1>2. TokensInv /\ [Next]_vars =>
        [\A prof \in Profiles:
          doc[prof] \in RefreshTokens /\ doc'[prof] = NoRefresh =>
             \E p \in Procs:
                /\ job[p].pc = "replace"
                /\ \/ job[p].command = "login" /\ job[p].profile = prof
                   \/ job[p].profile # prof /\ job[p].snap[prof] = NoRefresh]_vars
    BY <1>1
<1>3. QED
    BY <1>2, TokensInvariant, PTL DEF Spec, RefreshabilityKept

-----------------------------------------------------------------------------
(* The registers of the abstract specification. *)

\* Steps that store nothing leave what was read, or replace it by what the
\* document holds now.
LEMMA ReadingKeepsPast ==
    ASSUME RegistersInv, NEW p \in Procs, NEW j \in Jobs, Goto(p, j),
           UNCHANGED document,
           \A prof \in Profiles: issued[prof] \subseteq issued'[prof],
           j.snap \in {EmptyDocument, job[p].snap, doc},
           \/ j.pc \notin {"post", "reply"}
           \/ /\ j.profile = job[p].profile
              /\ \/ job[p].pc \in {"post", "reply"} /\ j.held = job[p].held
                 \/ j.held = doc[j.profile] /\ j.held \in RefreshTokens
    PROVE  PastShape'
<1>1. /\ job'[p] = j
      /\ \A q \in Procs \ {p}: job'[q] = job[q]
    BY OneJobMoves DEF RegistersInv, TokensInv, TypeOK
<1>2. SUFFICES ASSUME NEW prof \in Profiles, NEW q \in Procs
               PROVE  /\ doc[prof] \in past[prof] \cup {NoRefresh, Absent}
                      /\ past[prof] \subseteq issued'[prof]
                      /\ job'[q].snap[prof] \in past[prof] \cup {NoRefresh, Absent}
                      /\ job'[q].profile = prof /\ job'[q].pc \in {"post", "reply"}
                            => job'[q].held \in past[prof]
    BY DEF PastShape
<1>3. QED
    BY <1>1 DEF RegistersInv, PastShape, EmptyDocument

\* The steps that change a job and nothing on disk.
LEMMA QuietStepKeepsPast ==
    ASSUME RegistersInv, NEW p \in Procs,
           \/ Start(p) \/ Crash(p)
           \/ Proceed(p) /\ ~SaveReplaces(p)
    PROVE  PastShape'
<1>1. /\ job[p] \in Jobs /\ doc \in Documents
      /\ job[p].pc \in {"post", "reply"} => job[p].held \in RefreshTokens
    BY DEF RegistersInv, TokensInv, TypeOK, CommandShape
<1>2. CASE End(p) /\ UNCHANGED <<document, server>>
    BY <1>2, IdleIsJob, ReadingKeepsPast DEF End, server
<1>3. CASE \E prof \in Profiles: StartLogin(p, prof)
    <2>1. PICK prof \in Profiles: StartLogin(p, prof)
        BY <1>3
    <2>2. PICK new \in Unissued \cup {NoRefresh}:
             /\ Goto(p, [Idle EXCEPT !.pc = "save", !.command = "login",
                                     !.profile = prof, !.held = new])
             /\ issued' = [issued EXCEPT ![prof] = @ \cup ({new} \ {NoRefresh})]
        BY <2>1 DEF StartLogin
    <2> DEFINE j == [Idle EXCEPT !.pc = "save", !.command = "login",
                                 !.profile = prof, !.held = new]
    <2>3. j \in Jobs /\ j.pc = "save" /\ j.snap = EmptyDocument
        BY IdleIsJob DEF Jobs, Steps, TokenSets, Unissued
    <2>4. \A other \in Profiles: issued[other] \subseteq issued'[other]
        BY <2>2 DEF RegistersInv, TokensInv, TypeOK
    <2>5. UNCHANGED document /\ Goto(p, j)
        BY <2>1, <2>2 DEF StartLogin
    <2> HIDE DEF j
    <2>6. QED
        BY <2>3, <2>4, <2>5, ReadingKeepsPast
<1>4. CASE \E prof \in Profiles: StartLogout(p, prof) \/ StartGet(p, prof)
    <2>1. PICK j \in Jobs: Goto(p, j) /\ j.pc \in {"save", "get"} /\ j.snap = EmptyDocument
        <3>1. PICK prof \in Profiles: StartLogout(p, prof) \/ StartGet(p, prof)
            BY <1>4
        <3>2. /\ [Idle EXCEPT !.pc = "save", !.command = "logout", !.profile = prof,
                              !.held = Absent] \in Jobs
              /\ [Idle EXCEPT !.pc = "get", !.profile = prof] \in Jobs
            BY IdleIsJob DEF Jobs, Steps
        <3>3. QED
            BY <3>1, <3>2, IdleIsJob DEF StartLogout, StartGet, Jobs
    <2>2. UNCHANGED <<document, issued>>
        BY <1>4 DEF StartLogout, StartGet, server
    <2>3. QED
        BY <2>1, <2>2, ReadingKeepsPast
<1>5. CASE GetNeedsRefresh(p)
    <2> DEFINE j == [job[p] EXCEPT !.pc = "post", !.held = doc[job[p].profile]]
    <2>1. /\ j \in Jobs /\ j.profile = job[p].profile /\ j.snap = job[p].snap
          /\ j.held = doc[j.profile] /\ j.held \in RefreshTokens
        BY <1>1, <1>5 DEF GetNeedsRefresh, Jobs, Steps, TokenSets
    <2>2. Goto(p, j) /\ UNCHANGED <<document, issued>>
        BY <1>5 DEF GetNeedsRefresh, server
    <2> HIDE DEF j
    <2>3. QED
        BY <2>1, <2>2, ReadingKeepsPast
<1>6. CASE PostRetries(p) \/ ReplyLost(p)
    <2>1. PICK j \in Jobs: /\ Goto(p, j) /\ j.profile = job[p].profile
                           /\ j.snap = job[p].snap /\ j.held = job[p].held
        <3>1. job[p].attempt + 1 \in 1..MaxAttempts
            BY <1>1, <1>6 DEF PostRetries, ReplyLost, Jobs
        <3>2. /\ [job[p] EXCEPT !.attempt = @ + 1] \in Jobs
              /\ [job[p] EXCEPT !.pc = "post", !.answer = NoRefresh, !.attempt = @ + 1] \in Jobs
            BY <1>1, <3>1 DEF Jobs, Steps, TokenSets
        <3>3. QED
            BY <1>1, <1>6, <3>2 DEF PostRetries, ReplyLost, Jobs
    <2>2. /\ UNCHANGED <<document, issued>>
          /\ job[p].pc \in {"post", "reply"}
        BY <1>6 DEF PostRetries, ReplyLost, server
    <2>3. QED
        BY <2>1, <2>2, ReadingKeepsPast
<1>7. CASE ServerRefreshes(p)
    <2>1. PICK new \in TokenSets: Goto(p, [job[p] EXCEPT !.pc = "reply", !.answer = new])
        <3>1. job[p].held \in TokenSets
            BY <1>1, <1>7 DEF ServerRefreshes, TokenSets
        <3>2. CASE singleUse
            BY <1>7, <3>2 DEF ServerRefreshes, Unissued, TokenSets
        <3>3. CASE ~singleUse
            BY <1>7, <3>1, <3>3 DEF ServerRefreshes, TokenSets
        <3>4. QED
            BY <3>2, <3>3
    <2> DEFINE j == [job[p] EXCEPT !.pc = "reply", !.answer = new]
    <2>2. /\ j \in Jobs /\ j.profile = job[p].profile /\ j.snap = job[p].snap
          /\ j.held = job[p].held
        BY <1>1 DEF Jobs, Steps
    <2>3. Goto(p, j)
        BY <2>1
    <2> HIDE DEF j
    <2>4. UNCHANGED document /\ job[p].pc = "post"
        BY <1>7 DEF ServerRefreshes
    <2>5. \A other \in Profiles: issued[other] \subseteq issued'[other]
        <3>1. \/ UNCHANGED issued
              \/ \E t: issued' = [issued EXCEPT ![job[p].profile] = @ \cup {t}]
            BY <1>7 DEF ServerRefreshes
        <3>2. QED
            BY <3>1 DEF RegistersInv, TokensInv, TypeOK
    <2>6. QED
        BY <2>2, <2>3, <2>4, <2>5, ReadingKeepsPast
<1>8. CASE ReplyArrives(p)
    <2> DEFINE j == [Idle EXCEPT !.pc = "save", !.profile = job[p].profile,
                                 !.held = Refreshed(p)]
    <2>1. j \in Jobs /\ j.pc = "save" /\ j.snap = EmptyDocument
        BY <1>1, IdleIsJob DEF Jobs, Steps, Refreshed
    <2>2. Goto(p, j) /\ UNCHANGED <<document, issued>>
        BY <1>8 DEF ReplyArrives, server
    <2> HIDE DEF j
    <2>3. QED
        BY <2>1, <2>2, ReadingKeepsPast
<1>9. CASE SaveReads(p)
    <2> DEFINE j == [job[p] EXCEPT !.pc = "replace", !.snap = doc]
    <2>1. j \in Jobs /\ j.pc = "replace" /\ j.snap = doc
        BY <1>1 DEF Jobs, Steps
    <2>2. Goto(p, j) /\ UNCHANGED <<document, issued>>
        BY <1>9 DEF SaveReads, server
    <2> HIDE DEF j
    <2>3. QED
        BY <2>1, <2>2, ReadingKeepsPast
<1>10. QED
    BY <1>2, <1>3, <1>4, <1>5, <1>6, <1>7, <1>8, <1>9
    DEF Start, Proceed, Crash, GetEnds, PostFails, ReplyFails, SaveFails, Abandon

\* What a write does to the document: the entry of its own profile is set to
\* a token the server accepts or to none, the others are as they were read.
LEMMA WriteFacts ==
    ASSUME RegistersInv, NEW p \in Procs, SaveReplaces(p)
    PROVE  /\ job[p].profile \in Profiles
           /\ doc' \in Documents
           /\ doc'[job[p].profile] \in live[job[p].profile] \cup {NoRefresh, Absent}
           /\ \A other \in Profiles \ {job[p].profile}:
                 /\ doc'[other] = job[p].snap[other]
                 /\ doc'[other] \in past[other] \cup {NoRefresh, Absent}
<1>1. /\ job[p] \in Jobs /\ job[p].pc = "replace"
      /\ doc' = [job[p].snap EXCEPT ![job[p].profile] = job[p].held]
    BY DEF SaveReplaces, Written, RegistersInv, TokensInv, TypeOK
<1>2. /\ job[p].profile \in Profiles /\ job[p].snap \in Documents
      /\ job[p].held \in TokenSets \cup {Absent}
    BY <1>1 DEF Jobs
<1>3. job[p].held \in RefreshTokens => job[p].held \in live[job[p].profile]
    <2>1. CASE singleUse
        BY <1>1, <2>1, SecretFacts DEF Secret, RegistersInv, TokensInv
    <2>2. CASE ~singleUse
        BY <1>2, <2>2 DEF RegistersInv, TokensInv, Reusable, Provenance
    <2>3. QED
        BY <2>1, <2>2
<1>4. QED
    BY <1>1, <1>2, <1>3 DEF Documents, TokenSets, RegistersInv, PastShape

\* A write adds to the past of the entries what they hold now.
LEMMA WriteKeepsPast ==
    ASSUME RegistersInv, NEW p \in Procs, SaveReplaces(p)
    PROVE  PastShape'
<1>1. /\ job'[p] = Idle
      /\ \A q \in Procs \ {p}: job'[q] = job[q]
    BY IdleIsJob, OneJobMoves DEF SaveReplaces, End, RegistersInv, TokensInv, TypeOK
<1>2. /\ past' = [prof \in Profiles |-> past[prof] \cup ({doc'[prof]} \cap RefreshTokens)]
      /\ UNCHANGED <<live, issued>>
    BY DEF SaveReplaces, server
<1>3. \A prof \in Profiles: doc'[prof] \in issued[prof] \cup {NoRefresh, Absent}
    BY WriteFacts DEF RegistersInv, TokensInv, Provenance, PastShape
<1>4. \A prof \in Profiles: doc'[prof] \in past'[prof] \cup {NoRefresh, Absent}
    BY <1>2, WriteFacts DEF Documents, TokenSets
<1>5. \A prof \in Profiles: past[prof] \subseteq past'[prof] /\ past'[prof] \subseteq issued[prof]
    BY <1>2, <1>3 DEF RegistersInv, PastShape
<1>6. QED
    BY <1>1, <1>2, <1>4, <1>5, IdleIsJob DEF RegistersInv, PastShape, EmptyDocument

\* RegistersInv is inductive.
LEMMA InitRegistersInv == Init => RegistersInv
<1>1. Init => PastShape
    BY IdleIsJob DEF Init, PastShape, EmptyDocument
<1>2. QED
    BY <1>1, InitTokensInv DEF RegistersInv

\* One step of the system keeps it.
LEMMA NextRegistersInv == RegistersInv /\ [Next]_vars => RegistersInv'
<1>1. RegistersInv /\ [Next]_vars => TokensInv'
    BY NextTokensInv DEF RegistersInv
<1>2. ASSUME RegistersInv, Next PROVE PastShape'
    BY <1>2, QuietStepKeepsPast, WriteKeepsPast DEF Next
<1>3. ASSUME RegistersInv, UNCHANGED vars PROVE PastShape'
    BY <1>3 DEF vars, RegistersInv, PastShape
<1>4. QED
    BY <1>1, <1>2, <1>3 DEF RegistersInv

\* RegistersInv holds in every reachable state.
THEOREM RegistersInvariant == Spec => []RegistersInv
BY InitRegistersInv, NextRegistersInv, PTL DEF Spec

\* The initial document is the initial registers.
LEMMA InitRegisters == Init => Registers!RInit
BY DEF Init, Registers!RInit, EmptyDocument

\* A token never issued is fresh.
LEMMA UnissuedIsFresh ==
    ASSUME RegistersInv, NEW t \in Unissued
    PROVE  Registers!Fresh(t)
BY DEF Unissued, RegistersInv, TokensInv, TypeOK, Provenance, PastShape, Registers!Fresh

\* A write is one of the abstract writes.
LEMMA WriteImplements ==
    ASSUME RegistersInv, NEW p \in Procs, SaveReplaces(p)
    PROVE  Registers!Write(job[p].profile)
<1> DEFINE prof == job[p].profile
<1>1. /\ past' = [other \in Profiles |-> past[other] \cup ({doc'[other]} \cap RefreshTokens)]
      /\ torn' = (torn \/ job[p].snap # doc)
      /\ UNCHANGED live
      /\ torn \in BOOLEAN
    BY DEF SaveReplaces, server, RegistersInv, TokensInv, TypeOK
<1>2. /\ doc' \in [Profiles -> RefreshTokens \cup {NoRefresh, Absent}]
      /\ doc'[prof] \in live[prof] \cup {NoRefresh, Absent}
    BY WriteFacts DEF Documents, TokenSets
<1>3. ASSUME NEW other \in Profiles \ {prof}
      PROVE  doc'[other] = doc[other] \/ (torn' /\ doc'[other] \in past[other] \cup {NoRefresh, Absent})
    <2>1. CASE job[p].snap = doc
        BY <2>1, WriteFacts
    <2>2. CASE job[p].snap # doc
        BY <1>1, <2>2, WriteFacts
    <2>3. QED
        BY <2>1, <2>2
<1>4. past' = [past EXCEPT ![prof] = @ \cup ({doc'[prof]} \cap RefreshTokens)]
    <2>1. \A other \in Profiles \ {prof}: {doc'[other]} \cap RefreshTokens \subseteq past[other]
        BY TokensAssumption, WriteFacts
    <2>2. past \in [Profiles -> SUBSET RefreshTokens]
        BY DEF RegistersInv, TokensInv, TypeOK
    <2>3. QED
        BY <1>1, <2>1, <2>2
<1>5. torn' \in {torn, TRUE}
    BY <1>1, Zenon
<1>6. QED
    BY <1>1, <1>2, <1>3, <1>4, <1>5 DEF Registers!Write

\* A server step issues a new token or leaves the abstract state alone.
LEMMA ServerImplements ==
    ASSUME RegistersInv, NEW p \in Procs, NEW prof \in Profiles,
           StartLogin(p, prof) \/ ServerRefreshes(p)
    PROVE  Registers!RNext \/ UNCHANGED Registers!rvars
<1>1. CASE StartLogin(p, prof)
    <2>1. PICK new \in Unissued \cup {NoRefresh}:
             live' = [live EXCEPT ![prof] = @ \cup ({new} \ {NoRefresh})]
        BY <1>1 DEF StartLogin
    <2>2. UNCHANGED <<doc, past, torn>>
        BY <1>1 DEF StartLogin
    <2>3. CASE new = NoRefresh
        BY <2>1, <2>2, <2>3 DEF Registers!rvars, RegistersInv, TokensInv, TypeOK
    <2>4. CASE new \in Unissued
        <3>1. new \in RefreshTokens /\ Registers!Fresh(new)
            BY <2>4, UnissuedIsFresh DEF Unissued
        <3>2. live' = [live EXCEPT ![prof] = @ \cup {new}]
            BY <2>1, <3>1
        <3>3. Registers!Issue(prof, new)
            BY <2>2, <3>1, <3>2 DEF Registers!Issue
        <3>4. QED
            BY <3>1, <3>3 DEF Registers!RNext
    <2>5. QED
        BY <2>3, <2>4
<1>2. CASE ServerRefreshes(p)
    <2> DEFINE own == job[p].profile
    <2>1. UNCHANGED <<doc, past, torn>> /\ job[p].pc = "post" /\ own \in Profiles
        BY <1>2 DEF ServerRefreshes, RegistersInv, TokensInv, TypeOK, Jobs
    <2>2. CASE singleUse
        <3>1. PICK new \in Unissued:
                 live' = [live EXCEPT ![own] = (@ \ {job[p].held}) \cup {new}]
            BY <1>2, <2>2 DEF ServerRefreshes
        <3>2. job[p].held \in past[own] \cap live[own]
            BY <1>2, <2>1 DEF ServerRefreshes, RegistersInv, PastShape
        <3>3. new \in RefreshTokens /\ Registers!Fresh(new)
            BY UnissuedIsFresh DEF Unissued
        <3>4. Registers!Renew(own, new)
            BY <2>1, <3>1, <3>2, <3>3 DEF Registers!Renew
        <3>5. QED
            BY <2>1, <3>3, <3>4 DEF Registers!RNext
    <2>3. CASE ~singleUse
        BY <1>2, <2>1, <2>3 DEF ServerRefreshes, Registers!rvars
    <2>4. QED
        BY <2>2, <2>3
<1>3. QED
    BY <1>1, <1>2

\* Every step is one of the abstract specification, or a stutter of it.
LEMMA NextImplementsRegister ==
    RegistersInv /\ [Next]_vars => [Registers!RNext]_(Registers!rvars)
<1> SUFFICES ASSUME RegistersInv, [Next]_vars
             PROVE  Registers!RNext \/ UNCHANGED Registers!rvars
    OBVIOUS
<1>1. CASE UNCHANGED vars
    BY <1>1 DEF vars, Registers!rvars
<1>2. CASE Next
    <2>1. PICK p \in Procs: Start(p) \/ Proceed(p) \/ Crash(p)
        BY <1>2 DEF Next
    <2>2. CASE SaveReplaces(p)
        BY <2>2, WriteImplements, WriteFacts DEF Registers!RNext
    <2>3. CASE (\E prof \in Profiles: StartLogin(p, prof)) \/ ServerRefreshes(p)
        BY <2>3, ServerImplements, TokensAssumption
    <2>4. CASE UNCHANGED <<document, live>>
        BY <2>4 DEF Registers!rvars
    <2>5. QED
        BY <2>1, <2>2, <2>3, <2>4
        DEF Start, Proceed, Crash, StartLogout, StartGet, GetEnds, GetNeedsRefresh, PostRetries,
            PostFails, ReplyLost, ReplyFails, ReplyArrives, SaveReads, SaveFails, Abandon, server
<1>3. QED
    BY <1>1, <1>2

\* The document is one register per profile: writes that do not overlap touch
\* their own profile only, overlapping ones put others back at most, and the
\* server is asked to renew only what this profile's entry has held.
THEOREM TokensImplementRegister == Spec => ImplementsRegister
BY InitRegisters, NextImplementsRegister, RegistersInvariant, PTL
DEF Spec, ImplementsRegister, Registers!RSpec

-----------------------------------------------------------------------------
(* The bound on the steps of a command. *)

\* What the steps left come to at each step.
LEMMA StepsLeftOf ==
    ASSUME NEW j \in Jobs, NEW left,
           left = [idle |-> 0, replace |-> 1, save |-> 2,
                   reply |-> 3 + 2 * (MaxAttempts - j.attempt),
                   post |-> 4 + 2 * (MaxAttempts - j.attempt),
                   get |-> 5 + 2 * (MaxAttempts - j.attempt)][j.pc]
    PROVE  /\ j.attempt \in 1..MaxAttempts
           /\ j.pc = "idle" => left = 0
           /\ j.pc = "replace" => left = 1
           /\ j.pc = "save" => left = 2
           /\ j.pc = "reply" => left = 3 + 2 * (MaxAttempts - j.attempt)
           /\ j.pc = "post" => left = 4 + 2 * (MaxAttempts - j.attempt)
           /\ j.pc = "get" => left = 5 + 2 * (MaxAttempts - j.attempt)
BY DEF Jobs

\* A step of a command uses one of its steps up; starting one gives it the
\* budget.
LEMMA StepUsesUp ==
    ASSUME TypeOK, NEW p \in Procs, NEW j \in Jobs, Goto(p, j),
           \/ job[p].pc = "idle" /\ j.pc \in {"save", "get"}
           \/ job[p].pc # "idle" /\ j.pc = "idle"
           \/ job[p].pc = "get" /\ j.pc = "post" /\ j.attempt = job[p].attempt
           \/ job[p].pc = "post" /\ j.pc = "post" /\ j.attempt = job[p].attempt + 1
           \/ job[p].pc = "post" /\ j.pc = "reply" /\ j.attempt = job[p].attempt
           \/ job[p].pc = "reply" /\ j.pc = "post" /\ j.attempt = job[p].attempt + 1
           \/ job[p].pc = "reply" /\ j.pc = "save"
           \/ job[p].pc = "save" /\ j.pc = "replace"
    PROVE  \A q \in Procs: job'[q] # job[q] =>
              StepsLeft(q)' \in 0..(IF job[q].pc = "idle" THEN StepBudget ELSE StepsLeft(q) - 1)
<1>1. /\ job'[p] = j /\ job[p] \in Jobs
      /\ \A q \in Procs \ {p}: job'[q] = job[q]
    BY OneJobMoves DEF TypeOK
<1> DEFINE before == StepsLeft(p)
           after == StepsLeft(p)'
<1>2. /\ before = [idle |-> 0, replace |-> 1, save |-> 2,
                   reply |-> 3 + 2 * (MaxAttempts - job[p].attempt),
                   post |-> 4 + 2 * (MaxAttempts - job[p].attempt),
                   get |-> 5 + 2 * (MaxAttempts - job[p].attempt)][job[p].pc]
      /\ after = [idle |-> 0, replace |-> 1, save |-> 2,
                  reply |-> 3 + 2 * (MaxAttempts - j.attempt),
                  post |-> 4 + 2 * (MaxAttempts - j.attempt),
                  get |-> 5 + 2 * (MaxAttempts - j.attempt)][j.pc]
    BY <1>1 DEF StepsLeft
<1> HIDE DEF before, after
<1>3. after \in 0..(IF job[p].pc = "idle" THEN StepBudget ELSE before - 1)
    <2>1. /\ j.attempt \in 1..MaxAttempts /\ job[p].attempt \in 1..MaxAttempts
          /\ job[p].pc \in Steps
        BY <1>1 DEF Jobs
    <2>2. /\ j.pc = "idle" => after = 0
          /\ j.pc = "replace" => after = 1
          /\ j.pc = "save" => after = 2
          /\ j.pc = "reply" => after = 3 + 2 * (MaxAttempts - j.attempt)
          /\ j.pc = "post" => after = 4 + 2 * (MaxAttempts - j.attempt)
          /\ j.pc = "get" => after = 5 + 2 * (MaxAttempts - j.attempt)
        BY <1>2, StepsLeftOf
    <2>3. /\ job[p].pc = "replace" => before = 1
          /\ job[p].pc = "save" => before = 2
          /\ job[p].pc = "reply" => before = 3 + 2 * (MaxAttempts - job[p].attempt)
          /\ job[p].pc = "post" => before = 4 + 2 * (MaxAttempts - job[p].attempt)
          /\ job[p].pc = "get" => before = 5 + 2 * (MaxAttempts - job[p].attempt)
        BY <1>1, <1>2, StepsLeftOf
    <2>4. QED
        BY <2>1, <2>2, <2>3 DEF Steps, StepBudget
<1>4. QED
    BY <1>1, <1>3 DEF before, after

\* Every step of a process is one of those.
LEMMA ProcessAdvances ==
    ASSUME TypeOK, NEW p \in Procs, Start(p) \/ Proceed(p) \/ Crash(p)
    PROVE  \A q \in Procs: job'[q] # job[q] =>
              StepsLeft(q)' \in 0..(IF job[q].pc = "idle" THEN StepBudget ELSE StepsLeft(q) - 1)
<1>1. job[p] \in Jobs /\ doc \in Documents
    BY DEF TypeOK
<1>2. CASE End(p) /\ job[p].pc # "idle"
    BY <1>2, IdleIsJob, StepUsesUp DEF End
<1>3. CASE Start(p)
    <2>1. PICK j \in Jobs: Goto(p, j) /\ j.pc \in {"save", "get"}
        <3>1. PICK prof \in Profiles:
                 StartLogin(p, prof) \/ StartLogout(p, prof) \/ StartGet(p, prof)
            BY <1>3 DEF Start
        <3>2. CASE StartLogin(p, prof)
            <4>1. PICK new \in TokenSets:
                     Goto(p, [Idle EXCEPT !.pc = "save", !.command = "login",
                                          !.profile = prof, !.held = new])
                BY <3>2 DEF StartLogin, Unissued, TokenSets
            <4>2. [Idle EXCEPT !.pc = "save", !.command = "login",
                               !.profile = prof, !.held = new] \in Jobs
                BY IdleIsJob DEF Jobs, Steps
            <4>3. QED
                BY <4>1, <4>2, IdleIsJob DEF Jobs
        <3>3. /\ [Idle EXCEPT !.pc = "save", !.command = "logout", !.profile = prof,
                              !.held = Absent] \in Jobs
              /\ [Idle EXCEPT !.pc = "get", !.profile = prof] \in Jobs
            BY IdleIsJob DEF Jobs, Steps
        <3>4. QED
            BY <3>1, <3>2, <3>3, IdleIsJob DEF StartLogout, StartGet, Jobs
    <2>2. job[p].pc = "idle"
        BY <1>3 DEF Start, StartLogin, StartLogout, StartGet
    <2>3. QED
        BY <2>1, <2>2, StepUsesUp
<1>4. CASE GetNeedsRefresh(p)
    <2> DEFINE j == [job[p] EXCEPT !.pc = "post", !.held = doc[job[p].profile]]
    <2>1. j \in Jobs /\ j.pc = "post" /\ j.attempt = job[p].attempt
        BY <1>1, <1>4 DEF GetNeedsRefresh, Jobs, Steps, TokenSets
    <2>2. Goto(p, j) /\ job[p].pc = "get"
        BY <1>4 DEF GetNeedsRefresh
    <2> HIDE DEF j
    <2>3. QED
        BY <2>1, <2>2, StepUsesUp
<1>5. CASE PostRetries(p) \/ ReplyLost(p)
    <2>1. PICK j \in Jobs: /\ Goto(p, j) /\ j.pc = "post"
                           /\ j.attempt = job[p].attempt + 1
        <3>1. job[p].attempt + 1 \in 1..MaxAttempts
            BY <1>1, <1>5 DEF PostRetries, ReplyLost, Jobs
        <3>2. /\ [job[p] EXCEPT !.attempt = @ + 1] \in Jobs
              /\ [job[p] EXCEPT !.pc = "post", !.answer = NoRefresh, !.attempt = @ + 1] \in Jobs
            BY <1>1, <3>1 DEF Jobs, Steps, TokenSets
        <3>3. QED
            BY <1>1, <1>5, <3>2 DEF PostRetries, ReplyLost, Jobs
    <2>2. job[p].pc \in {"post", "reply"}
        BY <1>5 DEF PostRetries, ReplyLost
    <2>3. QED
        BY <2>1, <2>2, StepUsesUp
<1>6. CASE ServerRefreshes(p)
    <2>1. PICK new \in TokenSets: Goto(p, [job[p] EXCEPT !.pc = "reply", !.answer = new])
        <3>1. job[p].held \in TokenSets
            BY <1>1, <1>6 DEF ServerRefreshes, TypeOK, Jobs, TokenSets
        <3>2. CASE singleUse
            BY <1>6, <3>2 DEF ServerRefreshes, Unissued, TokenSets
        <3>3. CASE ~singleUse
            BY <1>6, <3>1, <3>3 DEF ServerRefreshes, TokenSets
        <3>4. QED
            BY <3>2, <3>3
    <2> DEFINE j == [job[p] EXCEPT !.pc = "reply", !.answer = new]
    <2>2. j \in Jobs /\ j.pc = "reply" /\ j.attempt = job[p].attempt
        BY <1>1 DEF Jobs, Steps
    <2>3. Goto(p, j) /\ job[p].pc = "post"
        BY <1>6, <2>1 DEF ServerRefreshes
    <2> HIDE DEF j
    <2>4. QED
        BY <2>2, <2>3, StepUsesUp
<1>7. CASE ReplyArrives(p)
    <2> DEFINE j == [Idle EXCEPT !.pc = "save", !.profile = job[p].profile,
                                 !.held = Refreshed(p)]
    <2>1. j \in Jobs /\ j.pc = "save"
        BY <1>1, IdleIsJob DEF Refreshed, Jobs, Steps, TokenSets
    <2>2. Goto(p, j) /\ job[p].pc = "reply"
        BY <1>7 DEF ReplyArrives
    <2> HIDE DEF j
    <2>3. QED
        BY <2>1, <2>2, StepUsesUp
<1>8. CASE SaveReads(p)
    <2> DEFINE j == [job[p] EXCEPT !.pc = "replace", !.snap = doc]
    <2>1. j \in Jobs /\ j.pc = "replace"
        BY <1>1 DEF Jobs, Steps
    <2>2. Goto(p, j) /\ job[p].pc = "save"
        BY <1>8 DEF SaveReads
    <2> HIDE DEF j
    <2>3. QED
        BY <2>1, <2>2, StepUsesUp
<1>9. \/ GetEnds(p) \/ PostFails(p) \/ ReplyFails(p) \/ SaveFails(p)
      \/ SaveReplaces(p) \/ Crash(p)
      => End(p) /\ job[p].pc # "idle"
    BY DEF GetEnds, PostFails, ReplyFails, SaveFails, SaveReplaces, Crash, Abandon
<1>10. QED
    BY <1>2, <1>3, <1>4, <1>5, <1>6, <1>7, <1>8, <1>9 DEF Proceed

\* For any number of processes, profiles and attempts: a command ends within
\* 2 * MaxAttempts + 3 steps of its own after it was started, and no step of
\* another process gives any of them back.
THEOREM TokensCommandsAdvance == Spec => CommandsAdvance
<1>1. TypeOK /\ [Next]_vars =>
         [\A p \in Procs: job'[p] # job[p] =>
             StepsLeft(p)' \in 0..(IF job[p].pc = "idle" THEN StepBudget
                                                       ELSE StepsLeft(p) - 1)]_vars
    <2> SUFFICES ASSUME TypeOK, Next
                 PROVE  \A p \in Procs: job'[p] # job[p] =>
                           StepsLeft(p)' \in 0..(IF job[p].pc = "idle" THEN StepBudget
                                                                     ELSE StepsLeft(p) - 1)
        OBVIOUS
    <2>1. PICK p \in Procs: Start(p) \/ Proceed(p) \/ Crash(p)
        BY DEF Next
    <2>2. QED
        BY <2>1, ProcessAdvances
<1>2. QED
    BY <1>1, TokensTypeCorrect, PTL DEF Spec, CommandsAdvance
=============================================================================
