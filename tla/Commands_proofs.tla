--------------------------- MODULE Commands_proofs ---------------------------
(***************************************************************************)
(* Proofs about Commands and Resolver, for every set of keys, sessions and *)
(* profiles.                                                               *)
(***************************************************************************)
EXTENDS Commands, TLAPS

\* A command that only says something keeps the invariant, as long as it
\* does not refuse what doctor has called ready.
LEMMA SayKeeps ==
    ASSUME NEW verdict \in Verdicts, CommandsInv, Say(verdict), ready => verdict # "refused"
    PROVE  CommandsInv'
  BY DEF Say, CommandsInv, TypeOK, RunShape, ReadyShape, Missing, NothingElseSpentInVain,
         ReadyMeansRunnable, Files, History

\* The verdicts of a refusal; "refused" means that a gate fails although no
\* flag stands against it.
LEMMA RefusalVerdict ==
    ASSUME NEW f \in Flags
    PROVE  /\ Refusal(f) \in Verdicts
           /\ Refusal(f) = "refused" <=> ~Overridden(f)
  BY DEF Refusal, Verdicts

\* Without a flag against it, settings that doctor calls ready pass every gate.
LEMMA ReadyPasses ==
    ASSUME NEW f \in Flags, ReadyShape, ready, ~Overridden(f)
    PROVE  /\ Network(f) /\ Writes(f)
           /\ env.sessionKey # None
           /\ TokenGates(f)
           /\ DownloadGates(f)
           /\ \A persist \in BOOLEAN: ExchangeGates(f, persist)
  BY DEF ReadyShape, Missing, Overridden, Network, Writes, Allowed, TokenGates, DownloadGates,
         ExchangeGates, Flags

\* What an official inspection reports of an answer.
LEMMA ReportVerdict ==
    ASSUME NEW report \in Reports
    PROVE  report \in Verdicts /\ report # "refused"
  <1>1. PICK answer \in Answers: report = Reported(Read(answer))
    BY DEF Reports
  <1>2. Reported(Read(answer)) \in {"resolved", "payload_invalid", "unknown_reason"}
    BY DEF Reported
  <1> QED
    BY <1>1, <1>2 DEF Verdicts

LEMMA InitInv == Init => CommandsInv
  <1> SUFFICES ASSUME Init PROVE CommandsInv
    OBVIOUS
  <1>1. TypeOK
    BY DEF Init, TypeOK, SessionFiles, TokenFiles, OrNone, Verdicts
  <1>2. NothingElseSpentInVain
    BY CommandsAssumption DEF Init, NothingElseSpentInVain, Statuses
  <1> QED
    BY <1>1, <1>2 DEF Init, CommandsInv, RunShape, ReadyShape, ReadyMeansRunnable

\* Commands that change nothing but the verdict.
LEMMA FlaglessCommandsKeep ==
    ASSUME CommandsInv, LoadFails \/ TokenStatus \/ InspectOffline
    PROVE  CommandsInv'
  <1>1. CASE LoadFails
    <2>1. PICK verdict \in {"crashed", "failed"}: Say(verdict)
      BY <1>1 DEF LoadFails, Say
    <2> QED
      BY <2>1, SayKeeps DEF Verdicts
  <1>2. CASE TokenStatus
    <2>1. CASE env.tokenKey = None /\ Say("refused")
      BY <2>1, SayKeeps DEF Verdicts, ReadyShape, Missing, CommandsInv
    <2>2. CASE Say("failed") \/ Say("done")
      BY <2>2, SayKeeps DEF Verdicts
    <2> QED
      BY <1>2, <2>1, <2>2 DEF TokenStatus
  <1>3. CASE InspectOffline
    BY <1>3, SayKeeps DEF InspectOffline, Verdicts
  <1> QED
    BY <1>1, <1>2, <1>3

LEMMA FlagCommandsKeep ==
    ASSUME CommandsInv, NEW f \in Flags, Download(f) \/ InspectExternal(f)
    PROVE  CommandsInv'
  <1>1. CASE Say("done") \/ Say("denied") \/ Say("crashed")
    BY <1>1, SayKeeps DEF Verdicts
  <1>2. CASE (~Network(f) \/ ~DownloadGates(f)) /\ Say(Refusal(f))
    BY <1>2, SayKeeps, RefusalVerdict, ReadyPasses DEF CommandsInv
  <1> QED
    BY <1>1, <1>2 DEF Download, InspectExternal

LEMMA InspectOfficialKeeps ==
    ASSUME CommandsInv, NEW f \in Flags, NEW p \in Profiles, InspectOfficial(p, f)
    PROVE  CommandsInv'
  <1>1. CASE ~DownloadGates(f) /\ Say(Refusal(f))
    BY <1>1, SayKeeps, RefusalVerdict, ReadyPasses DEF CommandsInv
  <1>2. CASE Say("unknown_reason") \/ Say("profile_unusable")
    BY <1>2, SayKeeps DEF Verdicts
  <1>3. CASE \E report \in Reports: Say(report)
    <2>1. PICK report \in Reports: Say(report)
      BY <1>3
    <2> QED
      BY <2>1, ReportVerdict, SayKeeps
  <1> QED
    BY <1>1, <1>2, <1>3 DEF InspectOfficial

\* The user's edits and doctor, which decide what ready stands for.
LEMMA ReadinessKept ==
    ASSUME CommandsInv, Edit \/ Doctor
    PROVE  CommandsInv'
  <1> USE DEF CommandsInv
  <1>1. CASE Edit
    <2>1. env' \in Settings \cup {Invalid}
      BY <1>1 DEF Edit, TypeOK, Settings
    <2> QED
      BY <1>1, <2>1 DEF Edit, TypeOK, RunShape, ReadyShape, NothingElseSpentInVain,
                        ReadyMeansRunnable, Verdicts
  <1>2. CASE Doctor
    <2>1. ready' \in BOOLEAN /\ (ready' => ~Missing) /\ out' = "done"
      BY <1>2 DEF Doctor
    <2>2. UNCHANGED <<env, Files, run, History>> /\ env # Invalid
      BY <1>2 DEF Doctor, Loaded
    <2>3. TypeOK' /\ NothingElseSpentInVain' /\ RunShape'
      BY <2>1, <2>2 DEF TypeOK, NothingElseSpentInVain, RunShape, Verdicts, Files, History
    <2>4. ReadyShape' /\ ReadyMeansRunnable'
      BY <2>1, <2>2 DEF ReadyShape, Missing, ReadyMeansRunnable
    <2> QED
      BY <2>3, <2>4
  <1> QED
    BY <1>1, <1>2

\* create-session, the start of an exchange and logout.
LEMMA CreateSessionKeeps ==
    ASSUME CommandsInv, NEW s \in Sessions, NEW f \in Flags, NEW persist \in BOOLEAN,
           CreateSession(s, f, persist)
    PROVE  CommandsInv'
  <1> USE DEF CommandsInv
  <1>1. CASE Say("done") \/ Say("failed")
    BY <1>1, SayKeeps DEF Verdicts
  <1>2. CASE (env.sessionKey = None \/ ~Writes(f)) /\ Say(Refusal(f))
    BY <1>2, SayKeeps, RefusalVerdict, ReadyPasses
  <1>3. CASE /\ env.sessionKey # None
             /\ sessions' = [key |-> env.sessionKey,
                             status |-> [sessions.status EXCEPT ![s] = "pending"]]
             /\ out' = "done"
             /\ UNCHANGED <<env, tokens, run, ready, History>>
    <2>1. env.sessionKey \in Keys
      BY <1>3, CommandsAssumption
      DEF CreateSession, Loaded, Invalid, TypeOK, Settings, OrNone
    <2>2. sessions' \in SessionFiles
      BY <1>3, <2>1 DEF TypeOK, SessionFiles, Statuses, OrNone
    <2>3. TypeOK' /\ RunShape' /\ ReadyShape' /\ ReadyMeansRunnable'
      BY <1>3, <2>2
      DEF TypeOK, RunShape, ReadyShape, Missing, ReadyMeansRunnable, Verdicts, History
    <2>4. \A t \in Sessions: sessions'.status[t] = "consumed" => sessions.status[t] = "consumed"
      BY <1>3 DEF TypeOK, SessionFiles
    <2>5. NothingElseSpentInVain'
      BY <1>3, <2>4 DEF NothingElseSpentInVain, History
    <2> QED
      BY <2>3, <2>5
  <1> QED
    BY <1>1, <1>2, <1>3 DEF CreateSession

LEMMA StartExchangeKeeps ==
    ASSUME CommandsInv, NEW s \in Sessions, NEW p \in Profiles, NEW f \in Flags,
           NEW persist \in BOOLEAN, StartExchange(s, p, f, persist)
    PROVE  CommandsInv'
  <1> USE DEF CommandsInv
  <1>1. CASE ~ExchangeGates(f, persist) /\ Say(Refusal(f))
    BY <1>1, SayKeeps, RefusalVerdict, ReadyPasses
  <1>2. CASE ExchangeGates(f, persist)
    <2>1. /\ run = None /\ env \in Settings
          /\ \E url \in BOOLEAN:
                run' = [pc |-> "consume", session |-> s, profile |-> p, persist |-> persist,
                        sessionKey |-> env.sessionKey, tokenKey |-> env.tokenKey, url |-> url]
          /\ out' = "none"
          /\ UNCHANGED <<env, Files, ready, History>>
      BY <1>2 DEF StartExchange, Loaded, Invalid, TypeOK
    <2>2. env.sessionKey \in Keys /\ env.tokenKey \in OrNone(Keys)
            /\ (persist => env.tokenKey # None)
      BY <1>2, <2>1, CommandsAssumption DEF ExchangeGates, TokenGates, Settings, OrNone
    <2>3. run' \in Exchanges
      BY <2>1, <2>2 DEF Exchanges
    <2>4. TypeOK' /\ RunShape' /\ ReadyShape' /\ ReadyMeansRunnable'
      BY <2>1, <2>2, <2>3
      DEF TypeOK, RunShape, ReadyShape, Missing, ReadyMeansRunnable, Verdicts, Files, History
    <2>5. NothingElseSpentInVain'
      BY <2>1 DEF NothingElseSpentInVain, Files, History
    <2> QED
      BY <2>4, <2>5
  <1> QED
    BY <1>1, <1>2 DEF StartExchange

LEMMA LogoutKeeps ==
    ASSUME CommandsInv, NEW p \in Profiles, NEW f \in Flags, Logout(p, f)
    PROVE  CommandsInv'
  <1> USE DEF CommandsInv
  <1>1. CASE Say("failed")
    BY <1>1, SayKeeps DEF Verdicts
  <1>2. CASE ~TokenGates(f) /\ Say(Refusal(f))
    BY <1>2, SayKeeps, RefusalVerdict, ReadyPasses
  <1>3. CASE /\ TokenGates(f)
             /\ tokens' = [key |-> env.tokenKey, holds |-> [tokens.holds EXCEPT ![p] = None]]
             /\ out' = "done"
             /\ UNCHANGED <<env, sessions, run, ready, History>>
    <2>1. tokens' \in TokenFiles
      BY <1>3, CommandsAssumption
      DEF Logout, Loaded, Invalid, TokenGates, TypeOK, Settings, TokenFiles, OrNone
    <2>2. TypeOK' /\ RunShape' /\ ReadyShape' /\ ReadyMeansRunnable'
      BY <1>3, <2>1
      DEF TypeOK, RunShape, ReadyShape, Missing, ReadyMeansRunnable, Verdicts, History
    <2>3. NothingElseSpentInVain'
      BY <1>3 DEF NothingElseSpentInVain, History
    <2> QED
      BY <2>2, <2>3
  <1> QED
    BY <1>1, <1>2, <1>3 DEF Logout

\* The steps of an exchange.
LEMMA ExchangeStepsKeep ==
    ASSUME CommandsInv,
           \/ Consume \/ FindExpired \/ ConsumeFails \/ BuildFails
           \/ Redeem \/ SaveTokens \/ SaveUnreadable \/ Break
    PROVE  CommandsInv'
  <1> USE DEF CommandsInv
  <1>1. run # None /\ run \in Exchanges
    BY DEF Consume, FindExpired, ConsumeFails, BuildFails, Redeem, SaveTokens, SaveUnreadable, Break,
           ReadsSession, TypeOK
  <1>2. CASE Consume
    <2>1. /\ run' = [run EXCEPT !.pc = "post"] /\ run' \in Exchanges
          /\ SaveSession("consumed")
          /\ UNCHANGED <<env, tokens, ready, out, History>>
      BY <1>1, <1>2 DEF Consume, Exchanges
    <2>2. sessions' \in SessionFiles
      BY <1>1, <2>1 DEF SaveSession, SessionFiles, TypeOK, Exchanges, OrNone, Statuses
    <2>3. TypeOK' /\ RunShape' /\ ReadyShape' /\ ReadyMeansRunnable'
      BY <1>1, <2>1, <2>2
      DEF TypeOK, RunShape, ReadyShape, Missing, ReadyMeansRunnable, History, Exchanges
    <2>4. \A s \in Sessions \ {run.session}: sessions'.status[s] = sessions.status[s]
      BY <2>1 DEF SaveSession, TypeOK, SessionFiles
    <2>5. NothingElseSpentInVain'
      <3> SUFFICES ASSUME NEW s \in Sessions, sessions'.status[s] = "consumed"
                   PROVE  \/ (s \in delivered \cup excused \cup overlooked)'
                          \/ (run # None /\ run.session = s /\ run.pc \in {"post", "save"})'
        BY DEF NothingElseSpentInVain
      <3>1. CASE s = run.session
        <4>1. run' # None /\ run'.session = run.session /\ run'.pc = "post"
          BY <1>1, <2>1, CommandsAssumption DEF Exchanges
        <4> QED
          BY <3>1, <4>1
      <3>2. CASE s # run.session
        <4>1. sessions.status[s] = "consumed"
          BY <2>4, <3>2
        <4>2. s \in delivered \cup excused \cup overlooked
          BY <2>1, <3>2, <4>1 DEF NothingElseSpentInVain
        <4> QED
          BY <2>1, <4>2 DEF History
      <3> QED
        BY <3>1, <3>2
    <2> QED
      BY <2>3, <2>5
  <1>3. CASE FindExpired
    <2>1. /\ run' = None /\ out' = "failed" /\ run.pc = "consume"
          /\ SaveSession("expired")
          /\ UNCHANGED <<env, tokens, ready, History>>
      BY <1>3 DEF FindExpired, EndExchange, ReadsSession
    <2>2. sessions' \in SessionFiles
      BY <1>1, <2>1 DEF SaveSession, SessionFiles, TypeOK, Exchanges, OrNone, Statuses
    <2>3. TypeOK' /\ RunShape' /\ ReadyShape' /\ ReadyMeansRunnable'
      BY <2>1, <2>2 DEF TypeOK, RunShape, ReadyShape, Missing, ReadyMeansRunnable, Verdicts, History
    <2>4. \A s \in Sessions: sessions'.status[s] = "consumed" => sessions.status[s] = "consumed"
      BY <2>1 DEF SaveSession, TypeOK, SessionFiles
    <2>5. NothingElseSpentInVain'
      BY <2>1, <2>4 DEF NothingElseSpentInVain, History
    <2> QED
      BY <2>3, <2>5
  <1>4. CASE ConsumeFails
    <2>1. run' = None /\ out' = "failed" /\ run.pc = "consume"
            /\ UNCHANGED <<env, Files, ready, History>>
      BY <1>4 DEF ConsumeFails, EndExchange
    <2> QED
      BY <2>1 DEF TypeOK, RunShape, ReadyShape, Missing, ReadyMeansRunnable, NothingElseSpentInVain,
                  Verdicts, Files, History
  <1>5. CASE Redeem
    <2>1. CASE run.persist
      <3>1. run' = [run EXCEPT !.pc = "save"] /\ UNCHANGED <<env, Files, ready, out, History>>
        BY <1>5, <2>1 DEF Redeem, History
      <3>2. run' \in Exchanges /\ run'.persist /\ run'.tokenKey # None /\ run'.pc = "save"
              /\ run'.session = run.session
        BY <1>1, <2>1, <3>1 DEF Exchanges, RunShape
      <3>3. TypeOK' /\ RunShape' /\ ReadyShape' /\ ReadyMeansRunnable'
        BY <3>1, <3>2 DEF TypeOK, RunShape, ReadyShape, Missing, ReadyMeansRunnable, Files, History
      <3>4. NothingElseSpentInVain'
        BY <3>1, <3>2, CommandsAssumption DEF NothingElseSpentInVain, Files, History
      <3> QED
        BY <3>3, <3>4
    <2>2. CASE ~run.persist
      <3>1. /\ run' = None /\ out' = "done" /\ delivered' = delivered \cup {run.session}
            /\ run.session \in Sessions
            /\ UNCHANGED <<env, Files, ready, excused, overlooked>>
        BY <1>1, <1>5, <2>2 DEF Redeem, EndExchange, Exchanges
      <3> QED
        BY <3>1 DEF TypeOK, RunShape, ReadyShape, Missing, ReadyMeansRunnable, NothingElseSpentInVain,
                    Verdicts, Files
    <2> QED
      BY <2>1, <2>2
  <1>6. CASE SaveTokens
    <2>1. /\ run' = None /\ out' = "done" /\ delivered' = delivered \cup {run.session}
          /\ run.session \in Sessions
          /\ UNCHANGED <<env, sessions, ready, excused, overlooked>>
      BY <1>1, <1>6 DEF SaveTokens, EndExchange, Exchanges
    <2>2. tokens' \in TokenFiles
      BY <1>1, <1>6 DEF SaveTokens, TokenFiles, TypeOK, Exchanges, OrNone
    <2> QED
      BY <2>1, <2>2 DEF TypeOK, RunShape, ReadyShape, Missing, ReadyMeansRunnable,
                        NothingElseSpentInVain, Verdicts
  <1>7. CASE SaveUnreadable
    <2>1. run.tokenKey # None
      BY <1>1, <1>7 DEF SaveUnreadable, RunShape
    <2>2. tokens.key # None
      BY <1>7, <2>1 DEF SaveUnreadable, Readable
    <2>3. /\ run' = None /\ out' = "failed" /\ overlooked' = overlooked \cup {run.session}
          /\ run.session \in Sessions
          /\ UNCHANGED <<env, Files, ready, delivered, excused>>
      BY <1>1, <1>7, <2>2 DEF SaveUnreadable, EndExchange, Exchanges
    <2> QED
      BY <2>3 DEF TypeOK, RunShape, ReadyShape, Missing, ReadyMeansRunnable, NothingElseSpentInVain,
                  Verdicts, Files
  <1>8. CASE Break
    <2>1. /\ run' = None /\ out' \in {"failed", "none"}
          /\ excused' = IF run.pc = "consume" THEN excused ELSE excused \cup {run.session}
          /\ run.session \in Sessions
          /\ UNCHANGED <<env, Files, ready, delivered, overlooked>>
      BY <1>1, <1>8 DEF Break, EndExchange, Exchanges
    <2> QED
      BY <2>1 DEF TypeOK, RunShape, ReadyShape, Missing, ReadyMeansRunnable, NothingElseSpentInVain,
                  Verdicts, Files
  <1>9. CASE BuildFails
    <2>1. /\ run' = None /\ out' = "failed" /\ overlooked' = overlooked \cup {run.session}
          /\ run.session \in Sessions
          /\ UNCHANGED <<env, Files, ready, delivered, excused>>
      BY <1>1, <1>9 DEF BuildFails, EndExchange, Exchanges
    <2> QED
      BY <2>1 DEF TypeOK, RunShape, ReadyShape, Missing, ReadyMeansRunnable, NothingElseSpentInVain,
                  Verdicts, Files
  <1> QED
    BY <1>2, <1>3, <1>4, <1>5, <1>6, <1>7, <1>8, <1>9

\* The inductive invariant of the command line.
THEOREM CommandsInvariant == Spec => []CommandsInv
  <1>1. CommandsInv /\ [Next]_vars => CommandsInv'
    <2> SUFFICES ASSUME CommandsInv, [Next]_vars PROVE CommandsInv'
      OBVIOUS
    <2>1. CASE UNCHANGED vars
      BY <2>1 DEF vars, CommandsInv, TypeOK, RunShape, ReadyShape, Missing, NothingElseSpentInVain,
                  ReadyMeansRunnable
    <2>2. CASE Edit \/ Doctor
      BY <2>2, ReadinessKept
    <2>3. CASE LoadFails \/ TokenStatus \/ InspectOffline
      BY <2>3, FlaglessCommandsKeep
    <2>4. CASE \E f \in Flags: Download(f) \/ InspectExternal(f)
      BY <2>4, FlagCommandsKeep
    <2>5. CASE \E p \in Profiles, f \in Flags: Logout(p, f) \/ InspectOfficial(p, f)
      BY <2>5, LogoutKeeps, InspectOfficialKeeps
    <2>7. CASE \E s \in Sessions, f \in Flags, persist \in BOOLEAN:
                  \/ CreateSession(s, f, persist)
                  \/ \E p \in Profiles: StartExchange(s, p, f, persist)
      BY <2>7, CreateSessionKeeps, StartExchangeKeeps
    <2>6. CASE Consume \/ FindExpired \/ ConsumeFails \/ BuildFails \/ Redeem \/ SaveTokens
                \/ SaveUnreadable \/ Break
      BY <2>6, ExchangeStepsKeep
    <2> QED
      BY <2>1, <2>2, <2>3, <2>4, <2>5, <2>6, <2>7 DEF Next
  <1> QED
    BY <1>1, InitInv, PTL DEF Spec

\* The settings, both files and every command keep their types.
THEOREM CommandsTypeCorrect == Spec => []TypeOK
  BY CommandsInvariant, PTL DEF CommandsInv

\* A session that exchange-code spends brings its tokens, unless the outside, an
\* auth base URL no request can be built for, or a token file under another
\* key keeps them from the user.
THEOREM CommandsSpendNothingElseInVain == Spec => []NothingElseSpentInVain
  BY CommandsInvariant, PTL DEF CommandsInv

\* The list that doctor goes by covers the gates of every other command.
THEOREM CommandsReadyMeansRunnable == Spec => []ReadyMeansRunnable
  BY CommandsInvariant, PTL DEF CommandsInv

-----------------------------------------------------------------------------
StoresKept ==
    /\ sessions.key # None => sessions'.key = sessions.key
    /\ tokens.key # None => tokens'.key = tokens.key
    /\ \A s \in Sessions: sessions.status[s] # None =>
          sessions'.status[s] \in {sessions.status[s], "consumed", "expired"}
    /\ \A s \in Sessions: sessions.status[s] \in {"consumed", "expired"} =>
          sessions'.status[s] = sessions.status[s]
    /\ \A p, q \in Profiles:
          tokens'.holds[p] # tokens.holds[p] /\ tokens'.holds[q] # tokens.holds[q] => p = q

\* A step that leaves both files alone keeps them.
LEMMA UntouchedKept == UNCHANGED <<sessions, tokens>> => StoresKept
  BY DEF StoresKept

LEMMA SaidKept == \A verdict: Say(verdict) => StoresKept
  BY UntouchedKept DEF Say, Files

\* The steps that write the session file, and those that write the token file.
LEMMA WritesKept ==
    ASSUME TypeOK, Next PROVE StoresKept
  <1>1. ASSUME NEW s \in Sessions, NEW f \in Flags, NEW persist \in BOOLEAN,
               CreateSession(s, f, persist)
        PROVE  StoresKept
    <2>1. CASE \E verdict \in {"done", "failed", Refusal(f)}: Say(verdict)
      BY <2>1, SaidKept
    <2>2. CASE /\ Readable(sessions, env.sessionKey)
               /\ sessions' = [key |-> env.sessionKey,
                               status |-> [sessions.status EXCEPT ![s] = "pending"]]
               /\ tokens' = tokens
      BY <1>1, <2>2, CommandsAssumption
      DEF StoresKept, CreateSession, Readable, TypeOK, SessionFiles, Statuses
    <2> QED
      BY <1>1, <2>1, <2>2 DEF CreateSession
  <1>2. ASSUME NEW s \in Sessions, NEW p \in Profiles, NEW f \in Flags, NEW persist \in BOOLEAN,
               StartExchange(s, p, f, persist)
        PROVE  StoresKept
    BY <1>2, SaidKept, UntouchedKept DEF StartExchange, Files
  <1>3. CASE Consume
    BY <1>3 DEF Consume, ReadsSession, SaveSession, Readable, StoresKept, TypeOK, SessionFiles
  <1>4. CASE FindExpired
    BY <1>4 DEF FindExpired, ReadsSession, SaveSession, Readable, StoresKept, TypeOK, SessionFiles
  <1>5. CASE SaveTokens
    <2>1. /\ sessions' = sessions /\ tokens'.key = run.tokenKey
          /\ tokens.key # None => tokens.key = run.tokenKey
          /\ tokens'.holds = [tokens.holds EXCEPT ![run.profile] = run.session]
      BY <1>5 DEF SaveTokens, Readable
    <2>2. \A p \in Profiles: tokens'.holds[p] # tokens.holds[p] => p = run.profile
      BY <2>1 DEF TypeOK, TokenFiles
    <2> QED
      BY <2>1, <2>2 DEF StoresKept
  <1>6. ASSUME NEW p \in Profiles, NEW f \in Flags, Logout(p, f)
        PROVE  StoresKept
    <2>1. CASE \E verdict \in {"failed", Refusal(f)}: Say(verdict)
      BY <2>1, SaidKept
    <2>2. CASE /\ Readable(tokens, env.tokenKey)
               /\ tokens' = [key |-> env.tokenKey, holds |-> [tokens.holds EXCEPT ![p] = None]]
               /\ sessions' = sessions
      <3>1. \A q \in Profiles: tokens'.holds[q] # tokens.holds[q] => q = p
        BY <2>2 DEF TypeOK, TokenFiles
      <3>2. tokens.key # None => tokens'.key = tokens.key
        BY <2>2 DEF Readable
      <3> QED
        BY <2>2, <3>1, <3>2 DEF StoresKept
    <2> QED
      BY <1>6, <2>1, <2>2 DEF Logout
  <1>7. CASE Edit \/ Doctor \/ LoadFails \/ ConsumeFails \/ BuildFails \/ Redeem \/ SaveUnreadable \/ Break
    BY <1>7, UntouchedKept
       DEF Edit, Doctor, LoadFails, ConsumeFails, BuildFails, Redeem, SaveUnreadable, Break, Files
  <1>8. CASE TokenStatus \/ InspectOffline
    BY <1>8, SaidKept DEF TokenStatus, InspectOffline
  <1>9. ASSUME NEW p \in Profiles, NEW f \in Flags, InspectOfficial(p, f)
        PROVE  StoresKept
    BY <1>9, SaidKept DEF InspectOfficial
  <1>10. ASSUME NEW f \in Flags, Download(f) \/ InspectExternal(f)
         PROVE  StoresKept
    BY <1>10, SaidKept DEF Download, InspectExternal
  <1> QED
    BY <1>1, <1>2, <1>3, <1>4, <1>5, <1>6, <1>7, <1>8, <1>9, <1>10 DEF Next

\* No command overwrites a file it cannot read, whatever keys are configured.
THEOREM CommandsStoresSurvive == Spec => StoresSurviveKeyChange
  <1>1. TypeOK /\ [Next]_vars => [StoresKept]_vars
    BY WritesKept
  <1> QED
    BY <1>1, CommandsTypeCorrect, PTL DEF Spec, StoresSurviveKeyChange, StoresKept

-----------------------------------------------------------------------------
(* The session file implements the abstract life cycle. *)

\* The five ways a step can matter to a session's life: it leaves sessions
\* alone, creates one, spends one, finds one expired or delivers its tokens.
LeavesSessions ==
    /\ UNCHANGED <<sessions, delivered>>
    /\ \/ run' = None
       \/ run'.pc = "consume"
       \/ run # None /\ run.pc \in {"post", "save"} /\ run'.session = run.session
       \/ run' = run

Sets(s, status) ==
    /\ sessions'.status = [sessions.status EXCEPT ![s] = status]
    /\ delivered' = delivered

Creates(s) == sessions.status[s] = None /\ Sets(s, "pending") /\ run' = None
Spends(s) == sessions.status[s] = "pending" /\ Sets(s, "consumed") /\ run'.session = s
Expires(s) == sessions.status[s] \in {"pending", "expired"} /\ Sets(s, "expired") /\ run' = None
Delivers(s) ==
    /\ run # None /\ run.session = s /\ run.pc \in {"post", "save"}
    /\ sessions' = sessions /\ delivered' = delivered \cup {s} /\ run' = None

\* A command that only says something leaves them alone.
LEMMA SaidLeaves == \A verdict: Say(verdict) => LeavesSessions
  BY DEF Say, Files, History, LeavesSessions

LEMMA EveryStepIsOne ==
    ASSUME CommandsInv, Next
    PROVE  LeavesSessions \/ \E s \in Sessions: Creates(s) \/ Spends(s) \/ Expires(s) \/ Delivers(s)
  <1>1. TypeOK /\ sessions.status \in [Sessions -> OrNone(Statuses)]
    BY DEF CommandsInv, TypeOK, SessionFiles
  <1>2. run # None => run.session \in Sessions /\ run \in Exchanges
    BY <1>1 DEF TypeOK, Exchanges
  <1>3. ASSUME NEW s \in Sessions, NEW f \in Flags, NEW persist \in BOOLEAN,
               CreateSession(s, f, persist)
        PROVE  LeavesSessions \/ Creates(s)
    <2>1. CASE \E verdict \in {"done", "failed", Refusal(f)}: Say(verdict)
      BY <2>1, SaidLeaves
    <2>2. CASE /\ sessions' = [key |-> env.sessionKey,
                               status |-> [sessions.status EXCEPT ![s] = "pending"]]
               /\ UNCHANGED <<run, delivered>>
      BY <1>3, <2>2 DEF CreateSession, Loaded, Creates, Sets
    <2> QED
      BY <1>3, <2>1, <2>2 DEF CreateSession, History
  <1>4. ASSUME NEW s \in Sessions, NEW p \in Profiles, NEW f \in Flags, NEW persist \in BOOLEAN,
               StartExchange(s, p, f, persist)
        PROVE  LeavesSessions
    <2>1. CASE Say(Refusal(f))
      BY <2>1, SaidLeaves
    <2>2. CASE run'.pc = "consume" /\ UNCHANGED <<Files, History>>
      BY <2>2 DEF LeavesSessions, Files, History
    <2> QED
      BY <1>4, <2>1, <2>2 DEF StartExchange
  <1>5. CASE Consume
    <2>1. run # None /\ sessions.status[run.session] = "pending" /\ delivered' = delivered
      BY <1>5 DEF Consume, ReadsSession, History
    <2>2. sessions'.status = [sessions.status EXCEPT ![run.session] = "consumed"]
      BY <1>5 DEF Consume, SaveSession
    <2>3. run'.session = run.session
      BY <1>2, <1>5, <2>1 DEF Consume, Exchanges
    <2> QED
      BY <1>2, <2>1, <2>2, <2>3 DEF Spends, Sets
  <1>6. CASE FindExpired
    <2>1. /\ run # None /\ run' = None /\ delivered' = delivered
          /\ sessions.status[run.session] \notin {None, "consumed"}
          /\ sessions'.status = [sessions.status EXCEPT ![run.session] = "expired"]
      BY <1>6 DEF FindExpired, ReadsSession, SaveSession, EndExchange, History
    <2>2. sessions.status[run.session] \in {"pending", "expired"}
      BY <1>1, <1>2, <2>1 DEF OrNone, Statuses
    <2> QED
      BY <1>2, <2>1, <2>2 DEF Expires, Sets
  <1>7. CASE Redeem
    <2>1. CASE run.persist
      <3>1. /\ run # None /\ run.pc = "post" /\ run' = [run EXCEPT !.pc = "save"]
            /\ UNCHANGED <<Files, delivered>>
        BY <1>7, <2>1 DEF Redeem
      <3>2. run'.session = run.session
        BY <1>2, <3>1 DEF Exchanges
      <3> QED
        BY <3>1, <3>2 DEF LeavesSessions, Files
    <2>2. CASE ~run.persist
      BY <1>2, <1>7, <2>2 DEF Redeem, EndExchange, Delivers, Files
    <2> QED
      BY <2>1, <2>2
  <1>8. CASE SaveTokens
    BY <1>2, <1>8 DEF SaveTokens, EndExchange, Delivers
  <1>9. CASE ConsumeFails \/ BuildFails \/ SaveUnreadable \/ Break
    BY <1>9
       DEF ConsumeFails, BuildFails, SaveUnreadable, Break, EndExchange, LeavesSessions, Files, History
  <1>10. CASE Edit \/ Doctor \/ LoadFails
    BY <1>10 DEF Edit, Doctor, LoadFails, LeavesSessions, Files, History
  <1>11. ASSUME NEW p \in Profiles, NEW f \in Flags, Logout(p, f) \/ InspectOfficial(p, f)
         PROVE  LeavesSessions
    <2>1. CASE Logout(p, f)
      BY <2>1, SaidLeaves DEF Logout, LeavesSessions, History
    <2>2. CASE InspectOfficial(p, f)
      BY <2>2, SaidLeaves DEF InspectOfficial
    <2> QED
      BY <1>11, <2>1, <2>2
  <1>12. CASE TokenStatus \/ InspectOffline
    BY <1>12, SaidLeaves DEF TokenStatus, InspectOffline
  <1>13. ASSUME NEW f \in Flags, Download(f) \/ InspectExternal(f)
         PROVE  LeavesSessions
    BY <1>13, SaidLeaves DEF Download, InspectExternal
  <1> QED
    BY <1>3, <1>4, <1>5, <1>6, <1>7, <1>8, <1>9, <1>10, <1>11, <1>12, <1>13 DEF Next

\* A session that is in use or delivered stays spent.
LEMMA SpentKept ==
    ASSUME LifecycleInv, Next
    PROVE  SpentShape'
  <1>1. /\ sessions.status \in [Sessions -> OrNone(Statuses)] /\ delivered \in SUBSET Sessions
        /\ run # None => run.session \in Sessions
        /\ SpentShape
    BY DEF LifecycleInv, CommandsInv, TypeOK, SessionFiles, Exchanges
  <1>2. CASE LeavesSessions
    BY <1>1, <1>2 DEF LeavesSessions, SpentShape
  <1>3. ASSUME NEW s \in Sessions, Creates(s) \/ Expires(s)
        PROVE  SpentShape'
    <2>1. /\ run' = None /\ delivered' = delivered
          /\ \A t \in Sessions \ {s}: sessions'.status[t] = sessions.status[t]
      BY <1>1, <1>3 DEF Creates, Expires, Sets
    <2>2. s \notin delivered
      BY <1>1, <1>3, CommandsAssumption DEF Creates, Expires, SpentShape, Statuses
    <2> QED
      BY <1>1, <2>1, <2>2 DEF SpentShape
  <1>4. ASSUME NEW s \in Sessions, Spends(s)
        PROVE  SpentShape'
    <2>1. /\ run'.session = s /\ delivered' = delivered /\ sessions'.status[s] = "consumed"
          /\ \A t \in Sessions \ {s}: sessions'.status[t] = sessions.status[t]
      BY <1>1, <1>4 DEF Spends, Sets
    <2> QED
      BY <1>1, <2>1 DEF SpentShape
  <1>5. ASSUME NEW s \in Sessions, Delivers(s)
        PROVE  SpentShape'
    BY <1>1, <1>5 DEF Delivers, SpentShape
  <1> QED
    BY <1>2, <1>3, <1>4, <1>5, EveryStepIsOne DEF LifecycleInv

\* What the file and the history say of every session's life.
THEOREM LifecycleInvariant == Spec => []LifecycleInv
  <1>1. Init => SpentShape
    BY DEF Init, SpentShape
  <1>2. LifecycleInv /\ [Next]_vars => SpentShape'
    <2>1. LifecycleInv /\ UNCHANGED vars => SpentShape'
      BY DEF LifecycleInv, SpentShape, vars
    <2> QED
      BY <2>1, SpentKept
  <1> QED
    BY <1>1, <1>2, CommandsInvariant, PTL DEF Spec, LifecycleInv

LEMMA InitIsLifecycle == Init => Lifecycle!LInit
  <1> SUFFICES ASSUME Init PROVE Lifecycle!LInit
    OBVIOUS
  <1>1. \A s \in Sessions: sessions.status[s] = None
    BY DEF Init
  <1>2. \A s \in Sessions: PhaseOf(s) = "unknown"
    BY <1>1, CommandsAssumption DEF PhaseOf, Statuses
  <1> QED
    BY <1>2 DEF Lifecycle!LInit, Phase

\* A change of one session's phase along its life is a step of that life.
LEMMA ForwardStep ==
    ASSUME NEW s \in Sessions, \A t \in Sessions \ {s}: PhaseOf(t)' = PhaseOf(t),
           <<PhaseOf(s), PhaseOf(s)'>> \in Lifecycle!Forward
    PROVE  Lifecycle!Advance(s)
  <1>1. Phase = [t \in Sessions |-> PhaseOf(t)] /\ Phase' = [t \in Sessions |-> PhaseOf(t)']
    BY DEF Phase
  <1>2. Phase[s] = PhaseOf(s) /\ Phase' = [Phase EXCEPT ![s] = PhaseOf(s)']
    BY <1>1
  <1>3. \E f \in Lifecycle!Forward: Phase[s] = f[1] /\ Phase' = [Phase EXCEPT ![s] = f[2]]
    BY <1>2
  <1> QED
    BY <1>3 DEF Lifecycle!Advance

\* Every step takes one session one step forward, or none.
LEMMA StepKeepsLifecycle ==
    ASSUME LifecycleInv, LifecycleInv', Next
    PROVE  Lifecycle!LNext \/ UNCHANGED Lifecycle!lvars
  <1>1. /\ sessions.status \in [Sessions -> OrNone(Statuses)] /\ delivered \in SUBSET Sessions
        /\ SpentShape
    BY DEF LifecycleInv, CommandsInv, TypeOK, SessionFiles
  <1>2. ASSUME NEW s \in Sessions, Lifecycle!Advance(s) \/ UNCHANGED Phase
        PROVE  Lifecycle!LNext \/ UNCHANGED Lifecycle!lvars
    BY <1>2 DEF Lifecycle!LNext, Lifecycle!lvars
  <1>3. CASE LeavesSessions
    BY <1>3 DEF LeavesSessions, Lifecycle!lvars, Phase, PhaseOf
  <1>4. ASSUME NEW s \in Sessions, Creates(s) \/ Spends(s) \/ Expires(s)
        PROVE  Lifecycle!Advance(s) \/ UNCHANGED Phase
    <2>1. /\ delivered' = delivered
          /\ \A t \in Sessions \ {s}: sessions'.status[t] = sessions.status[t]
          /\ Creates(s) => sessions'.status[s] = "pending"
          /\ Spends(s) => sessions'.status[s] = "consumed"
          /\ Expires(s) => sessions'.status[s] = "expired"
      BY <1>1, <1>4 DEF Creates, Spends, Expires, Sets
    <2>2. \A t \in Sessions \ {s}: PhaseOf(t)' = PhaseOf(t)
      BY <2>1 DEF PhaseOf
    <2>3. s \notin delivered
      BY <1>1, <1>4, CommandsAssumption DEF Creates, Spends, Expires, SpentShape, Statuses
    <2>4. CASE Creates(s)
      <3>1. PhaseOf(s) = "unknown" /\ PhaseOf(s)' = "usable"
        BY <2>1, <2>4, CommandsAssumption DEF Creates, PhaseOf, Statuses
      <3> QED
        BY <2>2, <3>1, ForwardStep DEF Lifecycle!Forward
    <2>5. CASE Spends(s)
      <3>1. PhaseOf(s) = "usable" /\ PhaseOf(s)' = "spent"
        BY <2>1, <2>3, <2>5, CommandsAssumption DEF Spends, PhaseOf, Statuses
      <3> QED
        BY <2>2, <3>1, ForwardStep DEF Lifecycle!Forward
    <2>6. CASE Expires(s)
      <3>1. PhaseOf(s) \in {"usable", "expired"} /\ PhaseOf(s)' = "expired"
        BY <2>1, <2>6, CommandsAssumption DEF Expires, PhaseOf, Statuses
      <3>2. CASE PhaseOf(s) = "usable"
        BY <2>2, <3>1, <3>2, ForwardStep DEF Lifecycle!Forward
      <3>3. CASE PhaseOf(s) = "expired"
        BY <2>2, <3>1, <3>3 DEF Phase
      <3> QED
        BY <3>1, <3>2, <3>3
    <2> QED
      BY <1>4, <2>4, <2>5, <2>6
  <1>5. ASSUME NEW s \in Sessions, Delivers(s)
        PROVE  Lifecycle!Advance(s) \/ UNCHANGED Phase
    <2>1. /\ sessions.status[s] = "consumed" /\ sessions' = sessions
          /\ delivered' = delivered \cup {s}
      BY <1>1, <1>5 DEF Delivers, SpentShape
    <2>2. \A t \in Sessions \ {s}: PhaseOf(t)' = PhaseOf(t)
      BY <2>1 DEF PhaseOf
    <2>3. /\ PhaseOf(s) = (IF s \in delivered THEN "redeemed" ELSE "spent")
          /\ PhaseOf(s)' = "redeemed"
      BY <2>1, CommandsAssumption DEF PhaseOf, Statuses
    <2>4. CASE s \in delivered
      BY <2>2, <2>3, <2>4 DEF Phase
    <2>5. CASE s \notin delivered
      BY <2>2, <2>3, <2>5, ForwardStep DEF Lifecycle!Forward
    <2> QED
      BY <2>4, <2>5
  <1> QED
    BY <1>2, <1>3, <1>4, <1>5, EveryStepIsOne DEF LifecycleInv

\* For any sessions and keys: commands that run one at a time are a life cycle
\* without the proviso for overlaps, however the settings are edited, files
\* left behind under old keys, and exchanges killed.
THEOREM CommandsKeepLifecycle == Spec => KeepsLifecycle
  <1>1. LifecycleInv /\ LifecycleInv' /\ [Next]_vars => [Lifecycle!LNext]_(Lifecycle!lvars)
    <2>1. UNCHANGED vars => UNCHANGED Lifecycle!lvars
      BY DEF vars, Lifecycle!lvars, Phase, PhaseOf
    <2> QED
      BY <2>1, StepKeepsLifecycle
  <1> QED
    BY <1>1, InitIsLifecycle, LifecycleInvariant, PTL DEF Spec, KeepsLifecycle, Lifecycle!LSpec

-----------------------------------------------------------------------------
\* `resolver inspect --offline` foretells what official mode would ask for:
\* it reports that the network is required of those inputs, and no others.
THEOREM OfflineForetells == \A in \in Inputs: NeedsNetwork(in) <=> Asks(in)
  <1> SUFFICES ASSUME NEW in \in Inputs PROVE NeedsNetwork(in) <=> Asks(in)
    OBVIOUS
  <1>1. TypeOf(in) \in {"shortlink", "user", "track", "playlist", "unknown"}
    BY DEF TypeOf
  <1>2. in.host = "none" => TypeOf(in) = "unknown"
    BY DEF TypeOf
  <1> QED
    BY <1>1, <1>2 DEF NeedsNetwork, Asks, HasUrl

\* The token goes out only for a location on SoundCloud, and what is reported
\* as resolved was answered by a payload without forbidden or malformed fields.
THEOREM ResolvedIsClean ==
    ASSUME NEW in \in Inputs, NEW answer \in Answers, Official(in, answer).status = "resolved"
    PROVE  /\ in.host \in {"soundcloud", "shortlink"}
           /\ answer.failure = "none"
           /\ ~Forbidden(answer.payload)
           /\ ~answer.payload.malformed
  <1>1. Asks(in) /\ Read(answer).status = "resolved"
    BY DEF Official
  <1>2. in.host \in {"soundcloud", "shortlink"}
    BY <1>1 DEF Asks, TypeOf
  <1>3. answer.failure = "none" /\ Mapped(answer.payload).status = "resolved"
    <2>1. Error.status = "error"
      BY DEF Error
    <2>2. answer.failure # "not_found"
      BY <1>1 DEF Read
    <2>3. answer.failure = "none"
      BY <1>1, <2>1, <2>2 DEF Read
    <2> QED
      BY <1>1, <2>3 DEF Read
  <1>4. ~Forbidden(answer.payload)
    BY <1>3 DEF Mapped, Error
  <1>5. CASE answer.payload.status = "absent"
    <2>1. OfficialForm(answer.payload).status = "resolved"
      BY <1>3, <1>4, <1>5 DEF Mapped
    <2>2. ~answer.payload.malformed
      BY <2>1 DEF OfficialForm, Error
    <2> QED
      BY <1>2, <1>3, <1>4, <2>2
  <1>6. CASE answer.payload.status # "absent"
    <2>1. ExternalForm(answer.payload).status = "resolved"
      BY <1>3, <1>4, <1>6 DEF Mapped
    <2>2. ~answer.payload.malformed
      BY <2>1 DEF ExternalForm, Error
    <2> QED
      BY <1>2, <1>3, <1>4, <2>2
  <1> QED
    BY <1>5, <1>6
=============================================================================
