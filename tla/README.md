# A formal model of soundcloud_downloader

TLA+ modules that model the program's core, TLC configurations that check them on small instances, and TLAPS
proofs that hold for every value of the constants. Paths below are relative to the repository; where a package
is named without a prefix it lies below `src/soundcloud_downloader/`.

1. [The system](#1-the-system): components, state, operations, interactions
2. [What is hard about it](#2-what-is-hard-about-it)
3. [The modules](#3-the-modules) and how they correspond to the code
4. [The runs](#4-the-runs): what each checks and shows, bounds, fairness
5. [What is proved](#5-what-is-proved)
6. [Where the code and its documents disagree](#6-where-the-code-and-its-documents-disagree)
7. [What is abstracted and what is not modelled](#7-what-is-abstracted-and-what-is-not-modelled)
8. [Plan](#8-plan)
9. [How to run it](#9-how-to-run-it)

## 1. The system

`soundcloud-downloader` is a command line program. Every command is a process of its own that keeps nothing in
memory between runs; what lasts is an encrypted token document, an encrypted session document and an artifact
storage root. Within one process there is no concurrency: the asynchronous code awaits one call after another.
All concurrency is between processes, and between a process and the services it calls.

| component | code | state | operations |
|---|---|---|---|
| HTTP client | `infrastructure/http/` | per call: URL, method, parameters, body, attempt, redirect count | `request`: send, retry, follow redirects, classify errors |
| Token store and refresh | `infrastructure/oauth/encrypted_token_store.py`, `auto_refreshing_access_token_provider.py`, `infrastructure/soundcloud/oauth_refresh.py` | the token document, one token set per profile | `get_access_token` with refresh, `save`, `delete` |
| Authorization sessions | `application/oauth_session_service.py`, `infrastructure/oauth/encrypted_session_store.py`, `application/oauth_token_workflow.py` | the session document: pending, consumed or expired, with an expiry | `create_session`, `consume_session`, code exchange |
| Artifact pipeline | `hls_segment_fetcher.py`, `hls_media_assembler.py`, `infrastructure/media/`, `infrastructure/storage/` | fixed paths below the storage root | stage segments, join them, remux to M4A, export to MP3 or WAV |
| Reconstruction policy | `domain/reconstruction_policy.py`, `domain/policy.py` | none | `decide(context, requested_profile)` |
| HLS analysis and planning | `hls_manifest_service.py`, `application/hls_manifest_analyzer.py`, `resolved_stream_analysis_workflow.py`, `hls_segment_planner.py` | per run: manifest text, pending tags | fetch, classify, choose a variant, parse segments |
| Download workflow | `application/track_download_workflow.py`, `cli/download.py` | per run: stage reached, decision, result | `download track` |
| Resolver and streams services | `official_resolver.py`, `official_streams.py`, `transcoding_endpoint_service.py`, `http_resolver.py` | none | one HTTP call each, with its errors |
| Response mapper, metadata | `response_mapper.py`, `application/metadata_normalizer.py` | none | validate and convert payloads |
| Resolver input and service | `application/resolver_input.py`, `resolver_service.py`, `cli/resolver.py` | none | classify URLs, print what was resolved |
| Command line and settings | `cli/`, `config/settings.py` | per process: the settings, overridden by its flags | gates, `doctor`, `oauth ...`, `resolver inspect` |
| Redaction, PKCE | `infrastructure/observability/`, `application/oauth_pkce.py` | none | pure functions |

How they interact:

```
 download track --> DownloadWorkflow --> token provider (twice) --> token store --> token document
                        |                       '--> refresh --> HTTP client --> authorization server
                        |--> resolver, transcoding or streams endpoint --> HTTP client --> API
                        |--> stream analysis --> HLS manifest service, analyzer --> media host
                        |          '--> reconstruction policy
                        |--> segment planner (the same manifest text, parsed a second time)
                        '--> fetcher, assembler, remuxer, exporter --> artifact storage root

 oauth create-session / exchange-code --> session service --> session document
                        '--> code exchange --> HTTP client;  --persist-token --> token document
 oauth logout ------------------------------------------------------------------> token document
```

What makes each component correct:

- *HTTP client.* A call ends; it sends no more messages than attempts and redirects allow; no chain of
  redirects leaves the allowed hosts or carries parameters or a body further than it should; a transient failure
  is reported only after the last attempt.
- *Tokens.* A profile's stored refresh token is one the server accepts; a token set is stored under the profile
  it was issued for; a logout is final; refreshing never makes a profile unrefreshable.
- *Sessions.* A verifier is sent by one exchange, in the attempts of one HTTP call; what expired stays expired; a session the user was told of exists.
- *Pipeline.* A file holds one track, whole; a run reports its own track; a reported path stays readable.
- *Policy.* It fails closed, gives the profile that was asked for, names a remedy that works, and more rights
  never lead to a denial.
- *HLS.* What is planned is clear and planned as written; encryption is reported as such; the best variant is
  fetched; the analysis ends.
- *Workflow.* Nothing is staged without a decision; no excerpt is ever staged; a failure names its stage, unless it
  is the want of a token.
- *Resolver.* What is reported as resolved was asked for and answered cleanly; offline mode foretells what
  official mode sends.
- *Command line.* A login is not spent before what its tokens need has been checked (two things are checked too
  late, see `commands` in section 4); what `doctor` calls ready is not refused; a file under another key is never overwritten.

## 2. What is hard about it

`PROJECT.json` lists the hazards line by line, with the properties that would notice if they went wrong, or a note
why none does. They come in six groups.

- **Documents written without a lock.** `save` and `delete` read the whole document, change one entry and
  replace the file atomically. The file is never torn, but the second of two overlapping writes undoes the first,
  whichever profile or session that was for.
- **Values read before a long call and used after it.** A token set before the refresh request, a session before
  it is marked consumed, an assembled file before ffmpeg has run.
- **Answers lost after the server has acted.** The HTTP client repeats a POST. A refresh token that may be used
  only once is then presented twice, an authorization code and its verifier several times. The process may also be killed, or fail to save, between answer and rename.
- **Two components that must agree without sharing code.** The analyzer and the planner parse the same playlist
  with different rules; the selection of a source is made before the policy decides and knows nothing of it.
- **Loops driven by a peer.** Redirects and retries, and playlists that name further playlists.
- **Settings that change between commands.** The gates of a command, the report of `doctor` and the key of a file
  on disk are each about the settings of one moment.

## 3. The modules

Each component has a module whose actions are its handlers or the steps between two places where another
process, a peer or a kill can intervene. `MC*` modules give constants their values; `*_proofs` modules hold
theorems. Definitions named `Mut...` are mutated forms of the definition below them: what a plausible bug would
look like, kept to show that each checked property depends on the code. `PROJECT.json` maps every definition to
the source lines it models.

### HttpClient

One call of `SafeAsyncHttpClient.request` (`infrastructure/http/client.py`). `host`, `method`, `params`, `body`
are the `current_*` variables of the loop; `attempt` and `redirects` its counters. `pc = "send"` is the top of
the loop, `pc = "await"` a request on the wire. Each branch of the loop is an action: `RefuseOffline`, `Send`,
`RetryTransport`, `GiveUpTransport`, `EscapeUnclassified` (an httpx error that no `except` names),
`RedirectLimit`, `RejectRedirect`, `FollowRedirect`, `RetryStatus`, `ReturnResponse`. The peer answers with any
of the four classes of status the loop tells apart and any `Location` (`SafeRedirect` is `_safe_redirect_url`).
`wire`, `sends` and `seenOther` are history: the messages that were sent, how many, and whether a 303 came.

### OAuthTokens

The token document `doc` maps a profile to a stored token set, which is reduced to its refresh token, a set
without one, or nothing. `job[p]` holds the local variables of the command that process `p` runs, with the
document it read (`snap`) and the attempt of its refresh POST. Three commands start: `StartGet`
(`get_access_token`), `StartLogin` (the save after a code exchange), `StartLogout`. `SaveReads` and
`SaveReplaces` are the two halves of `save` and `delete`; anything may happen between them. `ServerRefreshes`,
`ReplyLost`, `ReplyFails`, `ReplyArrives` are what can become of a refresh request, `PostRetries` and
`PostFails` what happens before the server has acted. The authorization server is the environment: `live` and
`issued` are the tokens it accepts and ever issued; `singleUse` says whether it replaces a refresh token when it
is used. `Crash` may end a command anywhere.

`clean` records what costs a profile its credential: an answer lost after a rotation, a rotated token that was
not saved (by a failure or a kill), and a document replaced by one that was read before another change.
`CredentialLive` says that nothing else does. `quiet` records logouts that ran alone, `past` the tokens that each
profile's entry has held, `torn` whether a document has been written over one it was not read from.

### TokenRegister, implemented by OAuthTokens

The abstract specification of the store: one register per profile, which is set in one step, and a server that
renews only what the register has held. A write that overlapped another may put the registers of other profiles
back, but only to a token they held before, or to none. `OAuthTokens` implements it (`ImplementsRegister`) with
`reg <- doc` and `accepted <- live`: `SaveReplaces` maps to `Write`, `StartLogin` to `Issue`, a rotating
`ServerRefreshes` to `Renew`, every other step to a stutter. What is stored is always accepted by the server at
that moment; that a server which rotates may have withdrawn it since from a profile that fell back is what
`clean` and `CredentialLive` are about.

### OAuthSessions

The session document `doc` maps an id to pending, consumed or expired. `StartCreate` is `create-session
--persist`; `StartExchange`, `GetSession`, then one of `Reject`, `FindExpired`, `Accept` are `consume_session`;
`SaveReads` and `SaveReplaces` are the store. `Redeem` begins the HTTP call that sends code and verifier;
`SafeAsyncHttpClient` repeats a POST like any other request, so that `Resend` sends them again, at most
`MaxAttempts` times in all, until the call returns or gives up (`Answered`). `redeemed` counts the exchanges that
sent a session's verifier, `sends` the requests. `due` is the set of sessions
whose expiry the wall clock has reached, and `ClockMoves` moves the clock either way. `Stop` is any error or
kill. `clean` is FALSE once a command has acted on something that had changed since it read it.

### SessionLifecycle, implemented by OAuthSessions and Commands

The abstract specification: a session is unknown, usable, then expired or spent, and once spent redeemed. It only
moves forward and one session at a time; `interfered` switches the promise off. `OAuthSessions` implements it
(`FollowsLifecycle`) with `phase <- Phase`, which reads a session's phase off the file and the history of what
was sent, and `interfered <- ~clean`. `SaveReplaces` maps to the creation, the expiry or the spending of a
session, `Redeem` to its redemption, every other step to a stutter, `Resend` included as long as the attempts of
the one call are not exceeded; in particular an exchange that dies between
the two, a repeated command and a clock set back do not move a session backwards.

`Commands` implements it too (`KeepsLifecycle`), with `interfered <- FALSE`: its commands run one at a time, so the
proviso is not needed, but the settings, and with them the key of the file, change between two of their steps.
There a session is redeemed when its tokens reach the user, which is later than the request.

### ArtifactPipeline

`seg`, `media` and `final` are the files below the storage root: `hls/segments/NNNNNN.bin`,
`hls/assembled/media.bin`, `audio/final.<ext>`. A file is the sequence of segments its bytes come from, so that
a mixture of two tracks can be seen. `StageSegment` is one turn of the fetcher's loop, `ReadSegment` one turn
of the assembler's with its checksum (`Verified`), `WriteMedia` the joined file, `ReadInput`, `WriteOutput` and
`NextConversion` the remuxer and then the exporter. `Fail` and `Crash` may come at any step; nothing that was
written is removed. `solo` names the process whose run overlapped no other.

### AudioLibrary, implemented by ArtifactPipeline

What the pipeline looks like from outside: a file per format, which is replaced in one step by a whole recording
and never taken away, and clients that are told of the recording they published themselves. `ArtifactPipeline`
implements it (`ImplementsLibrary`) with `file <- final`, `hand <- Published` (what a run has stored but not
answered for) and `told <- Reported`. `WriteOutput` maps to `Publish`, `Succeed` to `Tell`, `Start` to `Begin`,
failures, kills and `NextConversion` to `Forget` or a stutter. This holds for overlapping runs as well: which
track a file holds is the business of `SoloRunTruthful`, that it holds one whole track is promised always.

### MediaRun, implemented by ArtifactPipeline and DownloadWorkflow

The media half of a download as four stages (stage, assemble, remux, export) that a runner goes through in order,
leaving none out but the export of M4A, and that end with a delivery of the format asked for or with nothing. It
is what two models of the same code have to agree on: `DownloadWorkflow`, where each stage is one call
(`ImplementsMediaRun` with one runner), and `ArtifactPipeline`, which has the steps inside each stage and many
runs (`ImplementsMediaRun` with its processes; `StageName` says which stage a step belongs to). So the order in
which the workflow believes it calls the pipeline is the order in which the pipeline works.

### ReconstructionPolicy

`Decide` is `ReconstructionPolicyEngine.decide`, check by check. The engine has no state. The module wraps it in
a machine that evaluates it, then lets the context gain one right and evaluates it again (`SignIn`, `Subscribe`,
`OfferDownload`, ...): a step relates the decisions on two neighbouring contexts, which is what monotonicity is
about. Nobody can gain a right that everyone has, so the machine stops there, and its run does not check for
deadlock.

### HlsPlaylist

`Serve` builds a playlist line by line, `Fetch` takes it. `Rejection` is the analyzer's classification with the
validations around it, evaluated with a master playlist allowed (`RejectFirst`, `Select`) and again without
(`RejectMedia`, `Accept`), as `resolved_stream_analysis_workflow.py` does. `ReadVariants` is one turn of the loop
over a master playlist, `SelectVariant` the choice and the second fetch, `ReadSegments` one turn of the
planner's loop, `Plan` and `PlanFails` its ends. The loops are actions rather than recursive operators.

### DownloadWorkflow

The command from its options to the path it reports. `pc` follows the stages of
`TrackDownloadWorkflow.download_track`, one action each, and every action has the failures its call can end in,
with the stage and the reason they are reported under. It composes:

- the policy engine, as `Policy == INSTANCE ReconstructionPolicy`, in the context that
  `resolved_stream_analysis_workflow.py` builds (`AccessContext`);
- `OAuthTokens` by what the workflow sees of it: a token set is usable, is due for a refresh that fails, is missing,
  is due and has no refresh token, or cannot be read, and this can change (`AccountChanges`) up to the second token
  request. Only a failed refresh is an error that names a reason; the provider raises a plain one for the last three
  (`NoReason`);
- `HlsPlaylist` and `ArtifactPipeline` by their outcomes: `Analyze` and `PlanSegments` have the outcomes of the
  first, `StageSegments` to `Export` those of the second.

A transcoding has a protocol, a mark for excerpts, a MIME type and a preset; `Codec` takes it for AAC by either of
the last two, as `_media_codec` does, while `Rank`, the order of the selection, looks at the MIME type alone.

`Resolve`, `ResolveEndpoint`, `FetchStreams`, `SelectStream` are the services it calls, with what each failure
is turned into on its way up.

### Resolver

Operators without state. `TypeOf` is `ResolverInputNormalizer._classify` on the host and the parts of a path;
`NeedsNetwork` what offline mode reports; `Official` and `External` the two resolvers, from the input and the
answer of the service to a resource; `Mapped` is `SoundCloudResponseMapper.map_resolved_resource` with its two
forms of payload, the forbidden keys and the errors; `Reported` is `_official_failure_reason`.

### Commands

The command line over its settings and its two encrypted files. `env` is what the settings would load as, or
`Invalid`; `Edit` changes one of them between two commands or while an exchange is under way, which keeps the
settings it has loaded (`run`). `sessions` and `tokens` are the two files with the key each is encrypted under:
`Readable` is the outcome of `_read_document`. The gates of each command (`ExchangeGates`, `TokenGates`,
`DownloadGates`) stand beside `Missing`, the list `doctor` keeps. `StartExchange`, `Consume` (or `FindExpired`,
`ConsumeFails`), `Redeem` (or `BuildFails`), `SaveTokens` (or `SaveUnreadable`) are the steps of `exchange-code`,
any of which may break (`Break`). Whether a request can be built for the auth base URL (`run.url`) is settled when
the settings are loaded, by them or by `--auth-base-url`, but looked at only after the session is spent. The other commands are one action each. Commands run one at a time here; how they overlap is
what `OAuthTokens` and `OAuthSessions` are about. `delivered`, `excused` and `overlooked` are history: the sessions whose
tokens reached the user, those that the server, the disk or a kill cost them, and those that an unusable base URL
or a token file under another key did.
`InspectOfficial` says what `Resolver` says of some answer.

## 4. The runs

Distinct states are those of the configurations as they stand.

| run | question | instance | distinct states |
|---|---|---|---|
| `http` | can redirects and retries exceed the budget, leave the allowed hosts, carry too much, or not end | 3 hosts, 2 retries, at most 2 redirects, every request | 229,632 |
| `tokens` | what can cost a profile its credential, are the profiles of the document registers of their own | 2 processes, 2 profiles, 3 refresh tokens, 2 attempts | 819,080 |
| `tokens_live` | does every command end | 2 processes, 1 profile, 2 refresh tokens, 2 attempts | 24,800 |
| `artifacts` | can files mix tracks or reports lie | 2 processes, a track of 2 segments and one of 1 | 146,745 |
| `artifacts_live` | does every run end although another overwrites its files | 2 processes, 2 tracks of 1 segment | 234,809 |
| `sessions` | is a session redeemed by one exchange, what can overlapping writes undo | 2 processes, 2 sessions, 2 attempts | 1,841,548 |
| `policy` | is the engine closed, coherent and monotone | every context and profile | 124,800 |
| `hls` | do analyzer and planner agree, for every playlist | playlists of at most 5 lines, fetched at most twice | 654,342 |
| `workflow` | what is staged, what can succeed, which failures lose their cause | every command line, tracks with at most 2 transcodings | 1,318,952 |
| `commands` | when is a login lost, what is a report of `doctor` worth, what becomes of files under an old key | 2 keys, 2 sessions, 2 profiles, every flag | 572,098 |
| `output_path` | is `--output-path` honoured | as `workflow`, 1 transcoding | violated |
| `default_command` | do the documented commands get past the policy | as `workflow`, 1 transcoding | violated |

What they show, beyond the types:

- `http`. `SendBudget`: one attempt, the retries and the redirects of the request are all a peer can cause, in
  whatever order they come. `HostConfinement`: the check of each hop against the hop before it confines the whole
  chain. `RedirectStripsRequest`: after a redirect no parameters, after a 303 no body and no method but GET,
  retries included. `RetriesSpentBeforeFailure`, `EventuallyReturns`.
- `tokens`. `CredentialLive`: two processes refreshing the same profile at once do not lose it, also with
  single-use tokens; only the three events that `clean` records do. `QuietLogoutIsFinal`: after a logout that ran alone, no late process brings the profile
  back. A logout that overlaps a refresh may be undone by it, which is why the property speaks of quiet ones.
  `RefreshabilityKept`: a refresh never replaces a refreshable set by one that is not. `ImplementsRegister`:
  whatever overlaps, no write puts one profile's token under another, brings up a token the profile never had, or
  sends the server a token that is not this profile's; where writes do overlap, the harm is that an entry is set
  back.
- `artifacts`. `NoMixedMedia`: the checksum of each segment when it is read back is enough to keep tracks apart,
  although runs share every path. `SoloRunTruthful`: what a killed run left behind never gets into a later one.
  What does *not* hold for overlapping runs is that a run reports its own track: the remuxer and the exporter do
  not compare their input with the artifact they were given. The property says so by being about solo runs.
  `ImplementsLibrary`: seen from outside, files are replaced whole, no failure takes one away, and a result
  names what its own run published.
- `sessions`. `FollowsLifecycle`: through kills, failures and a clock that is set back, as long as no command
  acts on something that has changed, no session is lost from the file, none that was found expired is revived,
  none that was spent is usable again, and none is redeemed by two exchanges, nor in more requests than one HTTP
  call has attempts (the life cycle has no phase for either, so that `RedeemedOnce`, which is a theorem, follows).
  Within that call the code may well be sent several times: what the server makes of the second request, when it
  has answered the first and the answer was lost, is outside the model. Overlapping exchanges can redeem a session twice.
  `SettledIsFinal` holds even then for a session that a command running alone has spent.
- `policy`. `FailClosed`, `ProfileHonoured`, `ErrorNamesRemedy` (a denial for want of a login or of Go+ is not
  repeated once one has both and asks in Go+ mode) and `RightsMonotone`.
- `hls`. `PlannedIsClear`: key lines the analyzer overlooks (another case, another line) stop at the planner, and
  what the planner does not look at (init maps) at the analyzer. `PlanFaithful`: each segment has exactly the
  EXTINF and the byte range that stand between it and the URI before it. `EncryptionReported`: whatever the
  order of the checks, an encrypted media playlist is reported as encrypted. `VariantBest`, `AnalysisEnds`.
- `workflow`. `StagedIsEntitled`: nothing is staged before the policy has allowed it, and no excerpt ever,
  although the policy is never told of a preview; `OnlyRemuxSucceeds`: since no context says that a source may be downloaded, AAC remux in Go+ mode is the only
  thing the command can deliver, so `--format mp3` and `--format wav` succeed only with
  `--output-profile aac_m4a`; `DeniedOnlyWithoutMp4`: the selection never passes over a clean `audio/mp4`
  transcoding for a source that is denied. It says so of this MIME type only: AAC under another one (`audio/aac`, or
  `audio/mp4` with a codecs parameter, which the mapper turns into unknown) ranks behind `audio/mpeg` when MP3 or WAV
  is asked for, and no better than anything else for M4A, and a download that it would have made possible can be
  denied. `UnknownOnlyForLackOfToken`: `stage=unknown` in a running workflow means that between its two token
  requests the profile came to lack a token set that can be read and used or refreshed.
- `commands`. `NothingElseSpentInVain`: apart from the server, the disk and kills, two things cost a login, because
  they are looked at only after the session is spent: an auth base URL that no request can be built for
  (`BuildFails`) and a token file that is encrypted under a key no longer configured (`SaveUnreadable`). Every other
  setting is checked while the session can still be used. A client secret is not required by any gate; its absence
  shows as a refusal of the server. `ReadyMeansRunnable`: the list of `doctor` covers the gates of every
  command but the endpoint of the external resolver. `StoresSurviveKeyChange`: a file under another key stops
  the commands that need it, and is never replaced by a new one.

### Bounds

- `http`: with three hosts a redirect can stay, go to an allowed host or to one that is not; with two retries and
  two redirects every order of both occurs, before and after the limits. `SendCap` is one more than a call can
  send, so that the bound would be seen to be exceeded. The proofs cover every number of hosts and every limit.
- `tokens`: two processes are what an interleaving takes; two profiles show one's write undoing the other's;
  three refresh tokens allow a login and two rotations, or two logins and a rotation. When the server has no
  token left it cannot rotate, and the process may go on failing or retrying. The proofs cover every size.
- `artifacts`: with a track of two segments and one of one a run overwrites the other's first segment and leaves
  a stale second one. The liveness run has one segment per track, so that both runs overwrite the same file. The
  proofs cover every number of processes, tracks and segments.
- `sessions`: `RedeemCap` and `SendCap` are one more than a session should be redeemed and its verifier sent, so that
  an excess would be seen. Two attempts are a first and a repeated one; the proofs cover every number.
- `hls`: five lines hold two segments with a byte range before or between them, or two variants with different
  bandwidths; each of the two playlists is served anew.
- `workflow`: two transcodings are enough for one to be preferred to another; the violations need one.
- `commands`: two keys are an old and a new one; two sessions and two profiles show one's write losing the
  other's entry. `MaxParts` of `Resolver` is 4: paths are told apart up to their third part.
- Symmetry is used on processes (`tokens`, `artifacts`, `sessions`), on refresh tokens (`tokens`) and on keys,
  sessions and profiles (`commands`), never in a run with a liveness property. `Formats` are
  not permuted. The abstract specifications treat the elements of a permuted set alike, and the mappings are
  functions over these sets that name none of their elements.

### Fairness

`http` and `hls` assume weak fairness of the program's next step: every request has a timeout
(`http_timeout_seconds`), and between requests there is only computation. `tokens_live` and `artifacts_live`
assume it of `Proceed(p)`, the steps of a command that is running: its HTTP requests and its ffmpeg calls
(`ffmpeg_timeout_seconds`) have timeouts, and no lock is ever taken, so that a process never waits for another.
`Start` and `Crash` are not fair: nobody has to run a command and nothing has to be killed. Since `Proceed` is
one disjunction, fairness does not force a failure or a success; commands end because their retries and
segments are bounded. `sessions`, `policy`, `workflow`
and `commands` state no liveness; none of the abstract specifications has fairness.

## 5. What is proved

| theorem | for every | says |
|---|---|---|
| `ClientInvariant`, `ClientTypeCorrect`, `ClientSendBudget`, `ClientHostConfinement`, `ClientRedirectStrips`, `ClientRetriesSpent`, `ClientCallAdvances` (`HttpClient_proofs`) | set of hosts, number of retries, redirect limit | the five invariants of the run `http`, and the bound on the steps of a call |
| `TokensInvariant`, `TokensTypeCorrect`, `TokensBelong`, `TokensCredentialLive`, `TokensQuietLogout`, `TokensRefreshabilityKept`, `RegistersInvariant`, `TokensImplementRegister`, `TokensCommandsAdvance` (`OAuthTokens_proofs`) | set of processes, profiles and refresh tokens, number of attempts | all properties of the run `tokens`, the refinement included, that what is stored under a profile was issued for it, and the bound on the steps of a command |
| `SessionsInvariant`, `SessionsTypeCorrect`, `SessionsRedeemedOnce`, `SessionsSettledFinal`, `SessionsFollowLifecycle` (`OAuthSessions_proofs`) | set of processes and sessions, number of attempts | all properties of the run `sessions`, the refinement included, and `RedeemedOnce` |
| `PipelineInvariant`, `PipelineTypeCorrect`, `PipelineNoMixedMedia`, `PipelineSoloTruthful`, `PipelineReportedReadable`, `PipelineImplementsLibrary`, `PipelineImplementsMediaRun`, `PipelineRunsAdvance` (`ArtifactPipeline_proofs`) | set of processes and tracks, number of segments of each | all properties of the run `artifacts`, the refinement of `AudioLibrary` included, that of `MediaRun`, and the bound on the steps of a run |
| `PolicyInvariant`, `PolicyTypeCorrect`, `PolicyFailsClosed`, `PolicyHonoursProfile`, `PolicyErrorNamesRemedy`, `PolicyRightsMonotone` (`ReconstructionPolicy_proofs`) | context and profile | all properties of the run `policy` |
| `HlsInvariant`, `HlsTypeCorrect`, `HlsPlannedIsClear`, `HlsPlanFaithful`, `HlsEncryptionReported`, `HlsVariantBest`, `HlsAnalysisAdvances` (`HlsPlaylist_proofs`) | length of the playlists | all safety properties of the run `hls`, and the bound on its steps |
| `WorkflowInvariant`, `WorkflowTypeCorrect`, `WorkflowStagedEntitled`, `WorkflowOnlyRemux`, `WorkflowDeniedOnlyWithoutMp4`, `WorkflowUnknownOnlyForLackOfToken`, `WorkflowImplementsMediaRun` (`DownloadWorkflow_proofs`) | number of transcodings of a track | all properties of the run `workflow`, and that it implements `MediaRun` |
| `CommandsInvariant`, `CommandsTypeCorrect`, `CommandsSpendNothingElseInVain`, `CommandsReadyMeansRunnable`, `CommandsStoresSurvive`, `LifecycleInvariant`, `CommandsKeepLifecycle` (`Commands_proofs`) | set of keys, sessions and profiles | all properties of the run `commands`, and that it implements `SessionLifecycle` |
| `OfflineForetells`, `ResolvedIsClean` (`Commands_proofs`) | input and answer | the offline forecast agrees with official mode; what is reported as resolved was answered by a clean payload |

They rest on one named assumption per module: `ClientAssumption` (the two limits are natural numbers),
`TokensAssumption` (there is a profile, the two markers are no refresh tokens, there is at least one attempt),
`PipelineAssumption` (there is a track, every plan has a segment, `Nobody` is no process), `SessionsAssumption`
(there is a session, and at least one attempt), `PlaylistAssumption` (`MaxLines` is a natural number), `CommandsAssumption` (`None` is none
of the values it stands in for), and the one of `DownloadWorkflow` on its bound.

Each proof has the same outline: the initial states satisfy an inductive invariant, each action preserves it (one
step per action), it implies the properties, and a last temporal step combines them. Why the properties are not
inductive by themselves:

- `ClientInv` adds `SendsAccounted`, an exact count of the messages at each step of the loop
  (`sends = attempt + redirects` while an answer is awaited), since the budget alone says nothing of how far the
  two counters have come; and `CurrentConfined`, which says of the *next* message what `HostConfinement` and
  `RedirectStripsRequest` say of those already sent. Confinement needs it because a hop is compared with the hop
  before it: that one was the request's host or an allowed one, and so is the next.
- `TokensInv` adds `CommandShape` (what the local variables hold at each step), `Provenance` (everything anyone
  holds for a profile, the documents read by running saves included, was issued for it), `Reusable` (a server
  that does not rotate accepts every token it issued) and `SecretsPrivate`: with single-use tokens, a token on
  its way to the document is accepted by the server, and neither the document nor any other process knows it.
  The last is the heart of `CredentialLive`: no other process can use such a token up before it is stored.
  `RegistersInv` adds `PastShape` for the refinement: an entry of the document, and of every document that a
  running save has read, is one the profile has held, and so is the token a refresh sends. This is why an
  overlap can only put a profile back.
- `PipelineInv` adds `RunShape` (`parts` is a prefix of the track while it is assembled and the whole track when
  it is joined, and an input that is being converted is a whole rendering) and `SoloShape` (a run that has
  overlapped no other finds in the shared paths what it wrote itself). The refinement needs no more: each action
  is shown to map to one action of `AudioLibrary` or a stutter, with `RunShape` saying that what is published
  is a rendering and that a run under way has no result. `PipelineImplementsMediaRun` needs of it that a
  conversion is for the M4A file or for the format asked for.
- `SessionsInv` adds `CommandShape` (a session being created is known to nobody; an exchange writes what the
  session it looked up calls for), `CleanShape` (without harmful overlaps the file knows exactly the sessions
  that were printed; an exchange about to send is the only one of its session and nothing was sent before; one that
  waits for an answer is the only one too, and has sent exactly as many requests as its attempt says) and
  `SettledShape` (whatever a running command still holds of a settled session is that it is spent), the reason
  why later overlaps cannot revive it.
- `PolicyInv` ties the stored decision to the context it was made for. The work is in the lemmas about `Decide`:
  what a grant needs in each mode (`PublicGrant`, `GoPlusGrant`), what lifts a denial (`DeniedForLogin`) and that
  grants are monotone in each right (`GrantIsMonotone`, `StepOpens`).
- `HlsInv` says what the two loops have collected by the line they are at. `Since(t, i, kind)` is the set of the
  lines of a kind since the last URI before line i; the pending EXTINF and byte range are its members, the
  pending STREAM-INF its last. `SegmentLineKeeps` and `VariantLineKeeps` follow them over one line. That the
  plan has as many segments as the analyzer counted needs a bijection between segments and URI lines
  (`SegmentsCounted`), that the best variant exists a greatest element (`HasLast`).
- `WorkflowInv` adds `StepShape` and `ResultShape`: from the selection on, the source is the best of the clean
  ones (`Selected`), and from the decision on, the decision is the policy's for this source (`Decided`). Both
  outlive the run in what they say of a staged file and of a denial. `WorkflowImplementsMediaRun` needs one
  more fact, `ExportShape`: what is delivered as the remuxed file never reaches the export.
- `CommandsInv` adds `RunShape` (the gates an exchange passed hold of the settings it loaded, whatever became of
  the settings since) and `ReadyShape` (what `doctor` saw is still so). `LifecycleInv` adds `SpentShape`: while
  the code of a session is sent and its tokens are saved, and ever after, the file says that it is spent.

How a command ends is proved as far as safety goes. Each of `CallAdvances`, `CommandsAdvance`, `RunsAdvance` and
`AnalysisAdvances` has a measure, `StepsLeft`, of the steps that are left at most; every step of the command takes
it down, no step of anybody else takes it up, and a start sets it to the budget:
2 * (`MaxAttempts` + redirect limit) for an HTTP call, 2 * `MaxAttempts` + 3 for a token command, 2n + 7 for a
run of n segments, 4 * `MaxLines` + 6 for an analysis. Each invariant bounds the variables in the measure; then
it is a case for each action.

Only model-checked: the liveness properties (`EventuallyReturns`, `CommandsEnd`, `RunsEnd`, `AnalysisEnds`). What
their proofs would add to the bounds just named is that a command under way always has a step to take, which
needs ENABLED, and the prover does not support it. Every other property of a passing run is a theorem.

Only proved: the four step bounds, `KeepsLifecycle`, `ImplementsMediaRun` of both modules, and `RedeemedOnce`. The
runs leave them out because a theorem says more than an instance; each holds when it is added to the
configuration of its component's run (with one profile for `KeepsLifecycle`).

## 6. Where the code and its documents disagree

Two runs check what a document says and find it violated by what the code does.

- `output_path`: `README.md:209-210` says that the artifact lands under `audio/final.<ext>` unless
  `--output-path` is given. `cli/download.py:123` deletes the argument before anything reads it.
- `default_command`: the documents give four download commands, none of them with an access mode:
  `docs/SMOKE_TEST.md:123-140` downloads "one authorized track" with `--format m4a` and then has the reader look at
  the artifact (`docs/RELEASE_CHECKLIST.md:46-48` expects it to exit 0, with an optional spot check of `mp3` and
  `wav`); `docs/CLI_REFERENCE.md:256-264` uses `--format mp3`; `README.md:171-185` uses `--format mp3` and `--format
  wav` with `--output-profile aac_m4a`. Without `--access-mode` the command asks in public mode, in which the policy
  denies every remux (`domain/reconstruction_policy.py:90-95`) and every other profile of a source that it is not
  told may be downloaded, also for a track that the service offers for download. TLC stops at the first of the four;
  that none of them succeeds on any track is `OnlyRemuxSucceeds`, which is proved. With `--access-mode go_plus` the
  first and the last two can.

## 7. What is abstracted and what is not modelled

Assumptions about the environment:

- The authorization server treats all refresh tokens alike: either each is replaced when it is used, or none. It
  does not revoke a whole grant because an old token was presented.
- `os.replace` is atomic and its effect survives the process. Durability across a power loss is not modelled
  (the encrypted stores `fsync` the temporary file, the artifact storage does not).
- ffmpeg's output is a function of its input, or an error. Its private workspace shows only as a run that may
  fail after its output was stored.
- Session ids are never drawn twice. The wall clock may be set back.
- The service marks every excerpt of a preview-only track as snipped, and its streams endpoint names no HLS URL
  for one. `StagedIsEntitled` depends on both.

Data that is reduced to what the properties tell apart:

- URLs: to their host, and whether they hold credentials or a sensitive key. HTTP statuses: to the four classes
  of the loop. Back-off delays are left out.
- Token sets: to the refresh token. Whether the access token is due may go either way at every read. Encryption
  and parsing are the cases in which they fail.
- Playlists: to `body`, the lines whose order counts, and `marks`, the kinds of lines that count by being there.
  Bandwidths have two values, numbers parse or do not.
- Media: to the segments the bytes come from. Byte ranges are therefore not seen by the fetcher.
- Transcodings that the selection ranks alike are chosen from at random: the code orders them by the names of their
  preset and quality, of which the model keeps only whether the preset contains "aac".
- The account, as the workflow sees it: usable, refused by the server, signed out, due without a refresh token, or in
  a file that cannot be read.

Not modelled, and why:

- The field by field validation of the response mapper: that a field is malformed is one bit of a payload; which
  field, and the path printed for it, matter to no other component. `resolver inspect --shape` prints the same
  answer in another form and is left out (for an input that does not resolve it prints a second failure, since
  `except Exception` catches its own `typer.Exit`; the exit code is the same).
- PKCE generation, redaction: substitutions and random strings, without state.
- The validators of the single settings: `Invalid` stands for all of them. Numeric limits (timeouts, retries) are
  the constants of the modules they bound.
- Artwork and tags, listing and deleting artifacts, `authorize-url`, `plan evaluate`, the path report of
  `doctor`: they only read, or run after the steps that are modelled.
- The packages `api` and `workers` are empty.

## 8. Plan

Every component that keeps state is modelled, at least in the parts section 7 does not except, and every safety
property of a passing run is proved. What could follow, in this order:

1. `ArtifactPipeline`: byte ranges (the fetcher gives a range without an offset the offset 0) and a storage that
   can lose an unsynced file in a power loss.
2. `Commands` with `OAuthTokens` in place of its sequential token file, so that keys change under overlapping
   commands.
3. The field by field validation of the response mapper, as operators on payload records.

## 9. How to run it

In `tla/`, with TLC and TLAPS 1.4.5 on the path:

```
tlc -workers 2 -config MCHttpClient.cfg MCHttpClient
tlc -workers 2 -config MCOAuthTokensLive.cfg MCOAuthTokens
tlapm HttpClient_proofs.tla
```

Every run of section 4 takes about two minutes or less on two workers; `PROJECT.json` names the module and the
configuration of each.
