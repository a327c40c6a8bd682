-------------------------- MODULE DownloadWorkflow --------------------------
(***************************************************************************)
(* The command "download track" and TrackDownloadWorkflow.download_track:  *)
(* from the command line through resolving, selecting a source, analysing  *)
(* and deciding, to the pipeline that stages, joins, remuxes and exports.  *)
(*                                                                         *)
(* The decision is the one of ReconstructionPolicy, in the context that    *)
(* the workflow builds.  Each service the workflow calls answers or fails  *)
(* as its code can; HlsPlaylist and ArtifactPipeline look inside two of    *)
(* them.  Meanwhile the profile's token set may be replaced, fall due, be  *)
(* refused by the server or become unreadable.                             *)
(***************************************************************************)
EXTENDS Integers, FiniteSets

CONSTANT
    MaxOffers    \* the transcodings a track is offered in, at most

ASSUME WorkflowAssumption == MaxOffers \in Nat

VARIABLES
    command,     \* the options of the command line
    track,       \* the resource behind the URL, as the service has it
    account,     \* what its profile's token set is good for
    pc,          \* the step of the workflow
    source,      \* the selected transcoding
    decision,    \* the PolicyDecision
    staged,      \* whether the run has written to the artifact storage
    result       \* what the command reports

vars == <<command, track, account, pc, source, decision, staged, result>>

-----------------------------------------------------------------------------
None == "none"

Formats == {"m4a", "mp3", "wav"}
Profiles == {"original", "mp3_128", "aac_m4a", "wav_export"}

Commands ==
    [format: Formats, mode: {"public", "go_plus"}, profile: Profiles \cup {None},
     path: {None, "requested"}]

\* ogg stands for the MIME types that tell no codec, audio/mp4 with a codecs
\* parameter among them: the mapper knows only the bare names.
Mimes == {"mp4", "aac", "mpeg", "ogg"}

\* Of a preset counts whether it contains "aac"; a transcoding that is not
\* marked as snipped passes for a whole one.
Transcodings ==
    [hls: {TRUE}, snipped: BOOLEAN, mime: Mimes, preset: {"aac", "other"}]
        \cup [hls: {FALSE}, snipped: {FALSE}, mime: {"mpeg"}, preset: {"other"}]

NoSource == [hls |-> FALSE, snipped |-> FALSE, mime |-> None, preset |-> None]

\* A track lists transcodings or, when it lists none, the streams endpoint
\* names URLs.  Of a preview-only track the service offers excerpts, which it
\* marks as snipped, and the streams endpoint no HLS URL.
Tracks ==
    {t \in [kind: {"track", "other"}, preview: BOOLEAN, downloadable: BOOLEAN,
            transcodings: {s \in SUBSET Transcodings: Cardinality(s) <= MaxOffers},
            streams: SUBSET {"aac", "mp3", "opus"}]:
        /\ t.kind = "other" => ~t.preview /\ ~t.downloadable /\ t.transcodings = {}
        /\ t.kind = "other" \/ t.transcodings # {} \/ t.preview => t.streams = {}
        /\ t.preview => \A item \in t.transcodings: item.hls => item.snipped}

\* The token set of the profile: usable, due for a refresh that fails, missing,
\* due and without a refresh token, or in a file that the key does not open.
Accounts == {"signed_in", "refused", "signed_out", "unrefreshable", "unreadable"}

\* The provider answers with an error that names no reason.
NoReason == {"signed_out", "unrefreshable", "unreadable"}

NoDecision == [name |-> None, allowed |-> FALSE, error |-> None, profile |-> None]

Running == [status |-> "running", stage |-> None, reason |-> None, path |-> None]

-----------------------------------------------------------------------------
\* The profile of the request: the option, or what belongs to the format.
OutputProfile ==
    IF command.profile # None THEN command.profile
    ELSE [m4a |-> "aac_m4a", mp3 |-> "mp3_128", wav |-> "wav_export"][command.format]

Codec(item) == IF item.mime \in {"mp4", "aac"} \/ item.preset = "aac" THEN "aac" ELSE "other"

\* What the stream analysis makes of a manifest that passed without an error.
MediaSource ==
    [protocol |-> "hls", codec |-> Codec(source), requiresAuth |-> FALSE,
     downloadable |-> FALSE, drm |-> "none"]

\* Mutant: what the service marks as downloadable is passed on to the policy.
MutAccessContextDownloadable ==
    [mode |-> command.mode, authenticated |-> command.mode = "go_plus",
     hasGoPlus |-> command.mode = "go_plus", goPlusTrack |-> FALSE, preview |-> FALSE,
     downloadable |-> track.downloadable, ownTrack |-> FALSE, offlineAllowed |-> "unspecified",
     source |-> MediaSource]

\* The context the analysis builds: Go+ mode stands for an authenticated Go+
\* account, and nothing of what is known of the track is passed on.
AccessContext ==
    [mode |-> command.mode, authenticated |-> command.mode = "go_plus",
     hasGoPlus |-> command.mode = "go_plus", goPlusTrack |-> FALSE, preview |-> FALSE,
     downloadable |-> FALSE, ownTrack |-> FALSE, offlineAllowed |-> "unspecified",
     source |-> MediaSource]

Policy == INSTANCE ReconstructionPolicy WITH
    context <- AccessContext, requested <- OutputProfile

\* Mutant: every HLS transcoding is taken for the whole track.
MutCleanSnipped(t) == {item \in t.transcodings: item.hls}

Clean(t) == {item \in t.transcodings: item.hls /\ ~item.snipped}

\* Mutant: an MP3 is best made from an MP3.
MutRankFormatFirst(item) ==
    IF item.mime = (IF command.format = "mp3" THEN "mpeg" ELSE "mp4") THEN 0 ELSE 1

Rank(item) ==
    IF item.mime = "mp4" THEN 0
    ELSE IF command.format # "m4a" /\ item.mime = "mpeg" THEN 1
    ELSE 2

OutputPath == [m4a |-> "audio/final.m4a", mp3 |-> "audio/final.mp3", wav |-> "audio/final.wav"]

-----------------------------------------------------------------------------
Init ==
    /\ command \in Commands
    /\ track \in Tracks
    /\ account \in Accounts
    /\ pc = "start"
    /\ source = NoSource
    /\ decision = NoDecision
    /\ staged = FALSE
    /\ result = Running

Fail(stage, reason) ==
    /\ pc' = "done"
    /\ result' = [Running EXCEPT !.status = "failed", !.stage = stage, !.reason = reason]

\* A step that only goes on to the next one.
GoTo(step) == pc' = step /\ UNCHANGED result

Held == <<command, track, account>>

\* Another process logs the profile out or in or replaces the file, the token
\* set falls due, or the server revokes its grant.
AccountChanges ==
    /\ pc \in {"start", "resolve", "metadata", "token"}
    /\ account' \in Accounts \ {account}
    /\ UNCHANGED <<command, track, pc, source, decision, staged, result>>

\* The settings do not allow the download, or the URL is refused.
Start ==
    /\ pc = "start"
    /\ \/ GoTo("resolve")
       \/ pc' = "done" /\ result' = [Running EXCEPT !.status = "refused"]
       \/ Fail("unknown", "unknown")
    /\ UNCHANGED <<Held, source, decision, staged>>

TokenReasons == {"token_refresh_failed", "token_refresh_response_invalid",
                 "token_refresh_persist_failed"}

\* The resolver needs a token of its own; whatever is not a failed refresh,
\* the other errors of the provider included, is reported as an invalid payload.
Resolve ==
    /\ pc = "resolve"
    /\ \/ account = "refused" /\ \E reason \in TokenReasons: Fail("auth", reason)
       \/ Fail("resolver", "official_resolver_payload_invalid")
       \/ account = "signed_in" /\ GoTo("metadata")
    /\ UNCHANGED <<Held, source, decision, staged>>

\* A malformed track is reported like a playlist or a user.
NormalizeMetadata ==
    /\ pc = "metadata"
    /\ \/ track.kind = "track" /\ GoTo("token")
       \/ Fail("metadata_normalization", "resolved_resource_not_track")
    /\ UNCHANGED <<Held, source, decision, staged>>

\* Mutant: the errors of the token provider are not mapped the second time.
MutGetTokenUnmapped ==
    /\ pc = "token"
    /\ IF account # "signed_in" THEN Fail("unknown", "unknown")
       ELSE GoTo(IF track.transcodings # {} THEN "transcoding" ELSE "streams")
    /\ UNCHANGED <<Held, source, decision, staged>>

\* The second token, for the transcoding or the streams endpoint: only the
\* errors of a refresh are AccessTokenProviderErrors, which are mapped.
GetToken ==
    /\ pc = "token"
    /\ \/ account = "refused" /\ \E reason \in TokenReasons: Fail("auth", reason)
       \/ account \in NoReason /\ Fail("unknown", "unknown")
       \/ account = "signed_in"
            /\ GoTo(IF track.transcodings # {} THEN "transcoding" ELSE "streams")
    /\ UNCHANGED <<Held, source, decision, staged>>

\* Ties are broken by the names of the preset and the quality, of which the
\* model knows too little: it allows either choice.
SelectTranscoding ==
    /\ pc = "transcoding"
    /\ \/ /\ Clean(track) = {}
          /\ Fail("transcoding_selection", "no_safe_hls_transcoding")
          /\ UNCHANGED source
       \/ \E item \in Clean(track):
            /\ \A other \in Clean(track): Rank(item) <= Rank(other)
            /\ source' = item
            /\ GoTo("endpoint")
    /\ UNCHANGED <<Held, decision, staged>>

\* The endpoint of the transcoding names the manifest.
ResolveEndpoint ==
    /\ pc = "endpoint"
    /\ GoTo("analyze") \/ Fail("transcoding_endpoint", "transcoding_endpoint_failed")
    /\ UNCHANGED <<Held, source, decision, staged>>

\* A 404 counts as an answer without streams.
FetchStreams ==
    /\ pc = "streams"
    /\ \/ GoTo("stream_selection")
       \/ Fail("streams_selection", "no_hls_streams")
       \/ Fail("streams_endpoint", "streams_endpoint_failed")
    /\ UNCHANGED <<Held, source, decision, staged>>

\* The first field of the answer that names a URL; Opus passes as audio/mp4.
FirstStream ==
    [hls |-> TRUE, snipped |-> FALSE,
     mime |-> IF "aac" \notin track.streams /\ "mp3" \in track.streams THEN "mpeg" ELSE "mp4",
     preset |-> IF "aac" \in track.streams THEN "aac" ELSE "other"]

\* The URL may be one that SoundCloudResolvedStreamUrl refuses.
SelectStream ==
    /\ pc = "stream_selection"
    /\ \/ track.streams = {} /\ Fail("streams_selection", "no_hls_streams") /\ UNCHANGED source
       \/ /\ track.streams # {}
          /\ Fail("streams_endpoint", "streams_endpoint_failed")
          /\ UNCHANGED source
       \/ track.streams # {} /\ source' = FirstStream /\ GoTo("analyze")
    /\ UNCHANGED <<Held, decision, staged>>

\* The reasons that the analysis raises; the last is for any other exception.
HlsReasons ==
    {"hls_manifest_fetch_failed", "hls_manifest_parse_failed", "hls_master_playlist_unsupported",
     "hls_no_variants", "hls_no_segments", "hls_encrypted_stream_unsupported",
     "hls_fmp4_unsupported", "stream_analysis_failed"}

\* An analysis without an error has found no DRM, and yields a decision.
Analyze ==
    /\ pc = "analyze"
    /\ \/ \E reason \in HlsReasons: Fail("stream_analysis", reason) /\ UNCHANGED decision
       \/ decision' = Policy!Decide(AccessContext, OutputProfile) /\ GoTo("policy")
    /\ UNCHANGED <<Held, source, staged>>

CheckPolicy ==
    /\ pc = "policy"
    /\ IF decision.allowed THEN GoTo("plan") ELSE Fail("stream_analysis", "policy_denied")
    /\ UNCHANGED <<Held, source, decision, staged>>

PlanSegments ==
    /\ pc = "plan"
    /\ GoTo("stage") \/ Fail("segment_planning", "segment_planning_failed")
    /\ UNCHANGED <<Held, source, decision, staged>>

\* A failure may come after some of the segments were stored.
StageSegments ==
    /\ pc = "stage"
    /\ \/ GoTo("assemble") /\ staged' = TRUE
       \/ Fail("segment_staging", "segment_staging_failed") /\ staged' \in BOOLEAN
    /\ UNCHANGED <<Held, source, decision>>

Assemble ==
    /\ pc = "assemble"
    /\ GoTo("remux") \/ Fail("media_assembly", "media_assembly_failed")
    /\ UNCHANGED <<Held, source, decision, staged>>

\* Mutant: the joined file is reported instead of the remuxed or exported one.
MutSucceedAssembled ==
    /\ pc' = "done"
    /\ result' = [Running EXCEPT !.status = "succeeded", !.path = "hls/assembled/media.bin"]

Succeed ==
    /\ pc' = "done"
    /\ result' = [Running EXCEPT !.status = "succeeded", !.path = OutputPath[command.format]]

Remux ==
    /\ pc = "remux"
    /\ \/ Fail("remux", "remux_failed")
       \/ command.format = "m4a" /\ Succeed
       \/ command.format # "m4a" /\ GoTo("export")
    /\ UNCHANGED <<Held, source, decision, staged>>

Export ==
    /\ pc = "export"
    /\ Succeed \/ Fail("export", "export_failed")
    /\ UNCHANGED <<Held, source, decision, staged>>

Done == pc = "done" /\ UNCHANGED vars

Next ==
    \/ AccountChanges
    \/ Start
    \/ Resolve
    \/ NormalizeMetadata
    \/ GetToken
    \/ SelectTranscoding
    \/ ResolveEndpoint
    \/ FetchStreams
    \/ SelectStream
    \/ Analyze
    \/ CheckPolicy
    \/ PlanSegments
    \/ StageSegments
    \/ Assemble
    \/ Remux
    \/ Export
    \/ Done

Spec == Init /\ [][Next]_vars

-----------------------------------------------------------------------------
Failures ==
    [auth |-> TokenReasons,
     resolver |-> {"official_resolver_payload_invalid"},
     metadata_normalization |-> {"resolved_resource_not_track"},
     transcoding_selection |-> {"no_safe_hls_transcoding"},
     transcoding_endpoint |-> {"transcoding_endpoint_failed"},
     streams_endpoint |-> {"streams_endpoint_failed"},
     streams_selection |-> {"no_hls_streams"},
     stream_analysis |-> HlsReasons \cup {"policy_denied"},
     segment_planning |-> {"segment_planning_failed"},
     segment_staging |-> {"segment_staging_failed"},
     media_assembly |-> {"media_assembly_failed"},
     remux |-> {"remux_failed"},
     export |-> {"export_failed"},
     unknown |-> {"unknown"}]

Results ==
    {Running, [Running EXCEPT !.status = "refused"]}
        \cup {[Running EXCEPT !.status = "succeeded", !.path = OutputPath[f]]: f \in Formats}
        \cup UNION {{[Running EXCEPT !.status = "failed", !.stage = stage, !.reason = reason]:
                        reason \in Failures[stage]}: stage \in DOMAIN Failures}

\* Every step, decision and result is one the code has a value for.
TypeOK ==
    /\ command \in Commands
    /\ track \in Tracks
    /\ account \in Accounts
    /\ pc \in {"start", "resolve", "metadata", "token", "transcoding", "endpoint", "streams",
               "stream_selection", "analyze", "policy", "plan", "stage", "assemble", "remux",
               "export", "done"}
    /\ source \in Transcodings \cup {NoSource}
    /\ decision \in Policy!Decisions \cup {NoDecision}
    /\ staged \in BOOLEAN
    /\ result \in Results
    /\ pc = "done" <=> result # Running

\* Whatever is on disk after a failure belongs to a source the user may
\* reconstruct: nothing is stored before the policy has allowed it, and no
\* excerpt of a preview-only track is, although the analysis that asks the
\* policy is not told of the preview: the selection has left it out.
StagedIsEntitled == staged => decision.allowed /\ source.hls /\ ~track.preview

\* As the context never says that a source may be downloaded, the one thing
\* the command can deliver is an AAC remux in Go+ mode.
OnlyRemuxSucceeds ==
    result.status = "succeeded" =>
        /\ command.mode = "go_plus"
        /\ OutputProfile = "aac_m4a"
        /\ Codec(source) = "aac"

\* A user entitled to a remux is denied only if no clean audio/mp4 transcoding
\* was listed: the selection, which knows nothing of the policy, never passes
\* over one for a source that the policy refuses.  It may so pass over an AAC
\* whose MIME type is another, for an audio/mpeg one or in a tie.
DeniedOnlyWithoutMp4 ==
    (result.reason = "policy_denied" /\ command.mode = "go_plus" /\ OutputProfile = "aac_m4a") =>
        \A item \in track.transcodings:
            item.mime = "mp4" => ~item.hls \/ item.snipped

\* Once the workflow runs, it fails without naming a stage only where it asks
\* for its second token, after the resolver was given one, and the profile has
\* meanwhile come to lack a token set that can be read and used or refreshed:
\* no service and no failed refresh is reported as unknown.
UnknownOnlyForLackOfToken ==
    [][(result'.stage = "unknown" /\ pc # "start" /\ pc # "done") =>
          account \in NoReason /\ pc = "token"]_vars

\* The mapping to the stages of a media run, and the format of the file whose
\* path is reported.
Stages ==
    [r \in {"run"} |-> IF pc \in {"stage", "assemble", "remux", "export"}
                       THEN [name |-> pc, format |-> command.format]
                       ELSE [name |-> "idle", format |-> None]]

Got ==
    [r \in {"run"} |-> IF \E f \in Formats: result.path = OutputPath[f]
                       THEN CHOOSE f \in Formats: result.path = OutputPath[f]
                       ELSE None]

Media == INSTANCE MediaRun WITH
    Runners <- {"run"}, Remuxed <- "m4a", Nothing <- None, stage <- Stages, got <- Got

\* The workflow takes its calls for what the pipeline does: whatever was
\* selected and decided before, it stages, joins, remuxes and exports in this
\* order, skips the export for M4A only, and names the file of the format that
\* was asked for only once the call that makes it has returned.
ImplementsMediaRun == Media!MSpec

\* Stated by README.md: artifacts land under audio/final.<ext> unless
\* --output-path says otherwise.
OutputPathHonoured ==
    (result.status = "succeeded" /\ command.path # None) => result.path = command.path

\* The download commands of the documentation: docs/SMOKE_TEST.md and README.md
\* with m4a, docs/CLI_REFERENCE.md with m4a and mp3, and README.md with mp3 and
\* wav and the AAC profile; none of them gives an access mode.
DocumentedCommands ==
    [format: {"m4a", "mp3"}, mode: {"public"}, profile: {None}, path: {None}]
        \cup [format: {"mp3", "wav"}, mode: {"public"}, profile: {"aac_m4a"}, path: {None}]

\* Stated by docs/SMOKE_TEST.md, docs/CLI_REFERENCE.md and README.md: these
\* commands deliver a track one is authorized to access.  None of them is denied
\* by the policy on a track that the service offers for download.
DocumentedCommandsAllowed ==
    (command \in DocumentedCommands /\ track.downloadable /\ ~track.preview) =>
        result.reason # "policy_denied"

-----------------------------------------------------------------------------
(* The parts of the inductive invariant. *)

\* What the selection took: the best of the clean transcodings or, where the
\* service lists none, a stream URL.
Selected ==
    \/ source \in Clean(track) /\ \A other \in Clean(track): Rank(source) <= Rank(other)
    \/ track.transcodings = {} /\ track.streams # {} /\ source = FirstStream

Decided == Selected /\ decision = Policy!Decide(AccessContext, OutputProfile)

Produced == staged \/ result.status = "succeeded"

\* What is known at each step of a run that has not ended.
StepShape ==
    /\ pc \in {"endpoint", "analyze"} => Selected
    /\ pc = "policy" => Decided
    /\ pc \in {"plan", "stage", "assemble", "remux", "export"} => Decided /\ decision.allowed
    /\ staged => pc \in {"assemble", "remux", "export", "done"}

\* What is known of a run that has stored something, or was denied.
ResultShape ==
    /\ Produced => Decided /\ decision.allowed
    /\ result.reason = "policy_denied" => Decided /\ ~decision.allowed

WorkflowInv == TypeOK /\ StepShape /\ ResultShape

\* Only what is not delivered as the remuxed file is exported.
ExportShape == pc = "export" => command.format # "m4a"
=============================================================================
