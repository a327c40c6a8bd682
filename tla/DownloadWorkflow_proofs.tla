----------------------- MODULE DownloadWorkflow_proofs -----------------------
(***************************************************************************)
(* Proofs about the download workflow, for tracks with any number of       *)
(* transcodings.  WorkflowInv says what is known at every step: what was   *)
(* selected, that the decision is the engine's for it, and that a run      *)
(* which has stored something was allowed to.                              *)
(***************************************************************************)
EXTENDS DownloadWorkflow, TLAPS

Steps ==
    {"start", "resolve", "metadata", "token", "transcoding", "endpoint", "streams",
     "stream_selection", "analyze", "policy", "plan", "stage", "assemble", "remux", "export"}

-----------------------------------------------------------------------------
(* What the policy engine makes of the workflow's narrow context. *)

LEMMA ProfileTyped ==
    ASSUME command \in Commands
    PROVE  OutputProfile \in Profiles
  <1>1. CASE command.profile # None
    BY <1>1 DEF OutputProfile, Commands
  <1>2. CASE command.profile = None
    <2>1. command.format \in {"m4a", "mp3", "wav"}
      BY DEF Commands, Formats
    <2> QED
      BY <1>2, <2>1 DEF OutputProfile, Profiles
  <1> QED
    BY <1>1, <1>2

\* Nothing can be downloaded as it is, so that a remux is all there is.
LEMMA DecisionOfContext ==
    ASSUME command \in Commands
    PROVE  Policy!Decide(AccessContext, OutputProfile) =
             IF command.mode = "public"
             THEN IF OutputProfile = "aac_m4a" THEN Policy!DenyGoPlus ELSE Policy!DenyNotDownloadable
             ELSE IF OutputProfile # "aac_m4a" THEN Policy!DenyNotDownloadable
             ELSE IF Codec(source) = "aac" THEN Policy!Allow("aac_m4a")
             ELSE Policy!Deny("deny_unsupported_format", "manifest_unsupported")
  <1> DEFINE c == AccessContext
             p == OutputProfile
  <1>1. p \in Profiles
    BY ProfileTyped
  <1>2. /\ c.mode = command.mode
        /\ c.authenticated = (command.mode = "go_plus") /\ c.hasGoPlus = (command.mode = "go_plus")
        /\ c.goPlusTrack = FALSE /\ c.preview = FALSE /\ c.downloadable = FALSE /\ c.ownTrack = FALSE
        /\ c.offlineAllowed = "unspecified" /\ c.source = MediaSource
    BY DEF AccessContext
  <1>3. /\ MediaSource.protocol = "hls" /\ MediaSource.codec = Codec(source)
        /\ MediaSource.requiresAuth = FALSE /\ MediaSource.downloadable = FALSE
        /\ MediaSource.drm = "none"
    BY DEF MediaSource
  <1>4. MediaSource # Policy!NoSource
    BY <1>3 DEF Policy!NoSource, Policy!None
  <1>5. ~Policy!HasDownloadableSource(c) /\ ~Policy!UnsafeDrm(c.source)
    BY <1>2, <1>3 DEF Policy!HasDownloadableSource, Policy!UnsafeDrm
  <1>6. Policy!SupportsRemux(c.source) <=> Codec(source) = "aac"
    BY <1>2, <1>3 DEF Policy!SupportsRemux
  <1>7. Policy!AllowDownloadable(c, p) = Policy!DenyNotDownloadable
    BY <1>5 DEF Policy!AllowDownloadable
  <1>8. p \in Policy!DownloadableProfiles <=> p # "aac_m4a"
    BY <1>1 DEF Policy!DownloadableProfiles, Profiles
  <1>9. p # Policy!None
    BY <1>1 DEF Policy!None, Profiles
  <1> HIDE DEF c, p
  <1>10. CASE command.mode = "public"
    <2>1. Policy!Decide(c, p) = Policy!DecidePublic(c, p)
      BY <1>2, <1>4, <1>5, <1>10 DEF Policy!Decide
    <2>2. Policy!DecidePublic(c, p) =
            IF p = "aac_m4a" THEN Policy!DenyGoPlus ELSE Policy!DenyNotDownloadable
      BY <1>2, <1>3, <1>7, <1>8 DEF Policy!DecidePublic
    <2> QED
      BY <1>10, <2>1, <2>2 DEF c, p
  <1>11. CASE command.mode = "go_plus"
    <2>1. Policy!Decide(c, p) = Policy!DecideGoPlus(c, p)
      BY <1>2, <1>4, <1>5, <1>11 DEF Policy!Decide
    <2>2. Policy!DecideGoPlus(c, p) =
            IF p # "aac_m4a" THEN Policy!DenyNotDownloadable
            ELSE IF Codec(source) = "aac" THEN Policy!Allow("aac_m4a")
            ELSE Policy!Deny("deny_unsupported_format", "manifest_unsupported")
      BY <1>2, <1>6, <1>7, <1>8, <1>9, <1>11 DEF Policy!DecideGoPlus
    <2> QED
      BY <1>11, <2>1, <2>2 DEF c, p
  <1> QED
    BY <1>10, <1>11 DEF Commands

LEMMA DecisionTyped ==
    ASSUME command \in Commands
    PROVE  Policy!Decide(AccessContext, OutputProfile) \in Policy!Decisions
  <1>1. /\ Policy!DenyGoPlus \in Policy!Decisions
        /\ Policy!DenyNotDownloadable \in Policy!Decisions
        /\ Policy!Deny("deny_unsupported_format", "manifest_unsupported") \in Policy!Decisions
    BY DEF Policy!DenyGoPlus, Policy!DenyNotDownloadable, Policy!Deny, Policy!Decisions
  <1>2. Policy!Allow("aac_m4a") \in Policy!Decisions
    BY DEF Policy!Allow, Policy!Decisions, Policy!Profiles, Policy!AllowedBy
  <1> QED
    BY <1>1, <1>2, DecisionOfContext

\* Who is allowed, and what.
LEMMA AllowedMeans ==
    ASSUME command \in Commands
    PROVE  Policy!Decide(AccessContext, OutputProfile).allowed <=>
              command.mode = "go_plus" /\ OutputProfile = "aac_m4a" /\ Codec(source) = "aac"
  <1>1. /\ ~Policy!DenyGoPlus.allowed /\ ~Policy!DenyNotDownloadable.allowed
        /\ ~Policy!Deny("deny_unsupported_format", "manifest_unsupported").allowed
        /\ Policy!Allow("aac_m4a").allowed
    BY DEF Policy!DenyGoPlus, Policy!DenyNotDownloadable, Policy!Deny, Policy!Allow
  <1> QED
    BY <1>1, DecisionOfContext DEF Commands

-----------------------------------------------------------------------------
(* What the selection takes. *)

LEMMA SelectedTyped ==
    ASSUME track \in Tracks, Selected
    PROVE  source \in Transcodings /\ source.hls /\ ~track.preview
  <1>1. CASE source \in Clean(track)
    BY <1>1 DEF Clean, Tracks
  <1>2. CASE track.transcodings = {} /\ track.streams # {} /\ source = FirstStream
    <2>1. /\ source \in [hls: {TRUE}, snipped: BOOLEAN, mime: Mimes, preset: {"aac", "other"}]
          /\ source.hls
      BY <1>2 DEF FirstStream, Mimes
    <2> QED
      BY <1>2, <2>1 DEF Tracks, Transcodings
  <1> QED
    BY <1>1, <1>2 DEF Selected

\* The recorded facts depend on the command, the track and the source alone.
LEMMA DecisionKept ==
    ASSUME UNCHANGED <<Held, source>>
    PROVE  /\ AccessContext' = AccessContext /\ OutputProfile' = OutputProfile
           /\ Policy!Decide(AccessContext, OutputProfile)' = Policy!Decide(AccessContext, OutputProfile)
  <1>1. AccessContext' = AccessContext /\ OutputProfile' = OutputProfile
    BY DEF Held, AccessContext, OutputProfile, MediaSource, Codec
  <1> QED
    BY <1>1 DEF Policy!Decide, Policy!DecidePublic, Policy!DecideGoPlus, Policy!AllowDownloadable,
           Policy!Allow, Policy!Deny, Policy!DenyDrm, Policy!DenyAuth, Policy!DenyGoPlus,
           Policy!DenyNotDownloadable, Policy!HasDownloadableSource, Policy!SupportsRemux,
           Policy!UnsafeDrm, Policy!NoSource, Policy!None, Policy!DownloadableProfiles,
           Policy!AllowedBy, Policy!Other

LEMMA SelectionKept ==
    ASSUME UNCHANGED <<Held, source>>
    PROVE  /\ Selected' <=> Selected
           /\ AccessContext' = AccessContext /\ OutputProfile' = OutputProfile
           /\ decision' = decision => (Decided' <=> Decided)
  <1>1. Selected' <=> Selected
    BY DEF Held, Selected, Clean, Rank, FirstStream
  <1> QED
    BY <1>1, DecisionKept DEF Decided

\* A failure with a reason of its stage is a result the command can report.
LEMMA FailTyped ==
    ASSUME NEW stage \in DOMAIN Failures, NEW reason \in Failures[stage], Fail(stage, reason)
    PROVE  /\ pc' = "done" /\ result' \in Results /\ result' # Running
           /\ result'.status = "failed" /\ result'.stage = stage /\ result'.reason = reason
  <1> DEFINE F(st) == {[Running EXCEPT !.status = "failed", !.stage = st, !.reason = re]:
                          re \in Failures[st]}
  <1>1. /\ pc' = "done"
        /\ result' = [Running EXCEPT !.status = "failed", !.stage = stage, !.reason = reason]
    BY DEF Fail
  <1>2. result' \in F(stage)
    BY <1>1
  <1>3. result'.status = "failed" /\ result'.stage = stage /\ result'.reason = reason
    BY <1>1 DEF Running
  <1> HIDE DEF F
  <1>4. result' \in UNION {F(st): st \in DOMAIN Failures}
    BY <1>2
  <1>5. result' \in Results
    BY <1>4 DEF Results, F
  <1> QED
    BY <1>1, <1>3, <1>5 DEF Running

LEMMA StagesAndReasons ==
    /\ "auth" \in DOMAIN Failures /\ TokenReasons = Failures["auth"]
    /\ "resolver" \in DOMAIN Failures /\ "official_resolver_payload_invalid" \in Failures["resolver"]
    /\ "metadata_normalization" \in DOMAIN Failures
    /\ "resolved_resource_not_track" \in Failures["metadata_normalization"]
    /\ "transcoding_selection" \in DOMAIN Failures
    /\ "no_safe_hls_transcoding" \in Failures["transcoding_selection"]
    /\ "transcoding_endpoint" \in DOMAIN Failures
    /\ "transcoding_endpoint_failed" \in Failures["transcoding_endpoint"]
    /\ "streams_endpoint" \in DOMAIN Failures
    /\ "streams_endpoint_failed" \in Failures["streams_endpoint"]
    /\ "streams_selection" \in DOMAIN Failures /\ "no_hls_streams" \in Failures["streams_selection"]
    /\ "stream_analysis" \in DOMAIN Failures
    /\ HlsReasons \subseteq Failures["stream_analysis"]
    /\ "policy_denied" \in Failures["stream_analysis"]
    /\ "segment_planning" \in DOMAIN Failures
    /\ "segment_planning_failed" \in Failures["segment_planning"]
    /\ "segment_staging" \in DOMAIN Failures
    /\ "segment_staging_failed" \in Failures["segment_staging"]
    /\ "media_assembly" \in DOMAIN Failures
    /\ "media_assembly_failed" \in Failures["media_assembly"]
    /\ "remux" \in DOMAIN Failures /\ "remux_failed" \in Failures["remux"]
    /\ "export" \in DOMAIN Failures /\ "export_failed" \in Failures["export"]
    /\ "unknown" \in DOMAIN Failures /\ "unknown" \in Failures["unknown"]
  BY DEF Failures

-----------------------------------------------------------------------------
(* The invariant is inductive. *)

LEMMA InitInv == Init => WorkflowInv
  <1> SUFFICES ASSUME Init PROVE WorkflowInv
    OBVIOUS
  <1>1. TypeOK
    BY DEF Init, TypeOK, Results, NoDecision
  <1>2. StepShape /\ ResultShape
    BY DEF Init, StepShape, ResultShape, Produced, Running, None
  <1> QED
    BY <1>1, <1>2 DEF WorkflowInv

\* A step to another one only has to say what is known there.
LEMMA GoesOn ==
    ASSUME WorkflowInv, pc # "done", NEW step \in Steps, GoTo(step), UNCHANGED Held,
           source' \in Transcodings \cup {NoSource},
           decision' \in Policy!Decisions \cup {NoDecision},
           staged' \in BOOLEAN, StepShape'
    PROVE  WorkflowInv'
  <1>1. result = Running /\ result' = Running /\ pc' = step /\ pc' # "done"
    BY DEF WorkflowInv, TypeOK, GoTo, Steps
  <1>2. TypeOK'
    BY <1>1 DEF WorkflowInv, TypeOK, Held, Steps
  <1>3. ResultShape'
    <2>1. result'.status # "succeeded" /\ result'.reason # "policy_denied"
      BY <1>1 DEF Running, None
    <2>2. staged' => Decided' /\ decision'.allowed
      BY <1>1 DEF StepShape
    <2> QED
      BY <2>1, <2>2 DEF ResultShape, Produced
  <1> QED
    BY <1>2, <1>3 DEF WorkflowInv

\* A failure keeps what was known of what is on disk.
LEMMA FailureKeeps ==
    ASSUME WorkflowInv, pc # "done",
           NEW stage \in DOMAIN Failures, NEW reason \in Failures[stage], Fail(stage, reason),
           UNCHANGED <<Held, source, decision>>,
           reason = "policy_denied" => Decided /\ ~decision.allowed,
           staged' \in BOOLEAN, staged' => staged \/ pc = "stage"
    PROVE  WorkflowInv'
  <1>1. /\ pc' = "done" /\ result' \in Results /\ result' # Running
        /\ result'.status = "failed" /\ result'.reason = reason
    BY FailTyped
  <1>2. TypeOK'
    BY <1>1 DEF WorkflowInv, TypeOK, Held
  <1>3. Decided' <=> Decided
    BY SelectionKept
  <1>4. ResultShape'
    <2>1. staged' => Decided /\ decision.allowed
      BY DEF WorkflowInv, StepShape, ResultShape, Produced
    <2> QED
      BY <1>1, <1>3, <2>1 DEF ResultShape, Produced
  <1>5. StepShape'
    BY <1>1 DEF StepShape
  <1> QED
    BY <1>2, <1>4, <1>5 DEF WorkflowInv

\* Before anything is selected.
LEMMA EarlyStepsKeep ==
    ASSUME WorkflowInv, Start \/ Resolve \/ NormalizeMetadata \/ GetToken \/ FetchStreams
    PROVE  WorkflowInv'
  <1>1. UNCHANGED <<Held, source, decision, staged>>
    BY DEF Start, Resolve, NormalizeMetadata, GetToken, FetchStreams
  <1>2. /\ pc # "done" /\ ~staged
        /\ source' \in Transcodings \cup {NoSource}
        /\ decision' \in Policy!Decisions \cup {NoDecision} /\ staged' = FALSE
    BY <1>1 DEF WorkflowInv, TypeOK, StepShape, Start, Resolve, NormalizeMetadata, GetToken, FetchStreams
  <1>3. CASE \E step \in {"resolve", "metadata", "token", "transcoding", "streams",
                         "stream_selection"}: GoTo(step)
    <2> PICK step \in {"resolve", "metadata", "token", "transcoding", "streams",
                      "stream_selection"}: GoTo(step)
      BY <1>3
    <2>1. step \in Steps
      BY DEF Steps
    <2>2. StepShape'
      BY <1>2 DEF StepShape, GoTo
    <2> QED
      BY <1>1, <1>2, <2>1, <2>2, GoesOn
  <1>4. CASE \E stage \in DOMAIN Failures:
                \E reason \in Failures[stage] \ {"policy_denied"}: Fail(stage, reason)
    BY <1>1, <1>2, <1>4, FailureKeeps
  <1>5. CASE pc' = "done" /\ result' = [Running EXCEPT !.status = "refused"]
    <2>1. /\ result' \in Results /\ result' # Running
          /\ result'.status = "refused" /\ result'.reason # "policy_denied"
      BY <1>5 DEF Results, Running, None
    <2>2. TypeOK'
      BY <1>1, <1>5, <2>1 DEF WorkflowInv, TypeOK, Held
    <2>3. StepShape' /\ ResultShape'
      BY <1>2, <1>5, <2>1 DEF StepShape, ResultShape, Produced
    <2> QED
      BY <2>2, <2>3 DEF WorkflowInv
  <1>6. "policy_denied" \notin TokenReasons
    BY DEF TokenReasons
  <1>7. CASE Start
    BY <1>3, <1>4, <1>5, <1>7, StagesAndReasons DEF Start
  <1>8. CASE Resolve
    BY <1>3, <1>4, <1>6, <1>8, StagesAndReasons DEF Resolve
  <1>9. CASE NormalizeMetadata
    BY <1>3, <1>4, <1>9, StagesAndReasons DEF NormalizeMetadata
  <1>10. CASE GetToken
    BY <1>3, <1>4, <1>6, <1>10, StagesAndReasons DEF GetToken
  <1>11. CASE FetchStreams
    BY <1>3, <1>4, <1>11, StagesAndReasons DEF FetchStreams
  <1> QED
    BY <1>7, <1>8, <1>9, <1>10, <1>11

\* From the selection to the decision.
LEMMA SelectionStepsKeep ==
    ASSUME WorkflowInv, SelectTranscoding \/ SelectStream \/ ResolveEndpoint
    PROVE  WorkflowInv'
  <1>1. UNCHANGED <<Held, decision, staged>>
    BY DEF SelectTranscoding, SelectStream, ResolveEndpoint
  <1>2. /\ pc # "done" /\ ~staged
        /\ decision' \in Policy!Decisions \cup {NoDecision} /\ staged' = FALSE
    BY <1>1 DEF WorkflowInv, TypeOK, StepShape, SelectTranscoding, SelectStream, ResolveEndpoint
  <1>3. CASE /\ UNCHANGED source
             /\ \E stage \in DOMAIN Failures:
                   \E reason \in Failures[stage] \ {"policy_denied"}: Fail(stage, reason)
    BY <1>1, <1>2, <1>3, FailureKeeps
  <1>4. ASSUME NEW step \in {"endpoint", "analyze"}, GoTo(step), Selected'
        PROVE  WorkflowInv'
    <2>1. step \in Steps
      BY <1>4 DEF Steps
    <2>2. StepShape'
      BY <1>2, <1>4 DEF StepShape, GoTo
    <2>3. track' \in Tracks
      BY <1>1 DEF WorkflowInv, TypeOK, Held
    <2>4. source' \in Transcodings
      <3>1. CASE source' \in Clean(track')
        BY <2>3, <3>1 DEF Clean, Tracks
      <3>2. CASE source' = FirstStream'
        BY <3>2 DEF FirstStream, Transcodings, Mimes
      <3> QED
        BY <1>4, <3>1, <3>2 DEF Selected
    <2> QED
      BY <1>1, <1>2, <1>4, <2>1, <2>2, <2>4, GoesOn
  <1>5. CASE SelectTranscoding
    <2>1. ASSUME NEW item \in Clean(track), source' = item, GoTo("endpoint"),
                 \A other \in Clean(track): Rank(item) <= Rank(other)
          PROVE  WorkflowInv'
      <3>1. Selected'
        BY <1>1, <2>1 DEF Selected, Held, Clean, Rank
      <3> QED
        BY <1>4, <2>1, <3>1
    <2> QED
      BY <1>3, <1>5, <2>1, StagesAndReasons DEF SelectTranscoding
  <1>6. CASE SelectStream
    <2>1. ASSUME track.streams # {}, source' = FirstStream, GoTo("analyze")
          PROVE  WorkflowInv'
      <3>1. track.transcodings = {}
        BY <2>1 DEF WorkflowInv, TypeOK, Tracks
      <3>2. Selected'
        BY <1>1, <2>1, <3>1 DEF Selected, Held, FirstStream
      <3> QED
        BY <1>4, <2>1, <3>2
    <2> QED
      BY <1>3, <1>6, <2>1, StagesAndReasons DEF SelectStream
  <1>7. CASE ResolveEndpoint
    <2>1. UNCHANGED source /\ Selected
      BY <1>7 DEF ResolveEndpoint, WorkflowInv, StepShape
    <2>2. Selected'
      BY <1>1, <2>1, SelectionKept
    <2> QED
      BY <1>3, <1>4, <1>7, <2>1, <2>2, StagesAndReasons DEF ResolveEndpoint
  <1> QED
    BY <1>5, <1>6, <1>7

\* The decision is made, and looked at.
LEMMA DecisionStepsKeep ==
    ASSUME WorkflowInv, Analyze \/ CheckPolicy
    PROVE  WorkflowInv'
  <1>1. UNCHANGED <<Held, source, staged>> /\ pc # "done" /\ ~staged /\ Selected
    BY DEF Analyze, CheckPolicy, WorkflowInv, StepShape, Decided
  <1>2. source' \in Transcodings \cup {NoSource} /\ staged' = FALSE /\ command \in Commands
    BY <1>1 DEF WorkflowInv, TypeOK
  <1>3. CASE Analyze
    <2>1. CASE \E reason \in HlsReasons: Fail("stream_analysis", reason) /\ UNCHANGED decision
      <3>1. "policy_denied" \notin HlsReasons
        BY DEF HlsReasons
      <3> QED
        BY <1>1, <1>2, <2>1, <3>1, FailureKeeps, StagesAndReasons
    <2>2. CASE decision' = Policy!Decide(AccessContext, OutputProfile) /\ GoTo("policy")
      <3>1. AccessContext' = AccessContext /\ OutputProfile' = OutputProfile /\ Selected'
        BY <1>1, SelectionKept
      <3>2. Decided'
        <4>1. Policy!Decide(AccessContext, OutputProfile)' = Policy!Decide(AccessContext, OutputProfile)
          BY <1>1, DecisionKept
        <4> QED
          BY <2>2, <3>1, <4>1 DEF Decided
      <3>3. StepShape'
        BY <1>2, <2>2, <3>2 DEF StepShape, GoTo
      <3>4. decision' \in Policy!Decisions
        BY <1>2, <2>2, DecisionTyped
      <3>5. "policy" \in Steps
        BY DEF Steps
      <3> QED
        BY <1>1, <1>2, <2>2, <3>3, <3>4, <3>5, GoesOn
    <2> QED
      BY <1>3, <2>1, <2>2 DEF Analyze
  <1>4. CASE CheckPolicy
    <2>1. UNCHANGED decision /\ Decided /\ decision' \in Policy!Decisions \cup {NoDecision}
      BY <1>4 DEF CheckPolicy, WorkflowInv, StepShape, TypeOK
    <2>2. CASE decision.allowed
      <3>1. GoTo("plan") /\ "plan" \in Steps
        BY <1>4, <2>2 DEF CheckPolicy, Steps
      <3>2. StepShape'
        BY <1>1, <1>2, <2>1, <2>2, <3>1, SelectionKept DEF StepShape, GoTo
      <3> QED
        BY <1>1, <1>2, <2>1, <3>1, <3>2, GoesOn
    <2>3. CASE ~decision.allowed
      BY <1>1, <1>2, <1>4, <2>1, <2>3, FailureKeeps, StagesAndReasons DEF CheckPolicy
    <2> QED
      BY <2>2, <2>3
  <1> QED
    BY <1>3, <1>4

\* From the plan to the exported file.
LEMMA ProductionStepsKeep ==
    ASSUME WorkflowInv, PlanSegments \/ StageSegments \/ Assemble \/ Remux \/ Export
    PROVE  WorkflowInv'
  <1>1. /\ UNCHANGED <<Held, source, decision>> /\ pc # "done" /\ pc # "policy"
        /\ staged' \in BOOLEAN /\ Decided /\ decision.allowed
        /\ staged' => staged \/ pc = "stage"
        /\ staged => pc \in {"assemble", "remux", "export"}
    <2>1. pc \in {"plan", "stage", "assemble", "remux", "export"} /\ UNCHANGED <<Held, source, decision>>
      BY DEF PlanSegments, StageSegments, Assemble, Remux, Export
    <2>2. /\ Decided /\ decision.allowed /\ staged \in BOOLEAN
          /\ staged => pc \in {"assemble", "remux", "export"}
      BY <2>1 DEF WorkflowInv, StepShape, TypeOK
    <2>3. staged' = staged \/ (pc = "stage" /\ staged' \in BOOLEAN)
      BY DEF PlanSegments, StageSegments, Assemble, Remux, Export
    <2> QED
      BY <2>1, <2>2, <2>3
  <1>2. /\ source' \in Transcodings \cup {NoSource}
        /\ decision' \in Policy!Decisions \cup {NoDecision}
        /\ Decided' /\ decision'.allowed
    BY <1>1, SelectionKept DEF WorkflowInv, TypeOK
  <1>3. CASE \E stage \in DOMAIN Failures:
                \E reason \in Failures[stage] \ {"policy_denied"}: Fail(stage, reason)
    BY <1>1, <1>3, FailureKeeps
  <1>4. ASSUME NEW step \in {"stage", "assemble", "remux", "export"}, GoTo(step),
               staged' => step # "stage"
        PROVE  WorkflowInv'
    <2>1. step \in Steps
      BY <1>4 DEF Steps
    <2>2. StepShape'
      BY <1>2, <1>4 DEF StepShape, GoTo
    <2> QED
      BY <1>1, <1>2, <1>4, <2>1, <2>2, GoesOn
  <1>5. ASSUME Succeed, pc = "remux" \/ pc = "export"
        PROVE  WorkflowInv'
    <2>1. /\ pc' = "done" /\ command.format \in Formats
          /\ result' = [Running EXCEPT !.status = "succeeded", !.path = OutputPath[command.format]]
      BY <1>5 DEF Succeed, WorkflowInv, TypeOK, Commands
    <2>2. result' \in Results
      BY <2>1 DEF Results
    <2>3. result' # Running /\ result'.reason # "policy_denied"
      BY <2>1 DEF Running, None
    <2>4. TypeOK'
      BY <1>1, <1>2, <2>1, <2>2, <2>3 DEF WorkflowInv, TypeOK, Held
    <2>5. StepShape' /\ ResultShape'
      BY <1>2, <2>1, <2>3 DEF StepShape, ResultShape
    <2> QED
      BY <2>4, <2>5 DEF WorkflowInv
  <1>6. CASE PlanSegments
    BY <1>1, <1>3, <1>4, <1>6, StagesAndReasons DEF PlanSegments
  <1>7. CASE StageSegments
    BY <1>1, <1>3, <1>4, <1>7, StagesAndReasons DEF StageSegments
  <1>8. CASE Assemble
    BY <1>1, <1>3, <1>4, <1>8, StagesAndReasons DEF Assemble
  <1>9. CASE Remux
    BY <1>1, <1>3, <1>4, <1>5, <1>9, StagesAndReasons DEF Remux
  <1>10. CASE Export
    BY <1>1, <1>3, <1>4, <1>5, <1>10, StagesAndReasons DEF Export
  <1> QED
    BY <1>6, <1>7, <1>8, <1>9, <1>10

LEMMA AccountChangesKeep ==
    ASSUME WorkflowInv, AccountChanges
    PROVE  WorkflowInv'
  <1>1. /\ UNCHANGED <<command, track, pc, source, decision, staged, result>>
        /\ account' \in Accounts
        /\ pc \in {"start", "resolve", "metadata", "token"}
    BY DEF AccountChanges
  <1>2. TypeOK'
    BY <1>1 DEF WorkflowInv, TypeOK
  <1>3. result = Running /\ ~staged
    BY <1>1 DEF WorkflowInv, TypeOK, StepShape
  <1>4. StepShape' /\ ResultShape'
    BY <1>1, <1>3 DEF StepShape, ResultShape, Produced, Running, None
  <1> QED
    BY <1>2, <1>4 DEF WorkflowInv

LEMMA StutterKeeps ==
    ASSUME WorkflowInv, UNCHANGED vars
    PROVE  WorkflowInv'
  <1>1. TypeOK'
    BY DEF WorkflowInv, TypeOK, vars
  <1>2. (Selected' <=> Selected) /\ (Decided' <=> Decided)
    BY SelectionKept DEF vars, Held
  <1>3. StepShape' /\ ResultShape'
    BY <1>2 DEF WorkflowInv, StepShape, ResultShape, Produced, vars
  <1> QED
    BY <1>1, <1>3 DEF WorkflowInv

\* What is selected, decided, stored and reported hangs together at every step.
THEOREM WorkflowInvariant == Spec => []WorkflowInv
  <1>1. WorkflowInv /\ [Next]_vars => WorkflowInv'
    <2> SUFFICES ASSUME WorkflowInv, [Next]_vars PROVE WorkflowInv'
      OBVIOUS
    <2>1. CASE AccountChanges
      BY <2>1, AccountChangesKeep
    <2>2. CASE Start \/ Resolve \/ NormalizeMetadata \/ GetToken \/ FetchStreams
      BY <2>2, EarlyStepsKeep
    <2>3. CASE SelectTranscoding \/ SelectStream \/ ResolveEndpoint
      BY <2>3, SelectionStepsKeep
    <2>4. CASE Analyze \/ CheckPolicy
      BY <2>4, DecisionStepsKeep
    <2>5. CASE PlanSegments \/ StageSegments \/ Assemble \/ Remux \/ Export
      BY <2>5, ProductionStepsKeep
    <2>6. CASE Done \/ UNCHANGED vars
      BY <2>6, StutterKeeps DEF Done
    <2> QED
      BY <2>1, <2>2, <2>3, <2>4, <2>5, <2>6 DEF Next
  <1> QED
    BY <1>1, InitInv, PTL DEF Spec

\* Type correctness: every step that fails reports a reason of its stage, and
\* exactly the runs that have ended report anything.
THEOREM WorkflowTypeCorrect == Spec => []TypeOK
  <1>1. WorkflowInv => TypeOK
    BY DEF WorkflowInv
  <1> QED
    BY <1>1, WorkflowInvariant, PTL

\* Nothing is stored of a source the policy has not allowed, nor of a preview.
THEOREM WorkflowStagedEntitled == Spec => []StagedIsEntitled
  <1>1. WorkflowInv => StagedIsEntitled
    <2> SUFFICES ASSUME WorkflowInv, staged PROVE decision.allowed /\ source.hls /\ ~track.preview
      BY DEF StagedIsEntitled
    <2>1. Selected /\ decision.allowed /\ track \in Tracks
      BY DEF WorkflowInv, ResultShape, Produced, Decided, TypeOK
    <2> QED
      BY <2>1, SelectedTyped
  <1> QED
    BY <1>1, WorkflowInvariant, PTL

\* All that the command can deliver is a remux of AAC in Go+ mode.
THEOREM WorkflowOnlyRemux == Spec => []OnlyRemuxSucceeds
  <1>1. WorkflowInv => OnlyRemuxSucceeds
    <2> SUFFICES ASSUME WorkflowInv, result.status = "succeeded"
                 PROVE  command.mode = "go_plus" /\ OutputProfile = "aac_m4a" /\ Codec(source) = "aac"
      BY DEF OnlyRemuxSucceeds
    <2>1. Decided /\ decision.allowed /\ command \in Commands
      BY DEF WorkflowInv, ResultShape, Produced, TypeOK
    <2> QED
      BY <2>1, AllowedMeans DEF Decided
  <1> QED
    BY <1>1, WorkflowInvariant, PTL

\* However many transcodings a track has, no clean audio/mp4 one was passed over
\* for one that is denied.  Of AAC under other MIME types this is not so.
THEOREM WorkflowDeniedOnlyWithoutMp4 == Spec => []DeniedOnlyWithoutMp4
  <1>1. WorkflowInv => DeniedOnlyWithoutMp4
    <2> SUFFICES ASSUME WorkflowInv, result.reason = "policy_denied",
                        command.mode = "go_plus", OutputProfile = "aac_m4a",
                        NEW item \in track.transcodings,
                        item.mime = "mp4", item.hls /\ ~item.snipped
                 PROVE  FALSE
      BY DEF DeniedOnlyWithoutMp4
    <2>1. Decided /\ ~decision.allowed /\ command \in Commands
      BY DEF WorkflowInv, ResultShape, TypeOK
    <2>2. Codec(source) # "aac"
      BY <2>1, AllowedMeans DEF Decided
    <2>3. item \in Clean(track) /\ Rank(item) = 0
      BY DEF Clean, Rank
    <2>4. Rank(source) <= 0
      BY <2>1, <2>3 DEF Decided, Selected
    <2>5. source.mime = "mp4"
      BY <2>4 DEF Rank
    <2> QED
      BY <2>2, <2>5 DEF Codec
  <1> QED
    BY <1>1, WorkflowInvariant, PTL

\* No service and no failed refresh is reported as an unknown failure.
THEOREM WorkflowUnknownOnlyForLackOfToken == Spec => UnknownOnlyForLackOfToken
  <1>1. WorkflowInv /\ [Next]_vars =>
            [(result'.stage = "unknown" /\ pc # "start" /\ pc # "done") =>
                account \in NoReason /\ pc = "token"]_vars
    <2> SUFFICES ASSUME WorkflowInv, Next, result'.stage = "unknown", pc # "start", pc # "done"
                 PROVE  account \in NoReason /\ pc = "token"
      OBVIOUS
    <2>1. result.stage # "unknown"
      BY DEF WorkflowInv, TypeOK, Running, None
    <2>2. result' # result
      BY <2>1
    <2>3. \A stage, reason: Fail(stage, reason) => result'.stage = stage
      BY DEF Fail, Running
    <2>4. Succeed => result'.stage # "unknown"
      BY DEF Succeed, Running, None
    <2>5. Start \/ GetToken
      BY <2>2, <2>3, <2>4
      DEF Next, AccountChanges, Resolve, NormalizeMetadata, SelectTranscoding, ResolveEndpoint,
          FetchStreams, SelectStream, Analyze, CheckPolicy, PlanSegments, StageSegments, Assemble,
          Remux, Export, Done, GoTo, vars
    <2> QED
      BY <2>2, <2>3, <2>5 DEF Start, GetToken, GoTo
  <1> QED
    BY <1>1, WorkflowInvariant, PTL DEF Spec, UnknownOnlyForLackOfToken

-----------------------------------------------------------------------------
(* The workflow implements the stages of a media run. *)

\* A download that is remuxed to M4A is not exported.
LEMMA OnlyOthersExported == Spec => []ExportShape
  <1>1. Init => ExportShape
    BY DEF Init, ExportShape
  <1>2. ExportShape /\ [Next]_vars => ExportShape'
    <2> SUFFICES ASSUME ExportShape, [Next]_vars, pc' = "export"
                 PROVE  command'.format # "m4a"
      BY DEF ExportShape
    <2>1. \A stage, reason: ~Fail(stage, reason)
      BY DEF Fail
    <2>2. CASE Start \/ Resolve \/ NormalizeMetadata \/ GetToken \/ FetchStreams
      BY <2>1, <2>2 DEF Start, Resolve, NormalizeMetadata, GetToken, FetchStreams, GoTo
    <2>3. CASE SelectTranscoding \/ SelectStream \/ ResolveEndpoint
      BY <2>1, <2>3 DEF SelectTranscoding, SelectStream, ResolveEndpoint, GoTo
    <2>4. CASE Analyze \/ CheckPolicy \/ PlanSegments \/ StageSegments \/ Assemble
      BY <2>1, <2>4 DEF Analyze, CheckPolicy, PlanSegments, StageSegments, Assemble, GoTo
    <2>5. CASE Remux \/ Export
      BY <2>1, <2>5 DEF Remux, Export, GoTo, Succeed, Held
    <2>6. CASE AccountChanges \/ Done \/ UNCHANGED vars
      BY <2>6 DEF AccountChanges, Done, vars, ExportShape
    <2> QED
      BY <2>2, <2>3, <2>4, <2>5, <2>6 DEF Next
  <1> QED
    BY <1>1, <1>2, PTL DEF Spec

MediaSteps == {"stage", "assemble", "remux", "export"}

\* The stage of the one run, and what it has delivered.
LEMMA StagesAt ==
    /\ pc \in MediaSteps => Stages = [r \in {"run"} |-> Media!At(pc, command.format)]
    /\ pc \notin MediaSteps => Stages = [r \in {"run"} |-> Media!Resting]
  BY DEF Stages, MediaSteps, Media!At, Media!Resting

LEMMA GotAt ==
    /\ result.path = None => Got = [r \in {"run"} |-> None]
    /\ \A f \in Formats: result.path = OutputPath[f] => Got = [r \in {"run"} |-> f]
  <1>1. \A f \in Formats: OutputPath[f] # None
    BY DEF Formats, OutputPath, None
  <1>2. \A f, g \in Formats: OutputPath[f] = OutputPath[g] => f = g
    BY DEF Formats, OutputPath
  <1>3. ASSUME NEW f \in Formats, result.path = OutputPath[f]
        PROVE  Got = [r \in {"run"} |-> f]
    <2>1. (CHOOSE g \in Formats: result.path = OutputPath[g]) = f
      BY <1>2, <1>3
    <2> QED
      BY <1>3, <2>1 DEF Got
  <1>4. result.path = None => Got = [r \in {"run"} |-> None]
    BY <1>1 DEF Got
  <1> QED
    BY <1>3, <1>4

\* The facts about the next state.
LEMMA StagesAtNext ==
    /\ pc' \in MediaSteps => Stages' = [r \in {"run"} |-> Media!At(pc', command'.format)]
    /\ pc' \notin MediaSteps => Stages' = [r \in {"run"} |-> Media!Resting]
  BY DEF Stages, MediaSteps, Media!At, Media!Resting

LEMMA GotAtNext ==
    /\ result'.path = None => Got' = [r \in {"run"} |-> None]
    /\ \A f \in Formats: result'.path = OutputPath[f] => Got' = [r \in {"run"} |-> f]
  <1>1. \A f \in Formats: OutputPath[f] # None
    BY DEF Formats, OutputPath, None
  <1>2. \A f, g \in Formats: OutputPath[f] = OutputPath[g] => f = g
    BY DEF Formats, OutputPath
  <1>3. ASSUME NEW f \in Formats, result'.path = OutputPath[f]
        PROVE  Got' = [r \in {"run"} |-> f]
    <2>1. (CHOOSE g \in Formats: result'.path = OutputPath[g]) = f
      BY <1>2, <1>3
    <2> QED
      BY <1>3, <2>1 DEF Got
  <1>4. result'.path = None => Got' = [r \in {"run"} |-> None]
    BY <1>1 DEF Got
  <1> QED
    BY <1>3, <1>4

\* A run that fails leaves its stage and delivers nothing.
LEMMA FailBreaks ==
    ASSUME result = Running, NEW stage, NEW reason, Fail(stage, reason)
    PROVE  Media!Break("run")
  <1>1. pc' \notin MediaSteps /\ result.path = None /\ result'.path = None
    BY DEF Fail, Running, MediaSteps
  <1>2. Stages' = [r \in {"run"} |-> Media!Resting] /\ Got' = Got
    BY <1>1, StagesAtNext, GotAt, GotAtNext
  <1>3. Stages' = [Stages EXCEPT !["run"] = Media!Resting]
    BY <1>2 DEF Stages
  <1> QED
    BY <1>2, <1>3 DEF Media!Break

\* Before the segments are staged nothing is seen of a run.
LEMMA EarlierStepsAreQuiet ==
    ASSUME TypeOK,
           \/ AccountChanges \/ Start \/ Resolve \/ NormalizeMetadata \/ GetToken
           \/ SelectTranscoding \/ ResolveEndpoint \/ FetchStreams \/ SelectStream
           \/ Analyze \/ CheckPolicy
    PROVE  UNCHANGED Media!mvars
  <1>1. pc \notin MediaSteps /\ pc # "done"
    BY DEF AccountChanges, Start, Resolve, NormalizeMetadata, GetToken, SelectTranscoding,
           ResolveEndpoint, FetchStreams, SelectStream, Analyze, CheckPolicy, MediaSteps
  <1>2. result.path = None
    BY <1>1 DEF TypeOK, Running
  <1>3. \A stage, reason: Fail(stage, reason) => pc' = "done" /\ result'.path = None
    BY DEF Fail, Running
  <1>4. pc' \notin MediaSteps /\ result'.path = None
    <2>1. CASE AccountChanges
      BY <1>1, <1>2, <2>1 DEF AccountChanges
    <2>2. CASE Start \/ Resolve \/ NormalizeMetadata \/ GetToken \/ FetchStreams
      BY <1>2, <1>3, <2>2
         DEF Start, Resolve, NormalizeMetadata, GetToken, FetchStreams, GoTo, MediaSteps, Running
    <2>3. CASE SelectTranscoding \/ SelectStream \/ ResolveEndpoint
      BY <1>2, <1>3, <2>3 DEF SelectTranscoding, SelectStream, ResolveEndpoint, GoTo, MediaSteps
    <2>4. CASE Analyze \/ CheckPolicy
      BY <1>2, <1>3, <2>4 DEF Analyze, CheckPolicy, GoTo, MediaSteps
    <2> QED
      BY <2>1, <2>2, <2>3, <2>4
  <1> QED
    BY <1>1, <1>2, <1>4, StagesAt, StagesAtNext, GotAt, GotAtNext DEF Media!mvars

\* From the plan on each step is one of a media run.
LEMMA LaterStepsGoOn ==
    ASSUME TypeOK, ExportShape,
           PlanSegments \/ StageSegments \/ Assemble \/ Remux \/ Export
    PROVE  Media!MNext
  <1> DEFINE f == command.format
  <1>1. f \in Formats /\ command' = command
    BY DEF TypeOK, Commands, PlanSegments, StageSegments, Assemble, Remux, Export, Held
  <1>2. result = Running /\ Got = [r \in {"run"} |-> None]
    <2>1. pc # "done"
      BY DEF PlanSegments, StageSegments, Assemble, Remux, Export
    <2> QED
      BY <2>1, GotAt DEF TypeOK, Running
  <1>3. ASSUME NEW stage, NEW reason, Fail(stage, reason)
        PROVE  Media!MNext
    BY <1>2, <1>3, FailBreaks DEF Media!MNext
  <1>4. ASSUME NEW step \in MediaSteps, GoTo(step)
        PROVE  /\ Got' = Got
               /\ Stages' = [r \in {"run"} |-> Media!At(step, f)]
    <2>1. pc' \in MediaSteps /\ pc' = step /\ result' = Running
      BY <1>2, <1>4 DEF GoTo
    <2>2. result'.path = None
      BY <2>1 DEF Running
    <2> QED
      BY <1>1, <1>2, <2>1, <2>2, StagesAtNext, GotAtNext
  <1>5. ASSUME NEW step \in MediaSteps, <<pc, step>> \in Media!Onward(f),
               pc \in MediaSteps, GoTo(step)
        PROVE  Media!MNext
    <2> DEFINE move == <<pc, step>>
    <2>1. /\ Stages = [r \in {"run"} |-> Media!At(move[1], f)]
          /\ Stages' = [r \in {"run"} |-> Media!At(move[2], f)]
          /\ Got' = Got
      BY <1>4, <1>5, StagesAt
    <2>2. /\ Stages["run"] = Media!At(move[1], f)
          /\ Stages' = [Stages EXCEPT !["run"] = Media!At(move[2], f)]
      BY <2>1
    <2>3. move \in Media!Onward(f)
      BY <1>5
    <2> HIDE DEF move
    <2>4. Media!GoOn("run", f)
      BY <2>1, <2>2, <2>3 DEF Media!GoOn
    <2> QED
      BY <1>1, <2>4 DEF Media!MNext
  <1>6. ASSUME Succeed, pc = IF f = "m4a" THEN "remux" ELSE "export"
        PROVE  Media!MNext
    <2>1. /\ pc \in MediaSteps /\ pc' \notin MediaSteps
          /\ result'.path = OutputPath[f]
      BY <1>6 DEF Succeed, Running, MediaSteps
    <2>2. /\ Stages = [r \in {"run"} |-> Media!At(IF f = "m4a" THEN "remux" ELSE "export", f)]
          /\ Stages' = [r \in {"run"} |-> Media!Resting]
          /\ Got' = [r \in {"run"} |-> f]
      BY <1>1, <1>6, <2>1, StagesAt, StagesAtNext, GotAtNext
    <2>3. Media!Deliver("run", f)
      BY <1>2, <2>2 DEF Media!Deliver
    <2> QED
      BY <1>1, <2>3 DEF Media!MNext
  <1>7. CASE PlanSegments
    <2>1. CASE GoTo("stage")
      <3>1. /\ Stages = [r \in {"run"} |-> Media!Resting]
            /\ Stages' = [r \in {"run"} |-> Media!At("stage", f)]
            /\ Got' = Got
        BY <1>4, <1>7, <2>1, StagesAt DEF PlanSegments, MediaSteps
      <3>2. Media!Begin("run", f)
        BY <1>2, <3>1 DEF Media!Begin
      <3> QED
        BY <1>1, <3>2 DEF Media!MNext
    <2> QED
      BY <1>3, <1>7, <2>1 DEF PlanSegments
  <1>8. CASE StageSegments
    BY <1>3, <1>5, <1>8 DEF StageSegments, Media!Onward, MediaSteps
  <1>9. CASE Assemble
    BY <1>3, <1>5, <1>9 DEF Assemble, Media!Onward, MediaSteps
  <1>10. CASE Remux
    <2>1. CASE f = "m4a" /\ Succeed
      BY <1>6, <1>10, <2>1 DEF Remux
    <2>2. CASE f # "m4a" /\ GoTo("export")
      BY <1>5, <1>10, <2>2 DEF Remux, Media!Onward, MediaSteps
    <2> QED
      BY <1>3, <1>10, <2>1, <2>2 DEF Remux
  <1>11. CASE Export
    <2>1. f # "m4a"
      BY <1>11 DEF Export, ExportShape
    <2> QED
      BY <1>3, <1>6, <1>11, <2>1 DEF Export
  <1> QED
    BY <1>7, <1>8, <1>9, <1>10, <1>11

\* For any number of transcodings: the stages that the workflow sees are those
\* the pipeline goes through, and the path it names is that of the format
\* which was asked for and made.
THEOREM WorkflowImplementsMediaRun == Spec => ImplementsMediaRun
  <1>1. Init => Media!MInit
    <2> SUFFICES ASSUME Init PROVE Media!MInit
      OBVIOUS
    <2>1. pc \notin MediaSteps /\ result.path = None
      BY DEF Init, MediaSteps, Running
    <2> QED
      BY <2>1, StagesAt, GotAt DEF Media!MInit
  <1>2. TypeOK /\ ExportShape /\ [Next]_vars => [Media!MNext]_(Media!mvars)
    <2> SUFFICES ASSUME TypeOK, ExportShape, [Next]_vars
                 PROVE  Media!MNext \/ UNCHANGED Media!mvars
      OBVIOUS
    <2>1. CASE Done \/ UNCHANGED vars
      BY <2>1 DEF Done, vars, Media!mvars, Stages, Got
    <2> QED
      BY <2>1, EarlierStepsAreQuiet, LaterStepsGoOn DEF Next
  <1> QED
    BY <1>1, <1>2, WorkflowTypeCorrect, OnlyOthersExported, PTL
       DEF Spec, ImplementsMediaRun, Media!MSpec
=============================================================================
