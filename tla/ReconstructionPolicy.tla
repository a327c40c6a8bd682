------------------------ MODULE ReconstructionPolicy ------------------------
(***************************************************************************)
(* ReconstructionPolicyEngine.decide: whether a track may be reconstructed *)
(* offline, and in which output profile.                                   *)
(*                                                                         *)
(* The engine is a function of the access context and of the requested     *)
(* profile.  The state machine evaluates it again and again while the      *)
(* user and the track gain rights one at a time, so that decisions about   *)
(* neighbouring contexts can be compared.                                  *)
(*                                                                         *)
(* Protocols and codecs are only compared with HLS and AAC: Other stands   *)
(* for the rest.  is_public is carried along by the code and never read.   *)
(***************************************************************************)

VARIABLES
    context,     \* TrackAccessContext
    requested,   \* requested_profile
    decision     \* the PolicyDecision of the last evaluation

vars == <<context, requested, decision>>

-----------------------------------------------------------------------------
None == "none"
Other == "other"

Profiles == {"original", "mp3_128", "aac_m4a", "wav_export"}

Sources ==
    [protocol: {"hls", Other}, codec: {"aac", Other}, requiresAuth: BOOLEAN,
     downloadable: BOOLEAN, drm: {"none", "encrypted_hls", "eme_drm", "unknown"}]

NoSource == [protocol |-> None]

Contexts ==
    [mode: {"public", "go_plus"}, authenticated: BOOLEAN, hasGoPlus: BOOLEAN,
     goPlusTrack: BOOLEAN, preview: BOOLEAN, downloadable: BOOLEAN, ownTrack: BOOLEAN,
     offlineAllowed: {"yes", "no", "unspecified"},
     source: Sources \cup {NoSource}]

AllowedBy ==
    [original |-> "allow_original_download",
     mp3_128 |-> "allow_mp3_128_reconstruction",
     aac_m4a |-> "allow_aac_m4a_remux",
     wav_export |-> "allow_wav_export"]

\* What PolicyDecision accepts: an allowed decision has an output profile and
\* no error code, a denied one no profile.
Decisions ==
    [name: {AllowedBy[p]: p \in Profiles}, allowed: {TRUE},
     error: {None}, profile: Profiles]
    \cup
    [name: {"deny_auth_required", "deny_go_plus_required", "deny_preview_only", "deny_drm",
            "deny_rights_restricted", "deny_source_not_downloadable",
            "deny_unsupported_format", "deny_unknown_unsafe"},
     allowed: {FALSE},
     error: {"auth_required", "go_plus_required", "preview_only", "encrypted_stream_unsupported",
             "drm_unsupported", "rights_restricted", "source_not_downloadable",
             "manifest_unsupported", "unknown_unsafe"},
     profile: {None}]

Allow(profile) ==
    [name |-> AllowedBy[profile], allowed |-> TRUE, error |-> None, profile |-> profile]

\* Mutant: a denied decision carries the profile that was asked for.
MutDenyKeepsProfile(name, error) ==
    [name |-> name, allowed |-> FALSE, error |-> error, profile |-> requested]

Deny(name, error) == [name |-> name, allowed |-> FALSE, error |-> error, profile |-> None]

DenyNotDownloadable == Deny("deny_source_not_downloadable", "source_not_downloadable")
DenyGoPlus == Deny("deny_go_plus_required", "go_plus_required")
DenyAuth == Deny("deny_auth_required", "auth_required")

\* Mutant: an unknown DRM state passes.
MutUnsafeDrmKnownOnly(s) == s.drm \in {"encrypted_hls", "eme_drm"}

UnsafeDrm(s) == s.drm # "none"

DenyDrm(s) ==
    IF s.drm = "encrypted_hls" THEN Deny("deny_drm", "encrypted_stream_unsupported")
    ELSE IF s.drm = "eme_drm" THEN Deny("deny_drm", "drm_unsupported")
    ELSE Deny("deny_unknown_unsafe", "unknown_unsafe")

\* Mutant: the sense of is_own_track turned round.
MutHasDownloadableSourceForeign(c) == c.downloadable \/ ~c.ownTrack \/ c.source.downloadable

HasDownloadableSource(c) == c.downloadable \/ c.ownTrack \/ c.source.downloadable

SupportsRemux(s) == s.protocol = "hls" /\ s.codec = "aac" /\ s.drm = "none"

DownloadableProfiles == {"original", "mp3_128", "wav_export"}

\* Mutant: the original is delivered whatever profile was asked for.
MutAllowDownloadableOriginal(c, profile) ==
    IF HasDownloadableSource(c) THEN Allow("original") ELSE DenyNotDownloadable

AllowDownloadable(c, profile) ==
    IF HasDownloadableSource(c) THEN Allow(profile) ELSE DenyNotDownloadable

DecidePublic(c, profile) ==
    IF c.goPlusTrack THEN DenyGoPlus
    ELSE IF c.source.requiresAuth THEN DenyAuth
    ELSE IF profile = "aac_m4a" THEN DenyGoPlus
    ELSE IF profile \in DownloadableProfiles THEN AllowDownloadable(c, profile)
    ELSE IF HasDownloadableSource(c) THEN Allow("original")
    ELSE DenyNotDownloadable

\* Mutant: a source that requires authentication is refused in Go+ mode too.
MutDecideGoPlusRefusesAuthSource(c, profile) ==
    IF ~c.authenticated \/ c.source.requiresAuth THEN DenyAuth
    ELSE IF profile \in DownloadableProfiles THEN AllowDownloadable(c, profile)
    ELSE IF SupportsRemux(c.source) THEN Allow("aac_m4a")
    ELSE Deny("deny_unsupported_format", "manifest_unsupported")

DecideGoPlus(c, profile) ==
    IF ~c.authenticated THEN DenyAuth
    ELSE IF c.goPlusTrack /\ ~c.hasGoPlus THEN DenyGoPlus
    ELSE IF c.offlineAllowed = "no" THEN Deny("deny_rights_restricted", "rights_restricted")
    ELSE IF profile \in DownloadableProfiles THEN AllowDownloadable(c, profile)
    ELSE IF SupportsRemux(c.source) THEN Allow("aac_m4a")
    ELSE IF profile = None /\ HasDownloadableSource(c) THEN Allow("original")
    ELSE Deny("deny_unsupported_format", "manifest_unsupported")

Decide(c, profile) ==
    IF c.source = NoSource THEN DenyNotDownloadable
    ELSE IF UnsafeDrm(c.source) THEN DenyDrm(c.source)
    ELSE IF c.preview THEN Deny("deny_preview_only", "preview_only")
    ELSE IF c.mode = "public" THEN DecidePublic(c, profile)
    ELSE DecideGoPlus(c, profile)

-----------------------------------------------------------------------------
Init ==
    /\ context \in Contexts
    /\ requested \in Profiles \cup {None}
    /\ decision = Decide(context, requested)

Evaluate(c) ==
    /\ context' = c
    /\ decision' = Decide(c, requested)
    /\ UNCHANGED requested

SignIn == ~context.authenticated /\ Evaluate([context EXCEPT !.authenticated = TRUE])
Subscribe == ~context.hasGoPlus /\ Evaluate([context EXCEPT !.hasGoPlus = TRUE])
LeaveGoPlusCatalogue == context.goPlusTrack /\ Evaluate([context EXCEPT !.goPlusTrack = FALSE])
ReleaseFull == context.preview /\ Evaluate([context EXCEPT !.preview = FALSE])
OfferDownload == ~context.downloadable /\ Evaluate([context EXCEPT !.downloadable = TRUE])
BecomeOwner == ~context.ownTrack /\ Evaluate([context EXCEPT !.ownTrack = TRUE])

AllowOffline ==
    /\ context.offlineAllowed = "no"
    /\ Evaluate([context EXCEPT !.offlineAllowed = "yes"])

OpenSource ==
    /\ context.source # NoSource
    /\ \/ context.source.requiresAuth /\ Evaluate([context EXCEPT !.source.requiresAuth = FALSE])
       \/ ~context.source.downloadable /\ Evaluate([context EXCEPT !.source.downloadable = TRUE])
       \/ context.source.drm # "none" /\ Evaluate([context EXCEPT !.source.drm = "none"])

\* A signed-in user who may use everything asks again in Go+ mode.
SwitchToGoPlus ==
    /\ context.mode = "public"
    /\ context.authenticated /\ context.hasGoPlus /\ context.offlineAllowed # "no"
    /\ Evaluate([context EXCEPT !.mode = "go_plus"])

Next ==
    \/ SignIn
    \/ Subscribe
    \/ LeaveGoPlusCatalogue
    \/ ReleaseFull
    \/ OfferDownload
    \/ BecomeOwner
    \/ AllowOffline
    \/ OpenSource
    \/ SwitchToGoPlus

Spec == Init /\ [][Next]_vars

-----------------------------------------------------------------------------
\* Every decision is one that PolicyDecision's validator accepts.
TypeOK ==
    /\ context \in Contexts
    /\ requested \in Profiles \cup {None}
    /\ decision \in Decisions

\* Through every path of the engine: nothing is allowed without a source,
\* with DRM that is present or unknown, or from a preview; a Go+ track needs
\* an authenticated account with Go+, and Go+ mode respects the rights.
FailClosed ==
    decision.allowed =>
        /\ context.source # NoSource
        /\ context.source.drm = "none"
        /\ ~context.preview
        /\ context.goPlusTrack => context.mode = "go_plus" /\ context.hasGoPlus
        /\ context.mode = "go_plus" => context.authenticated /\ context.offlineAllowed # "no"

\* An allowed request gets the profile it named, a remux only from HLS AAC
\* and every other profile only from a source that may be downloaded.
ProfileHonoured ==
    decision.allowed =>
        /\ requested # None => decision.profile = requested
        /\ decision.profile = "aac_m4a" => SupportsRemux(context.source)
        /\ decision.profile # "aac_m4a" =>
              context.downloadable \/ context.ownTrack \/ context.source.downloadable

\* The error code names a remedy that works: a denial for lack of a login or
\* of Go+ is never repeated once the user asks in Go+ mode with both.
ErrorNamesRemedy ==
    LET entitled == [context EXCEPT !.mode = "go_plus", !.authenticated = TRUE,
                                    !.hasGoPlus = TRUE]
    IN  decision.error \in {"auth_required", "go_plus_required"} =>
            Decide(entitled, requested).error \notin {"auth_required", "go_plus_required"}

\* Gaining a right never turns an allowed request into a denied one, and
\* never changes the profile a request that names one is given.
RightsMonotone ==
    [][decision.allowed =>
          /\ decision'.allowed
          /\ requested # None => decision'.profile = decision.profile]_vars
=============================================================================
