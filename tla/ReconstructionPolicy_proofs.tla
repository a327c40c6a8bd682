--------------------- MODULE ReconstructionPolicy_proofs ---------------------
(***************************************************************************)
(* The policy engine is a total function of a finite context, so that TLC  *)
(* has seen every context; the proofs say why.  What Decide grants is      *)
(* proved first, of any context (GrantNeeds, PublicGrant, GoPlusGrant,     *)
(* GrantIsMonotone, DeniedForLogin), and the properties of the state       *)
(* machine follow from PolicyInv, which ties the decision to the context.  *)
(***************************************************************************)
EXTENDS ReconstructionPolicy, TLAPS

Requests == Profiles \cup {None}

\* A request has been decided for the context there is.
PolicyInv ==
    /\ context \in Contexts
    /\ requested \in Requests
    /\ decision = Decide(context, requested)

-----------------------------------------------------------------------------
(* The engine as a function. *)

LEMMA DecisionTyped ==
    ASSUME NEW c \in Contexts, NEW p \in Requests
    PROVE  Decide(c, p) \in Decisions
  <1>1. /\ DenyNotDownloadable \in Decisions /\ DenyGoPlus \in Decisions /\ DenyAuth \in Decisions
        /\ Deny("deny_preview_only", "preview_only") \in Decisions
        /\ Deny("deny_rights_restricted", "rights_restricted") \in Decisions
        /\ Deny("deny_unsupported_format", "manifest_unsupported") \in Decisions
    BY DEF DenyNotDownloadable, DenyGoPlus, DenyAuth, Deny, Decisions
  <1>2. ASSUME NEW q \in Profiles PROVE Allow(q) \in Decisions
    BY DEF Allow, Decisions
  <1>3. \A s: DenyDrm(s) \in Decisions
    BY DEF DenyDrm, Deny, Decisions
  <1>4. ASSUME NEW q \in Profiles PROVE AllowDownloadable(c, q) \in Decisions
    BY <1>1, <1>2 DEF AllowDownloadable
  <1>5. DownloadableProfiles \subseteq Profiles /\ {"original", "aac_m4a"} \subseteq Profiles
    BY DEF DownloadableProfiles, Profiles
  <1>6. DecidePublic(c, p) \in Decisions
    BY <1>1, <1>2, <1>4, <1>5 DEF DecidePublic
  <1>7. DecideGoPlus(c, p) \in Decisions
    BY <1>1, <1>2, <1>4, <1>5 DEF DecideGoPlus
  <1> QED
    BY <1>1, <1>3, <1>6, <1>7 DEF Decide

\* Which decisions are grants, told apart once and for all.
LEMMA GrantOrDenial ==
    /\ \A q: Allow(q).allowed /\ Allow(q).profile = q /\ Allow(q).error = None
    /\ \A n, e: ~Deny(n, e).allowed /\ Deny(n, e).error = e
    /\ ~DenyNotDownloadable.allowed /\ ~DenyGoPlus.allowed /\ ~DenyAuth.allowed
    /\ \A s: ~DenyDrm(s).allowed
  BY DEF Allow, Deny, DenyNotDownloadable, DenyGoPlus, DenyAuth, DenyDrm

\* The only way through the engine.
LEMMA GrantNeeds ==
    ASSUME NEW c \in Contexts, NEW p \in Requests, Decide(c, p).allowed
    PROVE  /\ c.source # NoSource
           /\ ~UnsafeDrm(c.source)
           /\ ~c.preview
           /\ Decide(c, p) = IF c.mode = "public" THEN DecidePublic(c, p) ELSE DecideGoPlus(c, p)
  BY GrantOrDenial DEF Decide

LEMMA PublicGrant ==
    ASSUME NEW c \in Contexts, NEW p \in Requests, DecidePublic(c, p).allowed
    PROVE  /\ ~c.goPlusTrack /\ ~c.source.requiresAuth /\ p # "aac_m4a"
           /\ HasDownloadableSource(c)
           /\ DecidePublic(c, p) = Allow(IF p = None THEN "original" ELSE p)
  <1> USE DEF Requests, Profiles, DownloadableProfiles, None
  <1>1. ~c.goPlusTrack /\ ~c.source.requiresAuth /\ p # "aac_m4a"
    BY GrantOrDenial DEF DecidePublic
  <1>2. CASE p \in DownloadableProfiles
    <2>1. DecidePublic(c, p) = AllowDownloadable(c, p)
      BY <1>1, <1>2 DEF DecidePublic
    <2> QED
      BY <1>1, <1>2, <2>1, GrantOrDenial DEF AllowDownloadable
  <1>3. CASE p = None
    <2>1. DecidePublic(c, p) = IF HasDownloadableSource(c) THEN Allow("original")
                               ELSE DenyNotDownloadable
      BY <1>1, <1>3 DEF DecidePublic
    <2> QED
      BY <1>1, <1>3, <2>1, GrantOrDenial
  <1> QED
    BY <1>1, <1>2, <1>3

LEMMA GoPlusGrant ==
    ASSUME NEW c \in Contexts, NEW p \in Requests, DecideGoPlus(c, p).allowed
    PROVE  /\ c.authenticated /\ (c.goPlusTrack => c.hasGoPlus) /\ c.offlineAllowed # "no"
           /\ \/ /\ p \in DownloadableProfiles /\ HasDownloadableSource(c)
                 /\ DecideGoPlus(c, p) = Allow(p)
              \/ /\ p \notin DownloadableProfiles /\ SupportsRemux(c.source)
                 /\ DecideGoPlus(c, p) = Allow("aac_m4a")
              \/ /\ p = None /\ ~SupportsRemux(c.source) /\ HasDownloadableSource(c)
                 /\ DecideGoPlus(c, p) = Allow("original")
  <1>1. c.authenticated /\ (c.goPlusTrack => c.hasGoPlus) /\ c.offlineAllowed # "no"
    BY GrantOrDenial DEF DecideGoPlus
  <1>2. CASE p \in DownloadableProfiles
    <2>1. DecideGoPlus(c, p) = AllowDownloadable(c, p)
      BY <1>1, <1>2 DEF DecideGoPlus
    <2> QED
      BY <1>1, <1>2, <2>1, GrantOrDenial DEF AllowDownloadable
  <1>3. CASE p \notin DownloadableProfiles /\ SupportsRemux(c.source)
    BY <1>1, <1>3 DEF DecideGoPlus
  <1>4. CASE p \notin DownloadableProfiles /\ ~SupportsRemux(c.source)
    BY <1>1, <1>4, GrantOrDenial DEF DecideGoPlus
  <1> QED
    BY <1>2, <1>3, <1>4

\* With a login and Go+, Go+ mode asks for neither.
LEMMA DeniedForLogin ==
    ASSUME NEW c \in Contexts, NEW p \in Requests,
           c.mode = "go_plus", c.authenticated, c.hasGoPlus
    PROVE  Decide(c, p).error \notin {"auth_required", "go_plus_required"}
  <1>1. /\ DenyNotDownloadable.error = "source_not_downloadable"
        /\ \A s: DenyDrm(s).error \notin {"auth_required", "go_plus_required"}
    BY DEF DenyNotDownloadable, DenyDrm, Deny
  <1>2. None \notin {"auth_required", "go_plus_required"}
    BY DEF None
  <1>3. AllowDownloadable(c, p).error \notin {"auth_required", "go_plus_required"}
    BY <1>1, <1>2, GrantOrDenial DEF AllowDownloadable
  <1>4. DecideGoPlus(c, p).error \notin {"auth_required", "go_plus_required"}
    BY <1>2, <1>3, GrantOrDenial DEF DecideGoPlus
  <1> QED
    BY <1>1, <1>4, GrantOrDenial DEF Decide

-----------------------------------------------------------------------------
(* The state machine. *)

\* How an evaluation changes the context: the action it comes from opens one
\* right, or the mode, of an otherwise unchanged context.
Opens(b, c) ==
    /\ c.source # NoSource /\ b.source # NoSource
    /\ (c.mode = b.mode \/ (b.mode = "public" /\ c.mode = "go_plus" /\ c.authenticated
                             /\ c.hasGoPlus /\ c.offlineAllowed # "no"))
    /\ b.authenticated => c.authenticated
    /\ b.hasGoPlus => c.hasGoPlus
    /\ c.goPlusTrack => b.goPlusTrack
    /\ c.preview => b.preview
    /\ b.downloadable => c.downloadable
    /\ b.ownTrack => c.ownTrack
    /\ c.offlineAllowed = "no" => b.offlineAllowed = "no"
    /\ c.source.protocol = b.source.protocol /\ c.source.codec = b.source.codec
    /\ c.source.requiresAuth => b.source.requiresAuth
    /\ b.source.downloadable => c.source.downloadable
    /\ c.source.drm \in {b.source.drm, "none"}

LEMMA GrantIsMonotone ==
    ASSUME NEW b \in Contexts, NEW c \in Contexts, NEW p \in Requests,
           Opens(b, c), Decide(b, p).allowed
    PROVE  /\ Decide(c, p).allowed
           /\ p # None => Decide(c, p).profile = Decide(b, p).profile
  <1>1. /\ ~UnsafeDrm(c.source) /\ ~c.preview
        /\ Decide(c, p) = IF c.mode = "public" THEN DecidePublic(c, p) ELSE DecideGoPlus(c, p)
    BY GrantNeeds DEF Opens, UnsafeDrm, Decide
  <1>2. HasDownloadableSource(b) => HasDownloadableSource(c)
    BY DEF Opens, HasDownloadableSource
  <1>3. SupportsRemux(b.source) => SupportsRemux(c.source)
    BY DEF Opens, SupportsRemux
  <1>4. p \in DownloadableProfiles /\ HasDownloadableSource(c) => AllowDownloadable(c, p) = Allow(p)
    BY DEF AllowDownloadable
  <1>5. CASE b.mode = "public" /\ c.mode = "public"
    <2>1. DecidePublic(b, p).allowed /\ Decide(b, p) = DecidePublic(b, p)
      BY <1>5, GrantNeeds
    <2>2. ~c.goPlusTrack /\ ~c.source.requiresAuth /\ p # "aac_m4a" /\ HasDownloadableSource(c)
      BY <1>2, <2>1, PublicGrant DEF Opens
    <2>3. DecidePublic(c, p) = Allow(IF p = None THEN "original" ELSE p)
      BY <1>4, <2>2 DEF DecidePublic, Requests, Profiles, DownloadableProfiles, None
    <2> QED
      BY <1>1, <1>5, <2>1, <2>3, PublicGrant, GrantOrDenial
  <1>6. CASE c.mode = "go_plus"
    <2>1. c.authenticated /\ (c.goPlusTrack => c.hasGoPlus) /\ c.offlineAllowed # "no"
      <3>1. CASE b.mode = "public"
        BY <1>6, <3>1 DEF Opens
      <3>2. CASE b.mode = "go_plus"
        <4>1. DecideGoPlus(b, p).allowed
          BY <3>2, GrantNeeds
        <4> QED
          BY <4>1, GoPlusGrant DEF Opens
      <3> QED
        BY <3>1, <3>2 DEF Contexts
    <2>2. CASE p \in DownloadableProfiles
      <3>1. HasDownloadableSource(b) /\ Decide(b, p) = Allow(p)
        <4>1. CASE b.mode = "public"
          BY <2>2, <4>1, GrantNeeds, PublicGrant DEF DownloadableProfiles, None
        <4>2. CASE b.mode # "public"
          BY <2>2, <4>2, GrantNeeds, GoPlusGrant DEF DownloadableProfiles, None
        <4> QED
          BY <4>1, <4>2
      <3>2. Decide(c, p) = Allow(p)
        BY <1>1, <1>2, <1>4, <1>6, <2>1, <2>2, <3>1 DEF DecideGoPlus
      <3> QED
        BY <3>1, <3>2, GrantOrDenial
    <2>3. CASE p = "aac_m4a"
      <3>1. b.mode # "public" /\ DecideGoPlus(b, p).allowed /\ Decide(b, p) = DecideGoPlus(b, p)
        BY <2>3, GrantNeeds, PublicGrant
      <3>2. SupportsRemux(b.source) /\ Decide(b, p) = Allow("aac_m4a")
        BY <2>3, <3>1, GoPlusGrant DEF DownloadableProfiles, None
      <3>3. Decide(c, p) = Allow("aac_m4a")
        BY <1>1, <1>3, <1>6, <2>1, <2>3, <3>2 DEF DecideGoPlus, DownloadableProfiles
      <3> QED
        BY <3>2, <3>3, GrantOrDenial
    <2>4. CASE p = None
      <3>1. SupportsRemux(b.source) \/ HasDownloadableSource(b)
        BY <2>4, GrantNeeds, PublicGrant, GoPlusGrant
      <3>2. DecideGoPlus(c, p).allowed
        BY <1>2, <1>3, <2>1, <2>4, <3>1, GrantOrDenial
        DEF DecideGoPlus, DownloadableProfiles, None
      <3> QED
        BY <1>1, <1>6, <2>4, <3>2
    <2> QED
      BY <2>2, <2>3, <2>4 DEF Requests, Profiles, DownloadableProfiles
  <1> QED
    BY <1>5, <1>6 DEF Opens, Contexts

\* Every action opens something and has the engine decide again.
LEMMA StepOpens ==
    ASSUME PolicyInv, Next
    PROVE  /\ context' \in Contexts /\ requested' = requested
           /\ decision' = Decide(context', requested)
           /\ context.source # NoSource => Opens(context, context')
  <1> USE DEF PolicyInv, Evaluate
  <1>1. CASE SignIn
    BY <1>1 DEF SignIn, Contexts, Opens
  <1>2. CASE Subscribe
    BY <1>2 DEF Subscribe, Contexts, Opens
  <1>3. CASE LeaveGoPlusCatalogue
    BY <1>3 DEF LeaveGoPlusCatalogue, Contexts, Opens
  <1>4. CASE ReleaseFull
    BY <1>4 DEF ReleaseFull, Contexts, Opens
  <1>5. CASE OfferDownload
    BY <1>5 DEF OfferDownload, Contexts, Opens
  <1>6. CASE BecomeOwner
    BY <1>6 DEF BecomeOwner, Contexts, Opens
  <1>7. CASE AllowOffline
    BY <1>7 DEF AllowOffline, Contexts, Opens
  <1>8. CASE OpenSource
    <2>1. context.source \in Sources
      BY <1>8 DEF OpenSource, Contexts
    <2>2. PICK s \in Sources:
             /\ s \in {[context.source EXCEPT !.requiresAuth = FALSE],
                       [context.source EXCEPT !.downloadable = TRUE],
                       [context.source EXCEPT !.drm = "none"]}
             /\ Evaluate([context EXCEPT !.source = s])
      <3>1. [context.source EXCEPT !.requiresAuth = FALSE] \in Sources
        BY <2>1 DEF Sources
      <3>2. [context.source EXCEPT !.downloadable = TRUE] \in Sources
        BY <2>1 DEF Sources
      <3>3. [context.source EXCEPT !.drm = "none"] \in Sources
        BY <2>1 DEF Sources
      <3> QED
        BY <1>8, <3>1, <3>2, <3>3 DEF OpenSource
    <2>3. s # NoSource
      BY <2>2 DEF Sources, NoSource, None, Other
    <2>4. /\ s.protocol = context.source.protocol /\ s.codec = context.source.codec
          /\ s.requiresAuth => context.source.requiresAuth
          /\ context.source.downloadable => s.downloadable
          /\ s.drm \in {context.source.drm, "none"}
      BY <2>1, <2>2 DEF Sources
    <2>5. context' = [context EXCEPT !.source = s] /\ context' \in Contexts
      BY <2>2 DEF Contexts
    <2> QED
      BY <2>2, <2>3, <2>4, <2>5 DEF Contexts, Opens
  <1>9. CASE SwitchToGoPlus
    BY <1>9 DEF SwitchToGoPlus, Contexts, Opens
  <1> QED
    BY <1>1, <1>2, <1>3, <1>4, <1>5, <1>6, <1>7, <1>8, <1>9 DEF Next

\* The decision is always that of the context and the request there are.
THEOREM PolicyInvariant == Spec => []PolicyInv
  <1>1. Init => PolicyInv
    BY DEF Init, PolicyInv, Requests
  <1>2. PolicyInv /\ [Next]_vars => PolicyInv'
    <2> SUFFICES ASSUME PolicyInv, [Next]_vars PROVE PolicyInv'
      OBVIOUS
    <2>1. CASE Next
      BY <2>1, StepOpens DEF PolicyInv
    <2>2. CASE UNCHANGED vars
      BY <2>2 DEF vars, PolicyInv
    <2> QED
      BY <2>1, <2>2
  <1> QED
    BY <1>1, <1>2, PTL DEF Spec

\* Type correctness: every decision is one that PolicyDecision accepts, an
\* output profile exactly with a grant, an error code exactly with a denial.
THEOREM PolicyTypeCorrect == Spec => []TypeOK
  <1>1. PolicyInv => TypeOK
    BY DecisionTyped DEF PolicyInv, TypeOK, Requests
  <1> QED
    BY <1>1, PolicyInvariant, PTL

\* Nothing is granted past DRM, a preview, a missing source, a login, Go+ or
\* the offline rights.
THEOREM PolicyFailsClosed == Spec => []FailClosed
  <1>1. PolicyInv => FailClosed
    <2> SUFFICES ASSUME PolicyInv, decision.allowed
                 PROVE  /\ context.source # NoSource
                        /\ context.source.drm = "none"
                        /\ ~context.preview
                        /\ context.goPlusTrack => context.mode = "go_plus" /\ context.hasGoPlus
                        /\ context.mode = "go_plus" =>
                              context.authenticated /\ context.offlineAllowed # "no"
      BY DEF FailClosed
    <2>1. context.source # NoSource /\ context.source.drm = "none" /\ ~context.preview
      BY GrantNeeds DEF PolicyInv, UnsafeDrm
    <2>2. CASE context.mode = "public"
      BY <2>1, <2>2, GrantNeeds, PublicGrant DEF PolicyInv
    <2>3. CASE context.mode = "go_plus"
      BY <2>1, <2>3, GrantNeeds, GoPlusGrant DEF PolicyInv
    <2> QED
      BY <2>2, <2>3 DEF PolicyInv, Contexts
  <1> QED
    BY <1>1, PolicyInvariant, PTL

\* What is granted is what was asked for, from a source that can give it.
THEOREM PolicyHonoursProfile == Spec => []ProfileHonoured
  <1>1. PolicyInv => ProfileHonoured
    <2> SUFFICES ASSUME PolicyInv, decision.allowed
                 PROVE  /\ requested # None => decision.profile = requested
                        /\ decision.profile = "aac_m4a" => SupportsRemux(context.source)
                        /\ decision.profile # "aac_m4a" => HasDownloadableSource(context)
      BY DEF ProfileHonoured, HasDownloadableSource
    <2>1. context \in Contexts /\ requested \in Requests /\ Decide(context, requested).allowed
          /\ decision = Decide(context, requested)
      BY DEF PolicyInv
    <2>2. CASE context.mode = "public"
      <3>1. /\ requested # "aac_m4a" /\ HasDownloadableSource(context)
            /\ decision = Allow(IF requested = None THEN "original" ELSE requested)
        BY <2>1, <2>2, GrantNeeds, PublicGrant
      <3> QED
        BY <3>1, GrantOrDenial
    <2>3. CASE context.mode # "public"
      <3>1. \/ /\ requested \in DownloadableProfiles /\ HasDownloadableSource(context)
               /\ decision = Allow(requested)
            \/ /\ requested \notin DownloadableProfiles /\ SupportsRemux(context.source)
               /\ decision = Allow("aac_m4a")
            \/ /\ requested = None /\ HasDownloadableSource(context)
               /\ decision = Allow("original")
        BY <2>1, <2>3, GrantNeeds, GoPlusGrant
      <3> QED
        BY <2>1, <3>1, GrantOrDenial DEF Requests, Profiles, DownloadableProfiles
    <2> QED
      BY <2>2, <2>3
  <1> QED
    BY <1>1, PolicyInvariant, PTL

\* A user who is told to sign in, or to get Go+, is not told so again.
THEOREM PolicyErrorNamesRemedy == Spec => []ErrorNamesRemedy
  <1>1. PolicyInv => ErrorNamesRemedy
    <2> SUFFICES ASSUME PolicyInv PROVE ErrorNamesRemedy
      OBVIOUS
    <2> DEFINE entitled == [context EXCEPT !.mode = "go_plus", !.authenticated = TRUE,
                                           !.hasGoPlus = TRUE]
    <2>1. /\ entitled \in Contexts /\ entitled.mode = "go_plus"
          /\ entitled.authenticated /\ entitled.hasGoPlus
      BY DEF PolicyInv, Contexts
    <2> HIDE DEF entitled
    <2>2. Decide(entitled, requested).error \notin {"auth_required", "go_plus_required"}
      BY <2>1, DeniedForLogin DEF PolicyInv
    <2> QED
      BY <2>2 DEF ErrorNamesRemedy, entitled
  <1> QED
    BY <1>1, PolicyInvariant, PTL

\* No right that is gained, and no change to Go+ mode by a user entitled to
\* it, takes a grant back or alters the profile that was named.
THEOREM PolicyRightsMonotone == Spec => RightsMonotone
  <1>1. PolicyInv /\ [Next]_vars =>
            [decision.allowed => /\ decision'.allowed
                                 /\ requested # None => decision'.profile = decision.profile]_vars
    <2> SUFFICES ASSUME PolicyInv, Next, decision.allowed
                 PROVE  /\ decision'.allowed
                        /\ requested # None => decision'.profile = decision.profile
      OBVIOUS
    <2>1. context.source # NoSource
      BY GrantNeeds DEF PolicyInv
    <2> QED
      BY <2>1, StepOpens, GrantIsMonotone DEF PolicyInv
  <1> QED
    BY <1>1, PolicyInvariant, PTL DEF Spec, RightsMonotone
=============================================================================
