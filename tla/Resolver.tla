------------------------------ MODULE Resolver ------------------------------
(***************************************************************************)
(* What `resolver inspect` makes of its argument: ResolverInputNormalizer  *)
(* classifies it, OfficialSoundCloudResolver or SoundCloudHttpResolver ask *)
(* a service, SoundCloudResponseMapper turns the answer into a resource    *)
(* and the command reports it.  All of it is a function of the input and   *)
(* the answer; Commands supplies the settings and the tokens.              *)
(*                                                                         *)
(* A URL is reduced to its host and to what the classification tells apart *)
(* in the parts of its path, a payload to the form it has and to whether a *)
(* field is forbidden or malformed.                                        *)
(***************************************************************************)
EXTENDS Naturals, Sequences

CONSTANT None    \* no payload

MaxParts == 4    \* bound: a path of four parts has "extra" parts already

Parts == {"sets", "reserved", "other"}
Paths == UNION {[1..n -> Parts]: n \in 0..MaxParts}

\* "none" stands for text that is not a URL.
Inputs ==
    {in \in [host: {"soundcloud", "shortlink", "foreign", "none"}, path: Paths]:
        in.host = "none" => in.path = <<>>}

\* A top-level "status" makes the payload one of the external resolver.
Payloads ==
    [status: {"absent", "resolved", "needs_network", "unsupported", "not_found", "error", "bad"},
     kind: {"track", "playlist", "user", "profile", "shortlink", "unknown", "other"},
     summary: BOOLEAN,          \* the mapping named like the kind is there
     forbidden: {"no", "top_level", "nested", "stream_url"},
     malformed: BOOLEAN]        \* a field that is read has a wrong type or value

\* How a request can fail; "unreachable" stands for what the client gives up on.
Failures == {"unreachable", "not_found", "unauthorized", "rate_limited", "other_status",
             "invalid_json", "no_object"}

Answers ==
    [failure: Failures, payload: {None}] \cup [failure: {"none"}, payload: Payloads]

-----------------------------------------------------------------------------
\* _classify.
TypeOf(in) ==
    LET routed == in.host = "soundcloud" /\ in.path # <<>> /\ in.path[1] # "reserved"
    IN  CASE in.host = "shortlink" /\ in.path # <<>> -> "shortlink"
          [] routed /\ Len(in.path) = 1 -> "user"
          [] routed /\ Len(in.path) = 2 -> "track"
          [] routed /\ Len(in.path) >= 3 /\ in.path[2] = "sets" -> "playlist"
          [] OTHER -> "unknown"

HasUrl(in) == in.host # "none"

\* What `resolver inspect --offline` reports as requires_network_resolution.
NeedsNetwork(in) == TypeOf(in) \in {"shortlink", "track", "playlist", "user"}

-----------------------------------------------------------------------------
Error == [status |-> "error", kind |-> "unknown"]

Resolved(kind) == [status |-> "resolved", kind |-> kind]

\* _forbidden_key_path: at any depth, but for a stream_url on the top level.
Forbidden(payload) == payload.forbidden \in {"top_level", "nested"}

\* _official_resource: the payload itself is the track, playlist or user.
OfficialForm(payload) ==
    IF payload.malformed \/ payload.kind \notin {"track", "playlist", "user", "profile"} THEN Error
    ELSE Resolved(IF payload.kind = "profile" THEN "user" ELSE payload.kind)

\* map_resolved_resource for a payload that names its status.
ExternalForm(payload) ==
    LET bad == payload.status = "bad" \/ payload.kind \in {"profile", "other"}
        unnamed == payload.kind \in {"track", "playlist", "user"} /\ ~payload.summary
    IN  IF bad \/ payload.malformed \/ (payload.status = "resolved" /\ unnamed) THEN Error
        ELSE [status |-> payload.status, kind |-> payload.kind]

\* map_resolved_resource.
Mapped(payload) ==
    IF Forbidden(payload) THEN Error
    ELSE IF payload.status = "absent" THEN OfficialForm(payload) ELSE ExternalForm(payload)

\* An answer is a failure of the request or the payload of a 2xx.
Read(answer) ==
    IF answer.failure = "not_found" THEN [status |-> "not_found", kind |-> "unknown"]
    ELSE IF answer.failure # "none" THEN Error
    ELSE Mapped(answer.payload)

\* _fetch_payload: what is not a location on SoundCloud is not asked for, and
\* no token is fetched for it.
Asks(in) == HasUrl(in) /\ TypeOf(in) # "unknown"

Official(in, answer) ==
    IF Asks(in) THEN Read(answer) ELSE [status |-> "unsupported", kind |-> "unknown"]

\* SoundCloudHttpResolver.resolve.
External(in, answer) ==
    IF TypeOf(in) = "unknown" THEN [status |-> "unsupported", kind |-> "unknown"]
    ELSE Read(answer)

\* _exit_official_failure: the reason on the last line, if it is a failure.
\* Every error counts as an invalid payload, a refused token included.
Reported(resource) ==
    CASE resource.status = "resolved" -> "resolved"
      [] resource.status = "error" -> "payload_invalid"
      [] OTHER -> "unknown_reason"
=============================================================================
