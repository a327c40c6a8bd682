---------------------------- MODULE HlsPlaylist ----------------------------
(***************************************************************************)
(* From the manifest URL of a track to its list of segments.  The manifest *)
(* is fetched and analysed; of a master playlist the best variant is       *)
(* fetched instead, once.  The media playlist is then parsed a second      *)
(* time, by the segment planner, which shares no code with the analyzer.   *)
(*                                                                         *)
(* A playlist is reduced to the lines the two parsers react to.  body is   *)
(* the sequence of the lines whose order counts, marks the set of the kinds *)
(* of lines that only count by being there.  The peer serves any playlist. *)
(***************************************************************************)
EXTENDS Integers, Sequences, FiniteSets

CONSTANT
    MaxLines     \* the lines of the longest playlist the peer serves

ASSUME PlaylistAssumption == MaxLines \in Nat

VARIABLES
    pc,          \* the step of the analysis
    target,      \* the kind of URL to fetch: "uri" or "foreign_uri"
    nested,      \* whether the URL comes out of a master playlist
    text,        \* manifest_text
    line,        \* the lines of text that the running loop has read
    scan,        \* what that loop has collected
    outcome      \* "planned", the reason of the failure, or None

vars == <<pc, target, nested, text, line, scan, outcome>>

-----------------------------------------------------------------------------
None == "none"

\* A safe URL on an allowed media host, one on another host, and one that is
\* no HTTP URL or carries credentials.
Uris == {"uri", "foreign_uri", "unsafe_uri"}

\* #EXT-X-STREAM-INF without a usable BANDWIDTH counts as bandwidth 0.
StreamInfs == {"stream_inf", "stream_inf_high"}

Lines == Uris \cup StreamInfs \cup {"extinf", "byterange"}

\* The key tags the analyzer tells apart, and one that only the planner sees:
\* a tag in lower case, or KEYFORMAT or SAMPLE-AES in another line.
VisibleKeys == {"key_none", "key_encrypted", "key_unclear", "key_eme"}
KeyMarks == VisibleKeys \cup {"key_hidden"}

\* bad_value is a #EXT-X-TARGETDURATION that does not parse, and stands for
\* every number the planner's parsers refuse.  headerless says
\* that #EXTM3U stands within another line and on none of its own, which is
\* all the manifest service asks for.
Marks == KeyMarks \cup {"media_sequence", "target_duration", "bad_value", "map", "headerless"}

Playlists ==
    UNION {[marks: {m \in SUBSET Marks: Cardinality(m) <= MaxLines - n},
            body: [1..n -> Lines]]: n \in 0..MaxLines}

NoText == [marks |-> {}, body |-> <<>>]

Has(t, kinds) == \E i \in DOMAIN t.body: t.body[i] \in kinds

-----------------------------------------------------------------------------
\* HLSManifestAnalyzer.
IsHls(t) == "headerless" \notin t.marks
IsMaster(t) == Has(t, StreamInfs)
IsMedia(t) == ~IsMaster(t) /\ ("media_sequence" \in t.marks \/ Has(t, Uris))

UriLines(t) == {i \in DOMAIN t.body: t.body[i] \in Uris}
SegmentCount(t) == IF IsMaster(t) THEN 0 ELSE Cardinality(UriLines(t))

\* Mutant: an encrypted key counts only if no METHOD=NONE is mixed with it.
MutDrmStatusMixed(t) ==
    IF "key_eme" \in t.marks THEN "eme_drm"
    ELSE IF "key_unclear" \in t.marks THEN "unknown"
    ELSE IF "key_encrypted" \in t.marks /\ "key_none" \notin t.marks THEN "encrypted_hls"
    ELSE None

DrmStatus(t) ==
    IF "key_eme" \in t.marks THEN "eme_drm"
    ELSE IF "key_unclear" \in t.marks THEN "unknown"
    ELSE IF "key_encrypted" \in t.marks THEN "encrypted_hls"
    ELSE None

LooksEmpty(t) == {"target_duration", "bad_value", "media_sequence"} \cap t.marks # {}
                    \/ Has(t, {"extinf"})

\* The first of its checks that a playlist fails, or None.
Rejection(t, allowMaster) ==
    IF IsHls(t) /\ ~IsMaster(t) /\ ~IsMedia(t) /\ LooksEmpty(t) THEN "no_segments"
    ELSE IF ~IsHls(t) \/ (~IsMaster(t) /\ ~IsMedia(t)) THEN "parse_failed"
    ELSE IF IsMedia(t) /\ "map" \in t.marks THEN "fmp4_unsupported"
    ELSE IF IsMaster(t) /\ ~allowMaster THEN "master_unsupported"
    ELSE IF DrmStatus(t) # None THEN "encrypted"
    ELSE IF IsMedia(t) /\ SegmentCount(t) = 0 THEN "no_segments"
    ELSE None

-----------------------------------------------------------------------------
\* The loop over a master playlist collects the variants, each with the line
\* it stands on; pending is the STREAM-INF line not yet followed by a URI.
NoScan == [line |-> 0]

StartVariants == [found |-> <<>>, pending |-> None]

VariantLine(s, i) ==
    LET l == text.body[i] IN
    IF l \in StreamInfs THEN [s EXCEPT !.pending = l]
    ELSE IF l \notin Uris \/ s.pending = None THEN s
    ELSE [found |-> Append(s.found, [line |-> i, high |-> s.pending = "stream_inf_high"]),
          pending |-> None]

\* Mutant: the last variant, whatever its bandwidth.
MutBestVariantLast(found) == found[Len(found)].line

\* The line of the variant with the highest bandwidth, and of equals the last.
BestVariant(found) ==
    LET high == {i \in DOMAIN found: found[i].high}
        best == IF high = {} THEN DOMAIN found ELSE high
    IN  found[CHOOSE i \in best: \A j \in best: j <= i].line

-----------------------------------------------------------------------------
\* HLSSegmentPlanner.  A duration and a byte range are named by the line they
\* stand on; 0 is none.
StartSegments == [segments |-> <<>>, extinf |-> 0, range |-> 0]

\* Mutant: the byte range is kept for the segments that follow.
MutSegmentKeepsRange(s, i) ==
    [s EXCEPT !.segments = Append(@, [uri |-> i, extinf |-> s.extinf, range |-> s.range]),
              !.extinf = 0]

Segment(s, i) ==
    [segments |-> Append(s.segments, [uri |-> i, extinf |-> s.extinf, range |-> s.range]),
     extinf |-> 0, range |-> 0]

SegmentLine(s, i) ==
    LET l == text.body[i] IN
    IF l = "byterange" THEN [s EXCEPT !.range = i]
    ELSE IF l = "extinf" THEN [s EXCEPT !.extinf = i]
    ELSE IF l \in Uris THEN Segment(s, i)
    ELSE s

\* Mutant: a URI without EXTINF becomes a segment.
MutMalformedLineBareUri(s, i) ==
    (text.body[i] = "extinf" /\ s.extinf # 0) \/ text.body[i] = "unsafe_uri"

\* An EXTINF while one is pending, a URI without one or one that is unsafe.
MalformedLine(s, i) ==
    LET l == text.body[i] IN
    \/ l = "extinf" /\ s.extinf # 0
    \/ l \in Uris /\ s.extinf = 0
    \/ l = "unsafe_uri"

\* Mutant: key tags are looked for as the analyzer looks for them.
MutSupportedCaseSensitive(t) == ~Has(t, StreamInfs) /\ VisibleKeys \cap t.marks = {}

Supported(t) == ~Has(t, StreamInfs) /\ KeyMarks \cap t.marks = {}

Unparsable(t) == "bad_value" \in t.marks

-----------------------------------------------------------------------------
Init ==
    /\ pc = "fetch"
    /\ target \in {"uri", "foreign_uri"}
    /\ nested = FALSE
    /\ text = NoText
    /\ line = 0
    /\ scan = NoScan
    /\ outcome = None

\* The analysis or the planning ends with a failure.
Fail(reason) ==
    /\ pc' = "done"
    /\ outcome' = reason
    /\ line' = 0
    /\ scan' = NoScan

\* The host of the manifest is not an allowed media host.
RefuseHost ==
    /\ pc = "fetch" /\ target = "foreign_uri"
    /\ Fail("fetch_failed")
    /\ UNCHANGED <<target, nested, text>>

\* The peer adds a line to its answer, those whose order does not count first.
Serve ==
    /\ pc = "fetch" /\ target = "uri"
    /\ Len(text.body) + Cardinality(text.marks) < MaxLines
    /\ \/ \E l \in Lines: text' = [text EXCEPT !.body = Append(@, l)]
       \/ text.body = <<>> /\ \E m \in Marks \ text.marks:
                                 text' = [text EXCEPT !.marks = @ \cup {m}]
    /\ UNCHANGED <<pc, target, nested, line, scan, outcome>>

\* The request fails, or the answer is empty or does not contain #EXTM3U.
FetchFails ==
    /\ pc = "fetch" /\ target = "uri"
    /\ \E reason \in {"fetch_failed", "parse_failed"}: Fail(reason)
    /\ text' = NoText
    /\ UNCHANGED <<target, nested>>

\* Mutant: a variant may be a master playlist in its turn.
MutFetchNests ==
    /\ pc = "fetch" /\ target = "uri"
    /\ pc' = "select"
    /\ UNCHANGED <<target, nested, text, line, scan, outcome>>

Fetch ==
    /\ pc = "fetch" /\ target = "uri"
    /\ pc' = IF nested THEN "analyze" ELSE "select"
    /\ UNCHANGED <<target, nested, text, line, scan, outcome>>

\* _select_media_playlist.
RejectFirst ==
    /\ pc = "select" /\ Rejection(text, TRUE) # None
    /\ Fail(Rejection(text, TRUE))
    /\ UNCHANGED <<target, nested, text>>

Select ==
    /\ pc = "select" /\ Rejection(text, TRUE) = None
    /\ IF IsMaster(text) THEN pc' = "variants" /\ scan' = StartVariants
                         ELSE pc' = "analyze" /\ UNCHANGED scan
    /\ UNCHANGED <<target, nested, text, line, outcome>>

ReadVariants ==
    /\ pc = "variants" /\ line < Len(text.body)
    /\ line' = line + 1
    /\ scan' = VariantLine(scan, line + 1)
    /\ UNCHANGED <<pc, target, nested, text, outcome>>

SelectVariant ==
    /\ pc = "variants" /\ line = Len(text.body) /\ scan.found # <<>>
    /\ target' = text.body[BestVariant(scan.found)]
    /\ target' # "unsafe_uri"
    /\ nested' = TRUE
    /\ text' = NoText
    /\ line' = 0
    /\ scan' = NoScan
    /\ pc' = "fetch"
    /\ UNCHANGED outcome

NoVariant ==
    /\ pc = "variants" /\ line = Len(text.body)
    /\ IF scan.found = <<>> THEN Fail("no_variants")
       ELSE text.body[BestVariant(scan.found)] = "unsafe_uri" /\ Fail("parse_failed")
    /\ UNCHANGED <<target, nested, text>>

\* analyze, after the media playlist is settled.
RejectMedia ==
    /\ pc = "analyze" /\ Rejection(text, FALSE) # None
    /\ Fail(Rejection(text, FALSE))
    /\ UNCHANGED <<target, nested, text>>

\* The policy, which the playlist cannot influence any more, may still deny.
Accept ==
    /\ pc = "analyze" /\ Rejection(text, FALSE) = None
    /\ \/ pc' = "plan" /\ scan' = StartSegments /\ UNCHANGED <<line, outcome>>
       \/ Fail("policy_denied")
    /\ UNCHANGED <<target, nested, text>>

\* build_plan: the checks before its loop, the loop, and those after it.  A
\* value that does not parse raises in the loop, wherever its line stands.
ReadSegments ==
    /\ pc = "plan" /\ Supported(text) /\ ~Unparsable(text)
    /\ line < Len(text.body) /\ ~MalformedLine(scan, line + 1)
    /\ line' = line + 1
    /\ scan' = SegmentLine(scan, line + 1)
    /\ UNCHANGED <<pc, target, nested, text, outcome>>

Plan ==
    /\ pc = "plan" /\ Supported(text) /\ ~Unparsable(text)
    /\ line = Len(text.body) /\ scan.extinf = 0 /\ scan.segments # <<>>
    /\ pc' = "done"
    /\ outcome' = "planned"
    /\ UNCHANGED <<target, nested, text, line, scan>>

PlanFails ==
    /\ pc = "plan"
    /\ \/ ~Supported(text) \/ Unparsable(text)
       \/ line < Len(text.body) /\ MalformedLine(scan, line + 1)
       \/ line = Len(text.body) /\ (scan.extinf # 0 \/ scan.segments = <<>>)
    /\ Fail("planning_failed")
    /\ UNCHANGED <<target, nested, text>>

Done == pc = "done" /\ UNCHANGED vars

Step ==
    \/ RefuseHost
    \/ Serve
    \/ FetchFails
    \/ Fetch
    \/ RejectFirst
    \/ Select
    \/ ReadVariants
    \/ SelectVariant
    \/ NoVariant
    \/ RejectMedia
    \/ Accept
    \/ ReadSegments
    \/ Plan
    \/ PlanFails

Next == Step \/ Done

\* Every request times out and the rest is computation.
Spec == Init /\ [][Next]_vars /\ WF_vars(Step)

-----------------------------------------------------------------------------
\* What the two loops can have collected by line n.
Variants(n) == [line: 1..n, high: BOOLEAN]
VariantScans(n) == [found: Seq(Variants(n)), pending: {None} \cup StreamInfs]
Segments(n) == [uri: 1..n, extinf: 1..n, range: 0..n]
SegmentScans(n) == [segments: Seq(Segments(n)), extinf: 0..n, range: 0..n]

\* The stages, targets, playlists, plans and outcomes of HLSAnalysisFailureReason.
TypeOK ==
    /\ pc \in {"fetch", "select", "variants", "analyze", "plan", "done"}
    /\ target \in {"uri", "foreign_uri"}
    /\ nested \in BOOLEAN
    /\ text \in Playlists
    /\ line \in 0..Len(text.body)
    /\ scan \in {NoScan} \cup VariantScans(line) \cup SegmentScans(line)
    /\ outcome \in {None, "planned", "policy_denied", "fetch_failed", "parse_failed",
                    "no_variants", "no_segments", "fmp4_unsupported", "master_unsupported",
                    "encrypted", "planning_failed"}

\* What the two parsers let through together carries no key line in any
\* spelling, not even METHOD=NONE, no init map and no variant: segments are
\* only fetched and joined when they are clear MPEG-TS or packed audio.
PlannedIsClear ==
    outcome = "planned" =>
        /\ (KeyMarks \cup {"map", "headerless"}) \cap text.marks = {}
        /\ ~Has(text, StreamInfs)

\* Lines between the URI line before line i and line i that are of a kind.
Since(t, i, kind) ==
    {j \in 1..(i - 1): t.body[j] = kind /\ \A k \in j..(i - 1): t.body[k] \notin Uris}

\* range is the last of the lines of a set, or 0 if there is none.
LastOf(lines, range) ==
    IF lines = {} THEN range = 0 ELSE range \in lines /\ \A j \in lines: j <= range

\* The segments are the URI lines up to line i, in their order; each has the
\* one EXTINF since the URI before it, and the last BYTERANGE since then.
ListsSegments(segments, t, i) ==
    /\ {segments[n].uri: n \in DOMAIN segments} = UriLines(t) \cap 1..i
    /\ \A m, n \in DOMAIN segments: m < n => segments[m].uri < segments[n].uri
    /\ \A n \in DOMAIN segments:
          /\ Since(t, segments[n].uri, "extinf") = {segments[n].extinf}
          /\ LastOf(Since(t, segments[n].uri, "byterange"), segments[n].range)

\* The plan lists exactly the URI lines, as many as the analyzer counted,
\* and no duration or byte range is lost, repeated or given to another one.
PlanFaithful ==
    outcome = "planned" =>
        /\ Len(scan.segments) = SegmentCount(text)
        /\ ListsSegments(scan.segments, text, Len(text.body))

\* A media playlist whose segments are encrypted, or may be, fails as
\* encrypted whatever else is wrong with it (an init map apart), and never as
\* a broken manifest or for want of a plan.
EncryptionReported ==
    (/\ pc = "done"
     /\ IsHls(text) /\ IsMedia(text) /\ Has(text, Uris) /\ "map" \notin text.marks
     /\ {"key_encrypted", "key_eme", "key_unclear"} \cap text.marks # {})
        => outcome = "encrypted"

\* The variant that is fetched follows a STREAM-INF line of the highest
\* bandwidth that leads to a URI, and no later one does: of several
\* STREAM-INF lines before a URI the last one counts.
LastInf(t, i, kind) ==
    \E j \in Since(t, i, kind): \A k \in j..(i - 1): t.body[k] \in StreamInfs => t.body[k] = kind

Leads(t, kind) == {i \in UriLines(t): LastInf(t, i, kind)}

VariantBest ==
    [][(pc = "variants" /\ pc' = "fetch") =>
          LET high == Leads(text, "stream_inf_high")
              best == IF high = {} THEN Leads(text, "stream_inf") ELSE high
          IN  \E i \in best: target' = text.body[i] /\ \A j \in best: j <= i]_vars

\* The lines the peer has put into its answer, and those of it that the
\* running loop has not read.
Served == Len(text.body) + Cardinality(text.marks)
Unread == Len(text.body) - line

\* The steps left at most: what the loop and the peer still have before them,
\* and as many as may follow that.
StepsLeft ==
    CASE pc = "done" -> 0
      [] pc = "plan" -> 1 + Unread
      [] pc = "analyze" -> 2 + MaxLines
      [] pc = "fetch" /\ nested -> 3 + 2 * MaxLines - Served
      [] pc = "variants" -> 4 + 2 * MaxLines + Unread
      [] pc = "select" -> 5 + 3 * MaxLines
      [] pc = "fetch" /\ ~nested -> 6 + 4 * MaxLines - Served

\* A playlist never sends the analysis back to a step it has passed: a master
\* leads to one more manifest, whatever that is then, and each loop only reads
\* on.
AnalysisAdvances == [][StepsLeft' \in 0..(StepsLeft - 1)]_vars

\* Whatever playlists the peer serves, masters within masters included, the
\* analysis comes to an end.
AnalysisEnds == <>(pc = "done")

-----------------------------------------------------------------------------
(* The parts of the inductive invariant. *)

\* Nothing is left of an earlier loop, and nothing was served by a host that
\* is not asked.
FetchShape ==
    /\ pc \in {"fetch", "select", "analyze"} => line = 0 /\ scan = NoScan /\ outcome = None
    /\ pc = "fetch" /\ target = "foreign_uri" => text = NoText

KindOf(variant) == IF variant.high THEN "stream_inf_high" ELSE "stream_inf"

\* The variants found up to line n are the URI lines that a STREAM-INF leads
\* to, in their order, and pending is the one that leads to the next.
FindsVariants(s, t, n) ==
    /\ \A a, b \in DOMAIN s.found: a < b => s.found[a].line < s.found[b].line
    /\ \A a \in DOMAIN s.found: s.found[a].line \in Leads(t, KindOf(s.found[a]))
    /\ \A kind \in StreamInfs: \A i \in Leads(t, kind) \cap 1..n:
          \E a \in DOMAIN s.found: s.found[a].line = i
    /\ \A kind \in StreamInfs: s.pending = kind <=> LastInf(t, n + 1, kind)

VariantShape ==
    pc = "variants" =>
        /\ IsMaster(text)
        /\ scan \in VariantScans(line)
        /\ FindsVariants(scan, text, line)

\* The segments collected so far, and what is pending for the next.
SegmentShape ==
    pc = "plan" \/ outcome = "planned" =>
        /\ Rejection(text, FALSE) = None
        /\ scan \in SegmentScans(line)
        /\ ListsSegments(scan.segments, text, line)
        /\ Since(text, line + 1, "extinf") = IF scan.extinf = 0 THEN {} ELSE {scan.extinf}
        /\ LastOf(Since(text, line + 1, "byterange"), scan.range)

\* How the analysis can have ended.
OutcomeShape ==
    /\ outcome # None <=> pc = "done"
    /\ outcome = "planned" => Supported(text) /\ line = Len(text.body)

HlsInv ==
    /\ TypeOK
    /\ FetchShape
    /\ VariantShape
    /\ SegmentShape
    /\ OutcomeShape
    /\ EncryptionReported
=============================================================================
