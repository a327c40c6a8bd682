-------------------------- MODULE ArtifactPipeline --------------------------
(***************************************************************************)
(* The media half of `download track`: staging HLS segments, assembling    *)
(* them, remuxing to M4A and exporting to MP3 or WAV, over one artifact    *)
(* storage root.                                                           *)
(*                                                                         *)
(* Every run uses the same fixed paths below the root (segments/NNNNNN.bin,*)
(* assembled/media.bin, audio/final.<ext>) and takes no lock, so CLI       *)
(* processes that run at the same time write over each other's files, and  *)
(* a run finds what earlier, failed or killed runs left there.             *)
(*                                                                         *)
(* LocalArtifactStorage.write_bytes replaces a file atomically and leaves  *)
(* it alone when it fails.  A file is modelled by the segments its bytes   *)
(* come from; the checksum and size of an artifact identify those bytes.   *)
(* ffmpeg's output is a function of its input, or an error.  Its private   *)
(* workspace is left out: the only effect of its removal on the rest is    *)
(* that a run may fail after its file was written.                         *)
(***************************************************************************)
EXTENDS Naturals, Sequences

CONSTANTS
    Procs,     \* CLI processes
    Tracks,    \* tracks that can be downloaded
    Segs,      \* number of segments in the plan of each track
    Nobody     \* not a process

ASSUME PipelineAssumption ==
    /\ Segs \in [Tracks -> Nat \ {0}]
    /\ Tracks # {}
    /\ Nobody \notin Procs

VARIABLES
    seg,      \* segment files, by index
    media,    \* hls/assembled/media.bin
    final,    \* audio/final.<ext>, by format
    job,      \* what each process is doing
    report,   \* the result the last successful run of each process printed
    solo      \* history: the process whose run overlapped no other, if no
              \* other run has started since

vars == <<seg, media, final, job, report, solo>>

-----------------------------------------------------------------------------
Formats == {"m4a", "mp3", "wav"}

Piece(t, i) == <<t, i>>    \* the bytes of segment i of track t
Pieces == Tracks \X Nat

Prefix(t, n) == [i \in 1..n |-> Piece(t, i)]

\* What a file made from the whole track t consists of.
Rendering(t) == Prefix(t, Segs[t])
Renderings == {Rendering(t): t \in Tracks}

Missing == <<>>    \* no file; an empty one is refused like a missing one

Indexes == UNION {1..Segs[t]: t \in Tracks}

Steps == {"idle", "stage", "assemble", "join", "open", "convert", "close"}

Jobs ==
    [pc: Steps, track: Tracks, format: Formats,
     next: Indexes,                \* segment to stage, or to read back
     parts: Seq(Pieces),           \* assembled_parts
     goal: Formats,                \* the file being made from the input
     input: Seq(Pieces)]           \* bytes read by the remuxer or the exporter

NoJob ==
    [pc |-> "idle", track |-> CHOOSE t \in Tracks: TRUE, format |-> "m4a",
     next |-> 1, parts |-> <<>>, goal |-> "m4a", input |-> <<>>]

Reports == [done: BOOLEAN, track: Tracks, format: Formats, content: Seq(Pieces)]

NoReport == [done |-> FALSE, track |-> NoJob.track, format |-> "m4a", content |-> <<>>]

Goto(p, j) == job' = [job EXCEPT ![p] = j]

OthersIdle(p) == \A q \in Procs \ {p}: job[q].pc = "idle"

\* Mutant: one segment more than the plan has.
MutLastSegmentOffByOne(p) == job[p].next > Segs[job[p].track]

LastSegment(p) == job[p].next = Segs[job[p].track]

-----------------------------------------------------------------------------
Init ==
    /\ seg = [i \in Indexes |-> Missing]
    /\ media = Missing
    /\ final = [f \in Formats |-> Missing]
    /\ job = [p \in Procs |-> NoJob]
    /\ report = [p \in Procs |-> NoReport]
    /\ solo = Nobody

\* The workflow has a segment plan; the pipeline starts.
Start(p, t, f) ==
    /\ job[p].pc = "idle"
    /\ Goto(p, [NoJob EXCEPT !.pc = "stage", !.track = t, !.format = f])
    /\ report' = [report EXCEPT ![p] = NoReport]
    /\ solo' = IF OthersIdle(p) THEN p ELSE Nobody
    /\ UNCHANGED <<seg, media, final>>

\* HLSSegmentFetcher: one segment is fetched and written.
StageSegment(p) ==
    /\ job[p].pc = "stage"
    /\ seg' = [seg EXCEPT ![job[p].next] = Piece(job[p].track, job[p].next)]
    /\ Goto(p, IF LastSegment(p)
               THEN [job[p] EXCEPT !.pc = "assemble", !.next = 1]
               ELSE [job[p] EXCEPT !.next = @ + 1])
    /\ UNCHANGED <<media, final, report, solo>>

\* Mutant: the integrity check accepts any bytes that are there.
MutVerifiedPresent(p) == seg[job[p].next] # Missing

\* _verify_segment_integrity: the bytes read back have the size and the
\* checksum of the artifact this run staged.
Verified(p) == seg[job[p].next] = Piece(job[p].track, job[p].next)

\* Mutant: segments are staged again until they verify.
MutReadSegmentRestages(p) ==
    /\ job[p].pc = "assemble"
    /\ Goto(p, IF ~Verified(p) THEN [job[p] EXCEPT !.pc = "stage", !.next = 1, !.parts = <<>>]
               ELSE IF LastSegment(p)
               THEN [job[p] EXCEPT !.pc = "join", !.next = 1, !.parts = Append(@, seg[job[p].next])]
               ELSE [job[p] EXCEPT !.next = @ + 1, !.parts = Append(@, seg[job[p].next])])
    /\ UNCHANGED <<seg, media, final, report, solo>>

\* HLSMediaAssembler: one segment is read back and verified.
ReadSegment(p) ==
    /\ job[p].pc = "assemble"
    /\ Verified(p)
    /\ Goto(p, IF LastSegment(p)
               THEN [job[p] EXCEPT !.pc = "join", !.next = 1, !.parts = Append(@, seg[job[p].next])]
               ELSE [job[p] EXCEPT !.next = @ + 1, !.parts = Append(@, seg[job[p].next])])
    /\ UNCHANGED <<seg, media, final, report, solo>>

\* Mutant: an assembled file that is there already is used again.
MutAssembledReused(p) == IF media # Missing THEN media ELSE job[p].parts

Assembled(p) == job[p].parts

WriteMedia(p) ==
    /\ job[p].pc = "join"
    /\ media' = Assembled(p)
    /\ Goto(p, [job[p] EXCEPT !.pc = "open", !.goal = "m4a"])
    /\ UNCHANGED <<seg, final, report, solo>>

\* M4ARemuxer reads the assembled file, AudioExporter the M4A file, whatever
\* bytes the path holds by now: neither compares them with the artifact.
Source(p) == IF job[p].goal = "m4a" THEN media ELSE final["m4a"]

ReadInput(p) ==
    /\ job[p].pc = "open"
    /\ Source(p) # Missing
    /\ Goto(p, [job[p] EXCEPT !.pc = "convert", !.input = Source(p)])
    /\ UNCHANGED <<seg, media, final, report, solo>>

\* ffmpeg succeeded and its output is stored.
WriteOutput(p) ==
    /\ job[p].pc = "convert"
    /\ final' = [final EXCEPT ![job[p].goal] = job[p].input]
    /\ Goto(p, [job[p] EXCEPT !.pc = "close"])
    /\ UNCHANGED <<seg, media, report, solo>>

\* The workspace is removed; an MP3 or WAV is exported from the M4A file next.
NextConversion(p) ==
    /\ job[p].pc = "close"
    /\ job[p].goal # job[p].format
    /\ Goto(p, [job[p] EXCEPT !.pc = "open", !.goal = job[p].format, !.input = <<>>])
    /\ UNCHANGED <<seg, media, final, report, solo>>

\* The result carries the metadata of the file as this run wrote it.
Succeed(p) ==
    /\ job[p].pc = "close"
    /\ job[p].goal = job[p].format
    /\ report' = [report EXCEPT ![p] =
           [done |-> TRUE, track |-> job[p].track, format |-> job[p].format,
            content |-> job[p].input]]
    /\ Goto(p, NoJob)
    /\ UNCHANGED <<seg, media, final, solo>>

\* Mutant: a conversion removes the old output before it writes the new one.
MutFailUnlinksOutput(p) ==
    /\ job[p].pc # "idle"
    /\ Goto(p, NoJob)
    /\ final' = IF job[p].pc = "convert" THEN [final EXCEPT ![job[p].goal] = Missing] ELSE final
    /\ UNCHANGED <<seg, media, report, solo>>

\* A fetch, an integrity check, storage or ffmpeg fails, a workspace cannot
\* be created or, after the output was stored, removed.
Fail(p) ==
    /\ job[p].pc # "idle"
    /\ Goto(p, NoJob)
    /\ UNCHANGED <<seg, media, final, report, solo>>

\* The process is killed.  Temporary files stay behind, nobody reads them.
Crash(p) ==
    /\ job[p].pc # "idle"
    /\ Goto(p, NoJob)
    /\ UNCHANGED <<seg, media, final, report, solo>>

Proceed(p) ==
    \/ StageSegment(p)
    \/ ReadSegment(p)
    \/ WriteMedia(p)
    \/ ReadInput(p)
    \/ WriteOutput(p)
    \/ NextConversion(p)
    \/ Succeed(p)
    \/ Fail(p)

Next ==
    \E p \in Procs:
        \/ \E t \in Tracks, f \in Formats: Start(p, t, f)
        \/ Proceed(p)
        \/ Crash(p)

\* The calls of a running process return: HTTP and ffmpeg have timeouts and
\* no lock is taken.  Users need not start runs, processes need not crash.
Spec == Init /\ [][Next]_vars /\ \A p \in Procs: WF_vars(Proceed(p))

-----------------------------------------------------------------------------
TypeOK ==
    /\ seg \in [Indexes -> Pieces \cup {Missing}]
    /\ media \in Seq(Pieces)
    /\ final \in [Formats -> Seq(Pieces)]
    /\ job \in [Procs -> Jobs]
    /\ report \in [Procs -> Reports]
    /\ solo \in Procs \cup {Nobody}

\* However runs of several processes interleave, fail or are killed, the
\* assembled file and every audio file is the complete rendering of one
\* track: segments of two tracks are never joined, and none is left out.
NoMixedMedia ==
    /\ media \in {Missing} \cup Renderings
    /\ \A f \in Formats: final[f] \in {Missing} \cup Renderings

\* A run that overlapped no other reports a file that is its own track and
\* nothing else, and until another run starts this file is on disk: what
\* earlier, failed or killed runs of other tracks left in the shared paths
\* never gets into it.
SoloRunTruthful ==
    \A p \in Procs: solo = p /\ report[p].done =>
        /\ report[p].content = Rendering(report[p].track)
        /\ final[report[p].format] = report[p].content

\* The path a successful run printed can be read from then on, although
\* later runs replace the file, fail or are killed half-way.
ReportedStaysReadable ==
    \A p \in Procs: report[p].done => final[report[p].format] # Missing

\* The mapping to the abstract library: what a process has published and not
\* answered for, and the result it was answered with.
NoEntry == [some |-> FALSE]
EntryOf(f, bytes) == [some |-> TRUE, format |-> f, recording |-> bytes]

Published ==
    [p \in Procs |-> IF job[p].pc = "close" THEN EntryOf(job[p].goal, job[p].input)
                      ELSE NoEntry]
Reported ==
    [p \in Procs |-> IF report[p].done THEN EntryOf(report[p].format, report[p].content)
                      ELSE NoEntry]

Library == INSTANCE AudioLibrary WITH
    Clients <- Procs, Formats <- Formats, Recordings <- Renderings, NoFile <- Missing,
    file <- final, hand <- Published, told <- Reported

\* The pipeline is an audio library: seen from outside, a file of a format
\* appears or is replaced in one step and by one whole track, none is ever
\* taken away (not by a run that fails, is killed or starts over), and a
\* result names the format and the bytes this very run put there.
ImplementsLibrary == Library!LSpec

\* The mapping to the stages of a run: opening, converting and closing are
\* the remuxer's as long as the goal is the M4A file, then the exporter's.
StageName(p) ==
    CASE job[p].pc \in {"idle", "stage"} -> job[p].pc
      [] job[p].pc \in {"assemble", "join"} -> "assemble"
      [] OTHER -> IF job[p].goal = "m4a" THEN "remux" ELSE "export"

Stages ==
    [p \in Procs |-> [name |-> StageName(p),
                      format |-> IF job[p].pc = "idle" THEN "none" ELSE job[p].format]]

Got == [p \in Procs |-> IF report[p].done THEN report[p].format ELSE "none"]

Media == INSTANCE MediaRun WITH
    Runners <- Procs, Remuxed <- "m4a", Nothing <- "none", stage <- Stages, got <- Got

\* However runs interleave, each goes through the stages that the workflow
\* knows of, in their order, and what it reports is of the format it was asked
\* for: the remuxed file where that is M4A, else the exported one.
ImplementsMediaRun == Media!MSpec

\* The steps a run can still take, at most: its segments are staged and read
\* back once, then come one or two conversions.
StepsLeft(p) ==
    LET n == Segs[job[p].track]
        export == IF job[p].goal = job[p].format THEN 0 ELSE 3
    IN  [idle |-> 0, close |-> 1 + export, convert |-> 2 + export, open |-> 3 + export,
         join |-> 7, assemble |-> 8 + (n - job[p].next),
         stage |-> 8 + (n - job[p].next) + n][job[p].pc]

StepBudget(t) == 2 * Segs[t] + 7

\* Runs that overwrite each other's files can make each other fail and never
\* keep each other busy: whatever a run finds in the shared paths, each of
\* its steps brings it nearer to its end, and no step of another run sends it
\* back to fetch, assemble or convert again.
RunsAdvance ==
    [][\A p \in Procs: job'[p] # job[p] =>
          StepsLeft(p)' \in 0..(IF job[p].pc = "idle" THEN StepBudget(job'[p].track)
                                                    ELSE StepsLeft(p) - 1)]_vars

\* Every run ends, also while others keep overwriting the files it needs.
RunsEnd == \A p \in Procs: (job[p].pc # "idle") ~> (job[p].pc = "idle")

-----------------------------------------------------------------------------
(* The parts of the inductive invariant. *)

\* What a run has in hand at each of its steps.
RunShape ==
    \A p \in Procs:
        /\ job[p].pc \in {"stage", "assemble"} => job[p].next \in 1..Segs[job[p].track]
        /\ job[p].pc = "stage" => job[p].parts = <<>>
        /\ job[p].pc = "assemble" => job[p].parts = Prefix(job[p].track, job[p].next - 1)
        /\ job[p].pc = "join" => job[p].parts = Rendering(job[p].track)
        /\ job[p].pc \in {"convert", "close"} => job[p].input \in Renderings
        /\ job[p].pc = "close" => final[job[p].goal] # Missing
        /\ job[p].pc \in {"open", "convert", "close"} => job[p].goal \in {"m4a", job[p].format}
        /\ job[p].pc # "idle" => ~report[p].done

\* A run alone on the storage root finds what it wrote itself.
SoloShape ==
    \A p \in Procs: solo = p =>
        /\ OthersIdle(p)
        /\ job[p].pc = "open" => Source(p) = Rendering(job[p].track)
        /\ job[p].pc \in {"convert", "close"} => job[p].input = Rendering(job[p].track)
        /\ job[p].pc = "close" => final[job[p].goal] = job[p].input

PipelineInv ==
    /\ TypeOK
    /\ NoMixedMedia
    /\ RunShape
    /\ SoloShape
    /\ SoloRunTruthful
    /\ ReportedStaysReadable
=============================================================================
