----------------------- MODULE ArtifactPipeline_proofs -----------------------
(***************************************************************************)
(* PipelineInv of ArtifactPipeline is inductive, for any number of         *)
(* processes, tracks and segments.  Only the integrity check of the        *)
(* assembler is needed for NoMixedMedia: every later step copies a file    *)
(* that was one whole track when it was read.                              *)
(***************************************************************************)
EXTENDS ArtifactPipeline, TLAPS

\* The first n segments of a track are n pieces.
LEMMA PrefixType ==
    ASSUME NEW t \in Tracks, NEW n \in Nat
    PROVE  Prefix(t, n) \in Seq(Pieces) /\ Len(Prefix(t, n)) = n
<1>1. \A i \in 1..n: Piece(t, i) \in Pieces
    BY DEF Piece, Pieces
<1>2. Prefix(t, n) \in [1..n -> Pieces]
    BY <1>1 DEF Prefix
<1>3. QED
    BY <1>2

\* Appending the next segment extends the prefix.
LEMMA PrefixAppend ==
    ASSUME NEW t \in Tracks, NEW n \in Nat
    PROVE  Append(Prefix(t, n), Piece(t, n + 1)) = Prefix(t, n + 1)
<1> DEFINE s == Append(Prefix(t, n), Piece(t, n + 1))
<1>1. Piece(t, n + 1) \in Pieces /\ Prefix(t, n) \in Seq(Pieces) /\ Len(Prefix(t, n)) = n
    <2>1. Piece(t, n + 1) \in Pieces
        BY DEF Piece, Pieces
    <2>2. QED
        BY <2>1, PrefixType
<1>2. s \in Seq(Pieces) /\ Len(s) = n + 1
    BY <1>1
<1>3. \A i \in 1..(n + 1): s[i] = Piece(t, i)
    BY <1>1 DEF Prefix
<1>4. Prefix(t, n + 1) \in Seq(Pieces) /\ Len(Prefix(t, n + 1)) = n + 1
    BY PrefixType
<1>5. \A i \in 1..(n + 1): Prefix(t, n + 1)[i] = Piece(t, i)
    BY DEF Prefix
<1>6. QED
    BY <1>2, <1>3, <1>4, <1>5

\* A rendering is a sequence of pieces and not the missing file.
LEMMA RenderingType ==
    ASSUME NEW t \in Tracks
    PROVE  /\ Segs[t] \in Nat \ {0}
           /\ 1 \in 1..Segs[t]
           /\ Rendering(t) \in Seq(Pieces)
           /\ Rendering(t) # Missing
           /\ Rendering(t) \in Renderings
<1>1. Segs[t] \in Nat \ {0}
    BY PipelineAssumption
<1>2. Rendering(t) \in Seq(Pieces) /\ Len(Rendering(t)) = Segs[t]
    BY <1>1, PrefixType DEF Rendering
<1>3. QED
    BY <1>1, <1>2 DEF Missing, Renderings

LEMMA RenderingsAreFiles == Renderings \subseteq Seq(Pieces) /\ Missing \notin Renderings
BY RenderingType DEF Renderings

\* The job of a process that does nothing.
LEMMA NoJobType == NoJob \in Jobs /\ NoJob.pc = "idle" /\ NoReport \in Reports /\ ~NoReport.done
<1>1. PICK t \in Tracks: TRUE
    BY PipelineAssumption
<1>2. NoJob.track \in Tracks
    BY <1>1 DEF NoJob
<1>3. 1 \in Indexes /\ <<>> \in Seq(Pieces)
    BY <1>1, RenderingType DEF Indexes
<1>4. QED
    BY <1>2, <1>3 DEF NoJob, Jobs, Steps, Formats, NoReport, Reports

-----------------------------------------------------------------------------
LEMMA InitPipelineInv == Init => PipelineInv
<1> SUFFICES ASSUME Init PROVE PipelineInv
    OBVIOUS
<1>1. TypeOK
    BY NoJobType DEF Init, TypeOK, Missing
<1>2. NoMixedMedia
    BY DEF Init, NoMixedMedia
<1>3. RunShape /\ SoloShape
    BY NoJobType, PipelineAssumption DEF Init, RunShape, SoloShape
<1>4. SoloRunTruthful /\ ReportedStaysReadable
    BY NoJobType DEF Init, SoloRunTruthful, ReportedStaysReadable
<1>5. QED
    BY <1>1, <1>2, <1>3, <1>4 DEF PipelineInv

\* Ending a run without a result changes nothing but the job.
LEMMA EndKeepsInv ==
    ASSUME PipelineInv, NEW p \in Procs, Goto(p, NoJob),
           UNCHANGED <<seg, media, final, report, solo>>
    PROVE  PipelineInv'
<1>1. job' = [job EXCEPT ![p] = NoJob] /\ job'[p].pc = "idle"
    BY NoJobType DEF PipelineInv, TypeOK, Goto
<1>2. TypeOK'
    BY <1>1, NoJobType DEF PipelineInv, TypeOK
<1>3. RunShape'
    BY <1>1 DEF PipelineInv, TypeOK, RunShape
<1>4. SoloShape'
    BY <1>1 DEF PipelineInv, TypeOK, SoloShape, OthersIdle, Source
<1>5. QED
    BY <1>2, <1>3, <1>4 DEF PipelineInv, NoMixedMedia, SoloRunTruthful, ReportedStaysReadable

\* Starting a run keeps the invariant.
LEMMA StartKeepsInv ==
    ASSUME PipelineInv, NEW p \in Procs, NEW t \in Tracks, NEW f \in Formats, Start(p, t, f)
    PROVE  PipelineInv'
<1> DEFINE j == [NoJob EXCEPT !.pc = "stage", !.track = t, !.format = f]
<1>1. /\ job' = [job EXCEPT ![p] = j]
      /\ report' = [report EXCEPT ![p] = NoReport]
      /\ solo' = IF OthersIdle(p) THEN p ELSE Nobody
      /\ job[p].pc = "idle"
      /\ UNCHANGED <<seg, media, final>>
    BY DEF Start, Goto
<1>2. /\ j \in Jobs
      /\ j.pc = "stage" /\ j.track = t /\ j.next = 1 /\ j.parts = <<>>
    BY NoJobType DEF NoJob, Jobs, Steps
<1>3. job'[p] = j /\ \A q \in Procs \ {p}: job'[q] = job[q]
    BY <1>1 DEF PipelineInv, TypeOK
<1>4. report'[p] = NoReport /\ \A q \in Procs \ {p}: report'[q] = report[q]
    BY <1>1 DEF PipelineInv, TypeOK
<1>5. TypeOK'
    BY <1>1, <1>2, NoJobType DEF PipelineInv, TypeOK
<1>6. RunShape'
    BY <1>1, <1>2, <1>3, <1>4, NoJobType, RenderingType DEF PipelineInv, RunShape
<1>7. SoloShape'
    BY <1>1, <1>2, <1>3, PipelineAssumption DEF SoloShape, OthersIdle
<1>8. SoloRunTruthful' /\ ReportedStaysReadable'
    BY <1>1, <1>4, NoJobType, PipelineAssumption
       DEF PipelineInv, SoloRunTruthful, ReportedStaysReadable
<1>9. QED
    BY <1>1, <1>5, <1>6, <1>7, <1>8 DEF PipelineInv, NoMixedMedia

\* Staging a segment keeps the invariant.
LEMMA StageSegmentKeepsInv ==
    ASSUME PipelineInv, NEW p \in Procs, StageSegment(p)
    PROVE  PipelineInv'
<1> DEFINE j == IF LastSegment(p)
               THEN [job[p] EXCEPT !.pc = "assemble", !.next = 1]
               ELSE [job[p] EXCEPT !.next = @ + 1]
<1>1. /\ job' = [job EXCEPT ![p] = j]
      /\ job[p].pc = "stage"
      /\ seg' = [seg EXCEPT ![job[p].next] = Piece(job[p].track, job[p].next)]
      /\ UNCHANGED <<media, final, report, solo>>
    BY DEF StageSegment, Goto
<1>2. /\ job[p] \in Jobs /\ job[p].track \in Tracks
      /\ job[p].next \in 1..Segs[job[p].track]
      /\ job[p].parts = <<>>
    BY <1>1 DEF PipelineInv, TypeOK, RunShape, Jobs
<1>3. /\ 1 \in 1..Segs[job[p].track]
      /\ 1..Segs[job[p].track] \subseteq Indexes
      /\ ~LastSegment(p) => job[p].next + 1 \in 1..Segs[job[p].track]
    BY <1>2, RenderingType DEF Indexes, LastSegment
<1>4. /\ j \in Jobs /\ j.track = job[p].track /\ j.next \in 1..Segs[j.track]
      /\ j.parts = <<>>
      /\ j.pc \in {"stage", "assemble"}
      /\ j.pc = "assemble" => j.next = 1
    BY <1>1, <1>2, <1>3 DEF Jobs, Steps
<1>5. job'[p] = j /\ \A q \in Procs \ {p}: job'[q] = job[q]
    BY <1>1 DEF PipelineInv, TypeOK
<1>6. Piece(job[p].track, job[p].next) \in Pieces
    BY <1>2 DEF Piece, Pieces
<1>7. TypeOK'
    BY <1>1, <1>4, <1>6 DEF PipelineInv, TypeOK
<1>8. Prefix(job[p].track, 0) = <<>>
    BY <1>2, PrefixType
<1>9. RunShape'
    BY <1>1, <1>4, <1>5, <1>8 DEF PipelineInv, RunShape
<1>10. SoloShape'
    BY <1>1, <1>4, <1>5 DEF PipelineInv, SoloShape, OthersIdle, Source
<1>11. QED
    BY <1>1, <1>7, <1>9, <1>10 DEF PipelineInv, NoMixedMedia, SoloRunTruthful, ReportedStaysReadable

\* Reading a verified segment back keeps the invariant: the parts stay a
\* prefix of the track.
LEMMA ReadSegmentKeepsInv ==
    ASSUME PipelineInv, NEW p \in Procs, ReadSegment(p)
    PROVE  PipelineInv'
<1> DEFINE piece == seg[job[p].next]
           j == IF LastSegment(p)
                THEN [job[p] EXCEPT !.pc = "join", !.next = 1, !.parts = Append(@, piece)]
                ELSE [job[p] EXCEPT !.next = @ + 1, !.parts = Append(@, piece)]
<1>1. /\ job' = [job EXCEPT ![p] = j]
      /\ job[p].pc = "assemble"
      /\ piece = Piece(job[p].track, job[p].next)
      /\ UNCHANGED <<seg, media, final, report, solo>>
    BY DEF ReadSegment, Goto, Verified
<1>2. /\ job[p] \in Jobs /\ job[p].track \in Tracks
      /\ job[p].next \in 1..Segs[job[p].track]
      /\ job[p].parts = Prefix(job[p].track, job[p].next - 1)
    BY <1>1 DEF PipelineInv, TypeOK, RunShape, Jobs
<1>3. /\ Segs[job[p].track] \in Nat \ {0}
      /\ 1 \in 1..Segs[job[p].track]
      /\ 1..Segs[job[p].track] \subseteq Indexes
      /\ ~LastSegment(p) => job[p].next + 1 \in 1..Segs[job[p].track]
    BY <1>2, RenderingType DEF Indexes, LastSegment
<1>4. Append(job[p].parts, piece) = Prefix(job[p].track, job[p].next)
    <2>1. job[p].next - 1 \in Nat /\ (job[p].next - 1) + 1 = job[p].next
        BY <1>2, <1>3
    <2>2. QED
        BY <1>1, <1>2, <2>1, PrefixAppend
<1>5. Prefix(job[p].track, job[p].next) \in Seq(Pieces)
    BY <1>2, <1>3, PrefixType
<1>6. /\ j.track = job[p].track
      /\ j.parts = Prefix(job[p].track, job[p].next)
      /\ j.pc = IF LastSegment(p) THEN "join" ELSE "assemble"
      /\ j.next = IF LastSegment(p) THEN 1 ELSE job[p].next + 1
    BY <1>1, <1>2, <1>4 DEF Jobs
<1>7. j \in Jobs
    BY <1>2, <1>3, <1>4, <1>5 DEF Jobs, Steps
<1>8. job'[p] = j /\ \A q \in Procs \ {p}: job'[q] = job[q]
    BY <1>1 DEF PipelineInv, TypeOK
<1>9. TypeOK'
    BY <1>1, <1>7 DEF PipelineInv, TypeOK
<1>10. /\ j.pc = "assemble" => j.parts = Prefix(j.track, j.next - 1) /\ j.next \in 1..Segs[j.track]
       /\ j.pc = "join" => j.parts = Rendering(j.track)
    BY <1>2, <1>3, <1>6 DEF Rendering, LastSegment
<1>11. j.pc \in {"join", "assemble"} /\ ~report[p].done
    BY <1>1, <1>6 DEF PipelineInv, RunShape
<1> HIDE DEF j
<1>12. RunShape'
    BY <1>1, <1>8, <1>10, <1>11 DEF PipelineInv, RunShape
<1>13. SoloShape'
    BY <1>1, <1>8, <1>11 DEF PipelineInv, SoloShape, OthersIdle, Source
<1>14. QED
    BY <1>1, <1>9, <1>12, <1>13
       DEF PipelineInv, NoMixedMedia, SoloRunTruthful, ReportedStaysReadable

\* Storing the assembled media keeps the invariant.
LEMMA WriteMediaKeepsInv ==
    ASSUME PipelineInv, NEW p \in Procs, WriteMedia(p)
    PROVE  PipelineInv'
<1> DEFINE j == [job[p] EXCEPT !.pc = "open", !.goal = "m4a"]
<1>1. /\ job' = [job EXCEPT ![p] = j]
      /\ job[p].pc = "join"
      /\ media' = job[p].parts
      /\ UNCHANGED <<seg, final, report, solo>>
    BY DEF WriteMedia, Goto, Assembled
<1>2. /\ job[p] \in Jobs /\ job[p].track \in Tracks
      /\ media' = Rendering(job[p].track)
    BY <1>1 DEF PipelineInv, TypeOK, RunShape, Jobs
<1>3. /\ j \in Jobs /\ j.pc = "open" /\ j.goal = "m4a" /\ j.track = job[p].track
    BY <1>2 DEF Jobs, Steps, Formats
<1>4. job'[p] = j /\ \A q \in Procs \ {p}: job'[q] = job[q]
    BY <1>1 DEF PipelineInv, TypeOK
<1>5. media' \in Renderings /\ media' \in Seq(Pieces)
    BY <1>2, RenderingType
<1>6. TypeOK'
    BY <1>1, <1>3, <1>5 DEF PipelineInv, TypeOK
<1>7. NoMixedMedia'
    BY <1>1, <1>5 DEF PipelineInv, NoMixedMedia
<1>8. RunShape'
    BY <1>1, <1>3, <1>4 DEF PipelineInv, RunShape
<1>9. SoloShape'
    BY <1>1, <1>2, <1>3, <1>4 DEF PipelineInv, SoloShape, OthersIdle, Source
<1>10. QED
    BY <1>1, <1>6, <1>7, <1>8, <1>9 DEF PipelineInv, SoloRunTruthful, ReportedStaysReadable

\* Reading the input of a conversion keeps the invariant: whoever wrote the
\* file, it is one whole track.
LEMMA ReadInputKeepsInv ==
    ASSUME PipelineInv, NEW p \in Procs, ReadInput(p)
    PROVE  PipelineInv'
<1> DEFINE j == [job[p] EXCEPT !.pc = "convert", !.input = Source(p)]
<1>1. /\ job' = [job EXCEPT ![p] = j]
      /\ job[p].pc = "open"
      /\ Source(p) # Missing
      /\ UNCHANGED <<seg, media, final, report, solo>>
    BY DEF ReadInput, Goto
<1>2. Source(p) \in Renderings
    BY <1>1 DEF PipelineInv, NoMixedMedia, Source, Formats
<1>3. /\ job[p] \in Jobs
      /\ j.pc = "convert" /\ j.track = job[p].track /\ j.input = Source(p)
      /\ j.goal = job[p].goal /\ j.format = job[p].format
    BY DEF PipelineInv, TypeOK, Jobs
<1>4. j \in Jobs
    BY <1>2, <1>3, RenderingsAreFiles DEF Jobs, Steps
<1>5. job'[p] = j /\ \A q \in Procs \ {p}: job'[q] = job[q]
    BY <1>1 DEF PipelineInv, TypeOK
<1>6. TypeOK'
    BY <1>1, <1>4 DEF PipelineInv, TypeOK
<1>7. RunShape'
    BY <1>1, <1>2, <1>3, <1>5 DEF PipelineInv, RunShape
<1>8. SoloShape'
    BY <1>1, <1>3, <1>5 DEF PipelineInv, SoloShape, OthersIdle, Source
<1>9. QED
    BY <1>1, <1>6, <1>7, <1>8
       DEF PipelineInv, NoMixedMedia, SoloRunTruthful, ReportedStaysReadable

\* Storing the output of a conversion keeps the invariant.
LEMMA WriteOutputKeepsInv ==
    ASSUME PipelineInv, NEW p \in Procs, WriteOutput(p)
    PROVE  PipelineInv'
<1> DEFINE j == [job[p] EXCEPT !.pc = "close"]
<1>1. /\ job' = [job EXCEPT ![p] = j]
      /\ job[p].pc = "convert"
      /\ final' = [final EXCEPT ![job[p].goal] = job[p].input]
      /\ UNCHANGED <<seg, media, report, solo>>
    BY DEF WriteOutput, Goto
<1>2. /\ job[p] \in Jobs /\ job[p].goal \in Formats
      /\ job[p].input \in Renderings
      /\ job[p].input \in Seq(Pieces) /\ job[p].input # Missing
    BY <1>1, RenderingsAreFiles DEF PipelineInv, TypeOK, RunShape, Jobs
<1>3. /\ j \in Jobs /\ j.pc = "close" /\ j.track = job[p].track
      /\ j.input = job[p].input /\ j.goal = job[p].goal /\ j.format = job[p].format
    BY <1>2 DEF Jobs, Steps
<1>4. job'[p] = j /\ \A q \in Procs \ {p}: job'[q] = job[q]
    BY <1>1 DEF PipelineInv, TypeOK
<1>5. /\ final'[job[p].goal] = job[p].input
      /\ \A f \in Formats: final'[f] = final[f] \/ final'[f] = job[p].input
    BY <1>1, <1>2 DEF PipelineInv, TypeOK
<1>6. TypeOK'
    BY <1>1, <1>2, <1>3 DEF PipelineInv, TypeOK
<1>7. NoMixedMedia'
    BY <1>1, <1>2, <1>5 DEF PipelineInv, NoMixedMedia
<1>8. RunShape'
    <2>1. \A q \in Procs: job[q].goal \in Formats
        BY DEF PipelineInv, TypeOK, Jobs
    <2>2. QED
        BY <1>1, <1>2, <1>3, <1>4, <1>5, <2>1 DEF PipelineInv, RunShape
<1>9. SoloShape'
    BY <1>1, <1>3, <1>4, <1>5 DEF PipelineInv, SoloShape, OthersIdle, Source
<1>10. SoloRunTruthful'
    <2> SUFFICES ASSUME NEW q \in Procs, solo = q, report[q].done
                 PROVE  /\ report[q].content = Rendering(report[q].track)
                        /\ final'[report[q].format] = report[q].content
        BY <1>1 DEF SoloRunTruthful
    <2>1. q = p
        BY <1>1 DEF PipelineInv, SoloShape, OthersIdle
    <2>2. ~report[p].done
        BY <1>1 DEF PipelineInv, RunShape
    <2>3. QED
        BY <2>1, <2>2
<1>11. ReportedStaysReadable'
    <2>1. \A q \in Procs: report[q].format \in Formats
        BY DEF PipelineInv, TypeOK, Reports
    <2>2. QED
        BY <1>1, <1>2, <1>5, <2>1 DEF PipelineInv, ReportedStaysReadable
<1>12. QED
    BY <1>6, <1>7, <1>8, <1>9, <1>10, <1>11 DEF PipelineInv

\* Going on from the M4A file to the export keeps the invariant.
LEMMA NextConversionKeepsInv ==
    ASSUME PipelineInv, NEW p \in Procs, NextConversion(p)
    PROVE  PipelineInv'
<1> DEFINE j == [job[p] EXCEPT !.pc = "open", !.goal = job[p].format, !.input = <<>>]
<1>1. /\ job' = [job EXCEPT ![p] = j]
      /\ job[p].pc = "close" /\ job[p].goal # job[p].format
      /\ UNCHANGED <<seg, media, final, report, solo>>
    BY DEF NextConversion, Goto
<1>2. /\ job[p] \in Jobs /\ <<>> \in Seq(Pieces)
      /\ j.pc = "open" /\ j.track = job[p].track
      /\ j.goal = job[p].format /\ j.format = job[p].format
    BY DEF PipelineInv, TypeOK, Jobs
<1>3. j \in Jobs
    BY <1>2 DEF Jobs, Steps
<1>4. job'[p] = j /\ \A q \in Procs \ {p}: job'[q] = job[q]
    BY <1>1 DEF PipelineInv, TypeOK
<1>5. ~report[p].done
    BY <1>1 DEF PipelineInv, RunShape
<1>6. TypeOK'
    BY <1>1, <1>3 DEF PipelineInv, TypeOK
<1> HIDE DEF j
<1>7. RunShape'
    BY <1>1, <1>2, <1>4, <1>5 DEF PipelineInv, RunShape
<1>8. SoloShape'
    <2>1. job[p].goal = "m4a" /\ job[p].format # "m4a"
        BY <1>1 DEF PipelineInv, RunShape
    <2>2. QED
        BY <1>1, <1>2, <1>4, <2>1 DEF PipelineInv, SoloShape, OthersIdle, Source
<1>9. QED
    BY <1>1, <1>6, <1>7, <1>8
       DEF PipelineInv, NoMixedMedia, SoloRunTruthful, ReportedStaysReadable

\* Reporting the result keeps the invariant.
LEMMA SucceedKeepsInv ==
    ASSUME PipelineInv, NEW p \in Procs, Succeed(p)
    PROVE  PipelineInv'
<1> DEFINE r == [done |-> TRUE, track |-> job[p].track, format |-> job[p].format,
                 content |-> job[p].input]
<1>1. /\ job' = [job EXCEPT ![p] = NoJob]
      /\ report' = [report EXCEPT ![p] = r]
      /\ job[p].pc = "close" /\ job[p].goal = job[p].format
      /\ UNCHANGED <<seg, media, final, solo>>
    BY DEF Succeed, Goto
<1>2. /\ job[p] \in Jobs
      /\ job[p].input \in Seq(Pieces)
      /\ final[job[p].format] # Missing
    BY <1>1, RenderingsAreFiles DEF PipelineInv, TypeOK, RunShape, Jobs
<1>3. r \in Reports /\ r.format = job[p].format /\ r.content = job[p].input
      /\ r.track = job[p].track
    BY <1>2 DEF Jobs, Reports
<1>4. /\ job'[p].pc = "idle" /\ \A q \in Procs \ {p}: job'[q] = job[q]
      /\ report'[p] = r /\ \A q \in Procs \ {p}: report'[q] = report[q]
    BY <1>1, NoJobType DEF PipelineInv, TypeOK
<1>5. TypeOK'
    BY <1>1, <1>3, NoJobType DEF PipelineInv, TypeOK
<1> HIDE DEF r
<1>6. RunShape'
    BY <1>1, <1>4 DEF PipelineInv, RunShape
<1>7. SoloShape'
    BY <1>1, <1>4 DEF PipelineInv, SoloShape, OthersIdle, Source
<1>8. SoloRunTruthful'
    <2>1. solo = p => job[p].input = Rendering(job[p].track) /\ final[job[p].format] = job[p].input
        BY <1>1 DEF PipelineInv, SoloShape
    <2>2. QED
        BY <1>1, <1>3, <1>4, <2>1 DEF PipelineInv, SoloRunTruthful
<1>9. ReportedStaysReadable'
    BY <1>1, <1>2, <1>3, <1>4 DEF PipelineInv, ReportedStaysReadable
<1>10. QED
    BY <1>1, <1>5, <1>6, <1>7, <1>8, <1>9 DEF PipelineInv, NoMixedMedia

\* Every step keeps the invariant.
LEMMA NextKeepsInv == PipelineInv /\ [Next]_vars => PipelineInv'
<1> SUFFICES ASSUME PipelineInv, [Next]_vars PROVE PipelineInv'
    OBVIOUS
<1>1. ASSUME NEW p \in Procs, NEW t \in Tracks, NEW f \in Formats, Start(p, t, f)
      PROVE  PipelineInv'
    BY <1>1, StartKeepsInv
<1>2. ASSUME NEW p \in Procs, Proceed(p)
      PROVE  PipelineInv'
    <2>1. CASE StageSegment(p)
        BY <2>1, StageSegmentKeepsInv
    <2>2. CASE ReadSegment(p)
        BY <2>2, ReadSegmentKeepsInv
    <2>3. CASE WriteMedia(p)
        BY <2>3, WriteMediaKeepsInv
    <2>4. CASE ReadInput(p)
        BY <2>4, ReadInputKeepsInv
    <2>5. CASE WriteOutput(p)
        BY <2>5, WriteOutputKeepsInv
    <2>6. CASE NextConversion(p)
        BY <2>6, NextConversionKeepsInv
    <2>7. CASE Succeed(p)
        BY <2>7, SucceedKeepsInv
    <2>8. CASE Fail(p)
        BY <2>8, EndKeepsInv DEF Fail
    <2>9. QED
        BY <1>2, <2>1, <2>2, <2>3, <2>4, <2>5, <2>6, <2>7, <2>8 DEF Proceed
<1>3. ASSUME NEW p \in Procs, Crash(p)
      PROVE  PipelineInv'
    BY <1>3, EndKeepsInv DEF Crash
<1>4. CASE UNCHANGED vars
    BY <1>4 DEF vars, PipelineInv, TypeOK, NoMixedMedia, RunShape, SoloShape,
                SoloRunTruthful, ReportedStaysReadable, OthersIdle, Source
<1>5. QED
    BY <1>1, <1>2, <1>3, <1>4 DEF Next

-----------------------------------------------------------------------------
\* The invariant of the pipeline holds in every state of every execution,
\* for any number of processes, tracks and segments.
THEOREM PipelineInvariant == Spec => []PipelineInv
<1>1. QED
    BY InitPipelineInv, NextKeepsInv, PTL DEF Spec

\* Files, jobs and reports have the shape the code gives them.
THEOREM PipelineTypeCorrect == Spec => []TypeOK
<1>1. PipelineInv => TypeOK
    BY DEF PipelineInv
<1>2. QED
    BY <1>1, PipelineInvariant, PTL

\* Whatever processes do to the shared paths, the assembled file and every
\* audio file is one whole track.
THEOREM PipelineNoMixedMedia == Spec => []NoMixedMedia
<1>1. PipelineInv => NoMixedMedia
    BY DEF PipelineInv
<1>2. QED
    BY <1>1, PipelineInvariant, PTL

\* A run alone on the storage root reports its own track, whatever earlier
\* runs left there.
THEOREM PipelineSoloTruthful == Spec => []SoloRunTruthful
<1>1. PipelineInv => SoloRunTruthful
    BY DEF PipelineInv
<1>2. QED
    BY <1>1, PipelineInvariant, PTL

\* A reported path stays readable.
THEOREM PipelineReportedReadable == Spec => []ReportedStaysReadable
<1>1. PipelineInv => ReportedStaysReadable
    BY DEF PipelineInv
<1>2. QED
    BY <1>1, PipelineInvariant, PTL

-----------------------------------------------------------------------------
\* Seen through the mapping, the pipeline starts with an empty library.
LEMMA InitIsLibraryInit == Init => Library!LInit
<1> SUFFICES ASSUME Init PROVE Library!LInit
    OBVIOUS
<1>1. Published = [p \in Procs |-> Library!Nothing]
    BY NoJobType DEF Init, Published, NoEntry, Library!Nothing
<1>2. Reported = [p \in Procs |-> Library!Nothing]
    BY NoJobType DEF Init, Reported, NoEntry, Library!Nothing
<1>3. QED
    BY <1>1, <1>2 DEF Init, Library!LInit

\* A step of one process changes only what the library knows of that process.
LEMMA MappingLocal ==
    ASSUME PipelineInv, PipelineInv', NEW p \in Procs,
           \A q \in Procs \ {p}: job'[q] = job[q] /\ report'[q] = report[q]
    PROVE  /\ Published' = [Published EXCEPT ![p] = Published'[p]]
           /\ Reported' = [Reported EXCEPT ![p] = Reported'[p]]
BY DEF Published, Reported

\* Until it has written its output, what a process does is not seen; neither
\* is its end when it had nothing to answer for.
LEMMA QuietStep ==
    ASSUME PipelineInv, PipelineInv', NEW p \in Procs,
           \A q \in Procs \ {p}: job'[q] = job[q],
           job'[p].pc # "close", UNCHANGED <<final, report>>
    PROVE  Library!Forget(p) \/ UNCHANGED Library!lvars
<1>1. Reported' = Reported
    BY DEF Reported
<1>2. Published' = [Published EXCEPT ![p] = NoEntry]
    BY DEF Published
<1>3. QED
    BY <1>1, <1>2 DEF Library!Forget, Library!lvars, Library!Nothing, NoEntry

\* Every step of the pipeline is a step of the library, or is not seen.
LEMMA StepImplementsLibrary ==
    PipelineInv /\ PipelineInv' /\ [Next]_vars => [Library!LNext]_Library!lvars
<1> SUFFICES ASSUME PipelineInv, PipelineInv', [Next]_vars
             PROVE  Library!LNext \/ UNCHANGED Library!lvars
    OBVIOUS
<1>1. job \in [Procs -> Jobs] /\ report \in [Procs -> Reports] /\ final \in [Formats -> Seq(Pieces)]
    BY DEF PipelineInv, TypeOK
<1>2. ASSUME NEW p \in Procs, NEW t \in Tracks, NEW f \in Formats, Start(p, t, f)
      PROVE  Library!Begin(p)
    <2>1. /\ job'[p].pc = "stage" /\ job[p].pc = "idle"
          /\ \A q \in Procs \ {p}: job'[q] = job[q] /\ report'[q] = report[q]
          /\ report'[p] = NoReport /\ UNCHANGED final
        BY <1>1, <1>2 DEF Start, Goto, NoJob
    <2>2. Published' = Published
        BY <2>1, MappingLocal DEF Published
    <2>3. Reported' = [Reported EXCEPT ![p] = NoEntry]
        BY <2>1, MappingLocal DEF Reported, NoReport
    <2>4. QED
        BY <2>1, <2>2, <2>3 DEF Library!Begin, Library!Nothing, NoEntry
<1>3. ASSUME NEW p \in Procs, WriteOutput(p)
      PROVE  \E f \in Formats, r \in Renderings: Library!Publish(p, f, r)
    <2>1. /\ job[p].goal \in Formats
          /\ job[p].input \in Renderings
        BY <1>1, <1>3 DEF WriteOutput, PipelineInv, RunShape, Jobs
    <2>2. /\ job'[p].pc = "close" /\ job'[p].goal = job[p].goal /\ job'[p].input = job[p].input
          /\ \A q \in Procs \ {p}: job'[q] = job[q]
          /\ final' = [final EXCEPT ![job[p].goal] = job[p].input]
          /\ UNCHANGED report
        BY <1>1, <1>3 DEF WriteOutput, Goto, Jobs
    <2>3. Published' = [Published EXCEPT ![p] = EntryOf(job[p].goal, job[p].input)]
        BY <2>2 DEF Published
    <2>4. Reported' = Reported
        BY <2>2 DEF Reported
    <2>5. Library!Publish(p, job[p].goal, job[p].input)
        BY <2>2, <2>3, <2>4 DEF Library!Publish, Library!Entry, EntryOf
    <2>6. QED
        BY <2>1, <2>5
<1>4. ASSUME NEW p \in Procs, Succeed(p)
      PROVE  Library!Tell(p)
    <2>1. /\ job[p].pc = "close" /\ job[p].goal = job[p].format
          /\ job'[p].pc = "idle"
          /\ \A q \in Procs \ {p}: job'[q] = job[q] /\ report'[q] = report[q]
          /\ report'[p].done
          /\ report'[p].format = job[p].goal /\ report'[p].content = job[p].input
          /\ UNCHANGED final
        BY <1>1, <1>4, NoJobType DEF Succeed, Goto
    <2>2. Published[p] = EntryOf(job[p].goal, job[p].input) /\ Published[p].some
        BY <2>1 DEF Published, EntryOf
    <2>3. Published' = [Published EXCEPT ![p] = NoEntry]
        BY <2>1 DEF Published
    <2>4. Reported' = [Reported EXCEPT ![p] = Published[p]]
        BY <2>1, <2>2 DEF Reported
    <2>5. QED
        BY <2>1, <2>2, <2>3, <2>4 DEF Library!Tell, Library!Nothing, NoEntry
<1>5. ASSUME NEW p \in Procs,
             \/ StageSegment(p) \/ ReadSegment(p) \/ WriteMedia(p) \/ ReadInput(p)
             \/ NextConversion(p) \/ Fail(p) \/ Crash(p)
      PROVE  Library!Forget(p) \/ UNCHANGED Library!lvars
    <2>1. job[p] \in Jobs /\ UNCHANGED <<final, report>>
        BY <1>1, <1>5 DEF StageSegment, ReadSegment, WriteMedia, ReadInput, NextConversion,
                          Fail, Crash
    <2>2. \E j: j.pc # "close" /\ Goto(p, j)
        <3>1. CASE StageSegment(p)
            BY <2>1, <3>1 DEF StageSegment, Jobs
        <3>2. CASE ReadSegment(p)
            BY <2>1, <3>2 DEF ReadSegment, Jobs
        <3>3. CASE WriteMedia(p)
            BY <2>1, <3>3 DEF WriteMedia, Jobs
        <3>4. CASE ReadInput(p)
            BY <2>1, <3>4 DEF ReadInput, Jobs
        <3>5. CASE NextConversion(p)
            BY <2>1, <3>5 DEF NextConversion, Jobs
        <3>6. CASE Fail(p) \/ Crash(p)
            BY <3>6, NoJobType DEF Fail, Crash
        <3>7. QED
            BY <1>5, <3>1, <3>2, <3>3, <3>4, <3>5, <3>6
    <2>3. (\A q \in Procs \ {p}: job'[q] = job[q]) /\ job'[p].pc # "close"
        BY <1>1, <2>2 DEF Goto
    <2>4. QED
        BY <2>1, <2>3, QuietStep
<1>6. CASE UNCHANGED vars
    BY <1>6 DEF vars, Library!lvars, Published, Reported
<1>7. QED
    BY <1>2, <1>3, <1>4, <1>5, <1>6 DEF Next, Proceed, Library!LNext

\* The pipeline implements the audio library: files of a format are replaced
\* by one whole track at a time and never removed, and a result names what
\* the run itself published.
THEOREM PipelineImplementsLibrary == Spec => ImplementsLibrary
<1>1. QED
    BY InitIsLibraryInit, StepImplementsLibrary, PipelineInvariant, PTL
       DEF Spec, ImplementsLibrary, Library!LSpec

-----------------------------------------------------------------------------
(* The bound on the steps of a run. *)

\* What the steps left come to at each step of a run.
LEMMA StepsLeftOf ==
    ASSUME NEW j \in Jobs, NEW left,
           left = LET n == Segs[j.track]
                      export == IF j.goal = j.format THEN 0 ELSE 3
                  IN  [idle |-> 0, close |-> 1 + export, convert |-> 2 + export,
                       open |-> 3 + export, join |-> 7, assemble |-> 8 + (n - j.next),
                       stage |-> 8 + (n - j.next) + n][j.pc]
    PROVE  /\ Segs[j.track] \in Nat \ {0}
           /\ j.pc = "idle" => left = 0
           /\ j.pc = "close" => left = 1 + (IF j.goal = j.format THEN 0 ELSE 3)
           /\ j.pc = "convert" => left = 2 + (IF j.goal = j.format THEN 0 ELSE 3)
           /\ j.pc = "open" => left = 3 + (IF j.goal = j.format THEN 0 ELSE 3)
           /\ j.pc = "join" => left = 7
           /\ j.pc = "assemble" => left = 8 + (Segs[j.track] - j.next)
           /\ j.pc = "stage" => left = 8 + (Segs[j.track] - j.next) + Segs[j.track]
<1>1. Segs[j.track] \in Nat \ {0}
    BY RenderingType DEF Jobs
<1>2. QED
    BY <1>1

\* What changes in the job of a process when it takes a step that is not a
\* start: it ends, or it goes on with the next thing to do.
MovesOn(j, k) ==
    \/ j.pc # "idle" /\ k.pc = "idle"
    \/ /\ j.pc = "stage" /\ k.pc = "stage"
       /\ k.track = j.track /\ k.next = j.next + 1
    \/ /\ j.pc = "stage" /\ k.pc = "assemble"
       /\ k.track = j.track /\ k.next = 1 /\ j.next = Segs[j.track]
    \/ /\ j.pc = "assemble" /\ k.pc = "assemble"
       /\ k.track = j.track /\ k.next = j.next + 1
    \/ j.pc = "assemble" /\ k.pc = "join"
    \/ j.pc = "join" /\ k.pc = "open"
    \/ j.pc = "open" /\ k.pc = "convert" /\ k.goal = j.goal /\ k.format = j.format
    \/ j.pc = "convert" /\ k.pc = "close" /\ k.goal = j.goal /\ k.format = j.format
    \/ j.pc = "close" /\ k.pc = "open" /\ j.goal # j.format /\ k.goal = k.format

\* Such a step uses one of the steps left up, a start gives the budget.
LEMMA StepUsesUp ==
    ASSUME PipelineInv, PipelineInv', NEW p \in Procs,
           \A q \in Procs \ {p}: job'[q] = job[q],
           \/ job[p].pc = "idle" /\ job'[p].pc = "stage" /\ job'[p].next = 1
           \/ MovesOn(job[p], job'[p])
    PROVE  \A q \in Procs: job'[q] # job[q] =>
              StepsLeft(q)' \in 0..(IF job[q].pc = "idle" THEN StepBudget(job'[q].track)
                                                        ELSE StepsLeft(q) - 1)
<1> DEFINE j == job[p]
           k == job'[p]
           before == StepsLeft(p)
           after == StepsLeft(p)'
<1>1. /\ j \in Jobs /\ k \in Jobs
      /\ j.pc \in {"stage", "assemble"} => j.next \in 1..Segs[j.track]
      /\ k.pc \in {"stage", "assemble"} => k.next \in 1..Segs[k.track]
    BY DEF PipelineInv, TypeOK, RunShape
<1>2. /\ Segs[j.track] \in Nat \ {0}
      /\ j.pc = "idle" => before = 0
      /\ j.pc = "close" => before = 1 + (IF j.goal = j.format THEN 0 ELSE 3)
      /\ j.pc = "convert" => before = 2 + (IF j.goal = j.format THEN 0 ELSE 3)
      /\ j.pc = "open" => before = 3 + (IF j.goal = j.format THEN 0 ELSE 3)
      /\ j.pc = "join" => before = 7
      /\ j.pc = "assemble" => before = 8 + (Segs[j.track] - j.next)
      /\ j.pc = "stage" => before = 8 + (Segs[j.track] - j.next) + Segs[j.track]
    <2>1. before = LET n == Segs[j.track]
                       export == IF j.goal = j.format THEN 0 ELSE 3
                   IN  [idle |-> 0, close |-> 1 + export, convert |-> 2 + export,
                        open |-> 3 + export, join |-> 7, assemble |-> 8 + (n - j.next),
                        stage |-> 8 + (n - j.next) + n][j.pc]
        BY DEF StepsLeft
    <2> HIDE DEF before, j
    <2>2. QED
        BY <1>1, <2>1, StepsLeftOf
<1>3. /\ Segs[k.track] \in Nat \ {0}
      /\ k.pc = "idle" => after = 0
      /\ k.pc = "close" => after = 1 + (IF k.goal = k.format THEN 0 ELSE 3)
      /\ k.pc = "convert" => after = 2 + (IF k.goal = k.format THEN 0 ELSE 3)
      /\ k.pc = "open" => after = 3 + (IF k.goal = k.format THEN 0 ELSE 3)
      /\ k.pc = "join" => after = 7
      /\ k.pc = "assemble" => after = 8 + (Segs[k.track] - k.next)
      /\ k.pc = "stage" => after = 8 + (Segs[k.track] - k.next) + Segs[k.track]
    <2>1. after = LET n == Segs[k.track]
                      export == IF k.goal = k.format THEN 0 ELSE 3
                  IN  [idle |-> 0, close |-> 1 + export, convert |-> 2 + export,
                       open |-> 3 + export, join |-> 7, assemble |-> 8 + (n - k.next),
                       stage |-> 8 + (n - k.next) + n][k.pc]
        BY DEF StepsLeft
    <2> HIDE DEF after, k
    <2>2. QED
        BY <1>1, <2>1, StepsLeftOf
<1>4. \/ j.pc = "idle" /\ k.pc = "stage" /\ k.next = 1
      \/ MovesOn(j, k)
    OBVIOUS
<1> HIDE DEF j, k, before, after
<1>5. after \in 0..(IF j.pc = "idle" THEN StepBudget(k.track) ELSE before - 1)
    <2>1. CASE j.pc = "idle" /\ k.pc = "stage" /\ k.next = 1
        BY <1>1, <1>3, <2>1 DEF StepBudget
    <2>2. CASE MovesOn(j, k) /\ k.pc = "idle"
        <3>1. j.pc \in Steps
            BY <1>1 DEF Jobs
        <3>2. before \in Nat \ {0}
            BY <1>1, <1>2, <2>2, <3>1 DEF MovesOn, Steps
        <3>3. QED
            BY <1>3, <2>2, <3>2 DEF MovesOn
    <2>3. CASE MovesOn(j, k) /\ j.pc \in {"stage", "assemble"} /\ k.pc # "idle"
        BY <1>1, <1>2, <1>3, <2>3 DEF MovesOn
    <2>4. CASE MovesOn(j, k) /\ j.pc \in {"join", "open", "convert", "close"} /\ k.pc # "idle"
        BY <1>2, <1>3, <2>4 DEF MovesOn
    <2>5. QED
        BY <1>4, <2>1, <2>2, <2>3, <2>4 DEF MovesOn
<1>6. QED
    BY <1>5 DEF j, k, before, after

\* Every step of a run is a start or moves it on.
LEMMA RunMovesOn ==
    ASSUME PipelineInv, NEW p \in Procs,
           \/ \E t \in Tracks, f \in Formats: Start(p, t, f)
           \/ Proceed(p)
           \/ Crash(p)
    PROVE  /\ \A q \in Procs \ {p}: job'[q] = job[q]
           /\ \/ job[p].pc = "idle" /\ job'[p].pc = "stage" /\ job'[p].next = 1
              \/ MovesOn(job[p], job'[p])
<1>1. job \in [Procs -> Jobs] /\ job[p] \in Jobs
    BY DEF PipelineInv, TypeOK
<1>2. ASSUME NEW j, Goto(p, j)
      PROVE  job'[p] = j /\ \A q \in Procs \ {p}: job'[q] = job[q]
    BY <1>1, <1>2 DEF Goto
<1>3. CASE \E t \in Tracks, f \in Formats: Start(p, t, f)
    <2>1. PICK t \in Tracks, f \in Formats: Start(p, t, f)
        BY <1>3
    <2> DEFINE k == [NoJob EXCEPT !.pc = "stage", !.track = t, !.format = f]
    <2>2. Goto(p, k) /\ job[p].pc = "idle"
        BY <2>1 DEF Start
    <2>3. k.pc = "stage" /\ k.next = 1
        BY DEF NoJob
    <2> HIDE DEF k
    <2>4. QED
        BY <1>2, <2>2, <2>3
<1>4. CASE Goto(p, NoJob) /\ job[p].pc # "idle"
    BY <1>2, <1>4, NoJobType DEF MovesOn
<1>5. CASE StageSegment(p)
    <2> DEFINE staged == [job[p] EXCEPT !.pc = "assemble", !.next = 1]
               further == [job[p] EXCEPT !.next = @ + 1]
    <2>1. \/ Goto(p, staged) /\ job[p].next = Segs[job[p].track]
          \/ Goto(p, further)
        BY <1>5 DEF StageSegment, LastSegment
    <2>2. /\ staged.pc = "assemble" /\ staged.track = job[p].track /\ staged.next = 1
          /\ further.pc = job[p].pc /\ further.track = job[p].track
          /\ further.next = job[p].next + 1
        BY <1>1 DEF Jobs
    <2> HIDE DEF staged, further
    <2>3. QED
        BY <1>2, <1>5, <2>1, <2>2 DEF StageSegment, MovesOn
<1>6. CASE ReadSegment(p)
    <2> DEFINE joined == [job[p] EXCEPT !.pc = "join", !.next = 1,
                                        !.parts = Append(@, seg[job[p].next])]
               further == [job[p] EXCEPT !.next = @ + 1,
                                         !.parts = Append(@, seg[job[p].next])]
    <2>1. Goto(p, joined) \/ Goto(p, further)
        BY <1>6 DEF ReadSegment
    <2>2. /\ joined.pc = "join"
          /\ further.pc = job[p].pc /\ further.track = job[p].track
          /\ further.next = job[p].next + 1
        BY <1>1 DEF Jobs
    <2> HIDE DEF joined, further
    <2>3. QED
        BY <1>2, <1>6, <2>1, <2>2 DEF ReadSegment, MovesOn
<1>7. CASE WriteMedia(p) \/ ReadInput(p) \/ WriteOutput(p) \/ NextConversion(p)
    <2>1. CASE WriteMedia(p)
        <3> DEFINE k == [job[p] EXCEPT !.pc = "open", !.goal = "m4a"]
        <3>1. Goto(p, k)
            BY <2>1 DEF WriteMedia
        <3>2. k.pc = "open"
            BY <1>1 DEF Jobs
        <3> HIDE DEF k
        <3>3. QED
            BY <1>2, <2>1, <3>1, <3>2 DEF WriteMedia, MovesOn
    <2>2. CASE ReadInput(p)
        <3> DEFINE k == [job[p] EXCEPT !.pc = "convert", !.input = Source(p)]
        <3>1. Goto(p, k)
            BY <2>2 DEF ReadInput
        <3>2. k.pc = "convert" /\ k.goal = job[p].goal /\ k.format = job[p].format
            BY <1>1 DEF Jobs
        <3> HIDE DEF k
        <3>3. QED
            BY <1>2, <2>2, <3>1, <3>2 DEF ReadInput, MovesOn
    <2>3. CASE WriteOutput(p)
        <3> DEFINE k == [job[p] EXCEPT !.pc = "close"]
        <3>1. Goto(p, k)
            BY <2>3 DEF WriteOutput
        <3>2. k.pc = "close" /\ k.goal = job[p].goal /\ k.format = job[p].format
            BY <1>1 DEF Jobs
        <3> HIDE DEF k
        <3>3. QED
            BY <1>2, <2>3, <3>1, <3>2 DEF WriteOutput, MovesOn
    <2>4. CASE NextConversion(p)
        <3> DEFINE k == [job[p] EXCEPT !.pc = "open", !.goal = job[p].format, !.input = <<>>]
        <3>1. Goto(p, k)
            BY <2>4 DEF NextConversion
        <3>2. k.pc = "open" /\ k.goal = k.format
            BY <1>1 DEF Jobs
        <3> HIDE DEF k
        <3>3. QED
            BY <1>2, <2>4, <3>1, <3>2 DEF NextConversion, MovesOn
    <2>5. QED
        BY <1>7, <2>1, <2>2, <2>3, <2>4
<1>8. Succeed(p) \/ Fail(p) \/ Crash(p) => Goto(p, NoJob) /\ job[p].pc # "idle"
    BY DEF Succeed, Fail, Crash
<1>9. QED
    BY <1>3, <1>4, <1>5, <1>6, <1>7, <1>8 DEF Proceed

\* For any number of processes, tracks and segments: a run of a track with n
\* segments ends within 2 * n + 7 steps of its own after its start, whatever
\* the other runs write in between.
THEOREM PipelineRunsAdvance == Spec => RunsAdvance
<1>1. PipelineInv /\ PipelineInv' /\ [Next]_vars =>
         [\A p \in Procs: job'[p] # job[p] =>
             StepsLeft(p)' \in 0..(IF job[p].pc = "idle" THEN StepBudget(job'[p].track)
                                                       ELSE StepsLeft(p) - 1)]_vars
    <2> SUFFICES ASSUME PipelineInv, PipelineInv', Next
                 PROVE  \A p \in Procs: job'[p] # job[p] =>
                           StepsLeft(p)' \in 0..(IF job[p].pc = "idle"
                                                 THEN StepBudget(job'[p].track)
                                                 ELSE StepsLeft(p) - 1)
        OBVIOUS
    <2>1. PICK p \in Procs: \/ \E t \in Tracks, f \in Formats: Start(p, t, f)
                            \/ Proceed(p)
                            \/ Crash(p)
        BY DEF Next
    <2>2. QED
        BY <2>1, RunMovesOn, StepUsesUp
<1>2. QED
    BY <1>1, PipelineInvariant, PTL DEF Spec, RunsAdvance

-----------------------------------------------------------------------------
(* The pipeline implements the stages of a media run. *)

\* The stage of a process with job j.
StageOf(j) ==
    [name |-> CASE j.pc \in {"idle", "stage"} -> j.pc
                [] j.pc \in {"assemble", "join"} -> "assemble"
                [] OTHER -> IF j.goal = "m4a" THEN "remux" ELSE "export",
     format |-> IF j.pc = "idle" THEN "none" ELSE j.format]

LEMMA StageOfSteps ==
    ASSUME NEW j
    PROVE  /\ j.pc = "idle" => StageOf(j) = Media!Resting
           /\ j.pc = "stage" => StageOf(j) = Media!At("stage", j.format)
           /\ j.pc \in {"assemble", "join"} => StageOf(j) = Media!At("assemble", j.format)
           /\ j.pc \in {"open", "convert", "close"} =>
                 StageOf(j) = Media!At(IF j.goal = "m4a" THEN "remux" ELSE "export", j.format)
<1>1. CASE j.pc \notin {"idle", "stage", "assemble", "join", "open", "convert", "close"}
    BY <1>1
<1>2. CASE j.pc \in {"idle", "stage"}
    BY <1>2 DEF StageOf, Media!Resting, Media!At
<1>3. CASE j.pc \in {"assemble", "join"}
    BY <1>3 DEF StageOf, Media!At
<1>4. CASE j.pc \in {"open", "convert", "close"}
    BY <1>4 DEF StageOf, Media!At
<1>5. QED
    BY <1>1, <1>2, <1>3, <1>4

LEMMA StagesOfJobs == Stages = [p \in Procs |-> StageOf(job[p])]
BY DEF Stages, StageName, StageOf

\* The job of one process decides over the stage of this process alone.
LEMMA StagesLocal ==
    ASSUME TypeOK, NEW p \in Procs, NEW j, Goto(p, j)
    PROVE  /\ Stages[p] = StageOf(job[p])
           /\ Stages' = [Stages EXCEPT ![p] = StageOf(j)]
<1>1. Stages' = [q \in Procs |-> StageOf(job'[q])]
    BY DEF Stages, StageName, StageOf
<1>2. job'[p] = j /\ \A q \in Procs \ {p}: job'[q] = job[q]
    BY DEF TypeOK, Goto
<1>3. QED
    BY <1>1, <1>2, StagesOfJobs

LEMMA InitIsMediaInit == Init => Media!MInit
<1> SUFFICES ASSUME Init PROVE Media!MInit
    OBVIOUS
<1>1. \A p \in Procs: StageOf(job[p]) = Media!Resting /\ ~report[p].done
    BY NoJobType, StageOfSteps DEF Init
<1>2. QED
    BY <1>1, StagesOfJobs DEF Media!MInit, Got

\* A start begins a run.
LEMMA StartBegins ==
    ASSUME PipelineInv, NEW p \in Procs, NEW t \in Tracks, NEW f \in Formats, Start(p, t, f)
    PROVE  Media!Begin(p, f)
<1> DEFINE j == [NoJob EXCEPT !.pc = "stage", !.track = t, !.format = f]
<1>1. TypeOK /\ Goto(p, j) /\ job[p].pc = "idle"
      /\ report' = [report EXCEPT ![p] = NoReport]
    BY DEF Start, PipelineInv
<1>2. j.pc = "stage" /\ j.format = f
    BY DEF NoJob
<1> HIDE DEF j
<1>3. Stages[p] = Media!Resting /\ Stages' = [Stages EXCEPT ![p] = Media!At("stage", f)]
    BY <1>1, <1>2, StagesLocal, StageOfSteps
<1>4. Got' = [Got EXCEPT ![p] = "none"]
    BY <1>1, NoJobType DEF Got, TypeOK
<1>5. QED
    BY <1>3, <1>4 DEF Media!Begin

\* A step that neither starts nor ends a run goes on to the next stage or
\* stays where it is.
LEMMA StepGoesOn ==
    ASSUME PipelineInv, NEW p \in Procs,
           \/ StageSegment(p) \/ ReadSegment(p) \/ WriteMedia(p)
           \/ ReadInput(p) \/ WriteOutput(p) \/ NextConversion(p)
    PROVE  \/ \E f \in Formats: Media!GoOn(p, f)
           \/ UNCHANGED Media!mvars
<1> DEFINE f == job[p].format
<1>1. /\ TypeOK /\ job[p] \in Jobs /\ f \in Formats
      /\ job[p].pc \in {"open", "convert", "close"} => job[p].goal \in {"m4a", f}
    BY DEF PipelineInv, TypeOK, RunShape, Jobs
<1>2. UNCHANGED Got
    BY DEF StageSegment, ReadSegment, WriteMedia, ReadInput, WriteOutput, NextConversion, Got
<1>3. UNCHANGED Stages => UNCHANGED Media!mvars
    BY <1>2 DEF Media!mvars
<1>4. ASSUME NEW move \in Media!Onward(f),
             Stages[p] = Media!At(move[1], f),
             Stages' = [Stages EXCEPT ![p] = Media!At(move[2], f)]
      PROVE  Media!GoOn(p, f)
    BY <1>2, <1>4 DEF Media!GoOn
<1>5. ASSUME NEW j, Goto(p, j), StageOf(j) = StageOf(job[p])
      PROVE  UNCHANGED Stages
    BY <1>1, <1>5, StagesLocal, StagesOfJobs
<1>6. CASE StageSegment(p)
    <2> DEFINE staged == [job[p] EXCEPT !.pc = "assemble", !.next = 1]
               further == [job[p] EXCEPT !.next = @ + 1]
    <2>1. Goto(p, staged) \/ Goto(p, further)
        BY <1>6 DEF StageSegment
    <2>2. /\ job[p].pc = "stage"
          /\ staged.pc = "assemble" /\ staged.format = f
          /\ further.pc = "stage" /\ further.format = f
        BY <1>1, <1>6 DEF StageSegment, Jobs
    <2> HIDE DEF staged, further
    <2>3. CASE Goto(p, staged)
        <3>1. /\ Stages[p] = Media!At("stage", f)
              /\ Stages' = [Stages EXCEPT ![p] = Media!At("assemble", f)]
            BY <1>1, <2>2, <2>3, StagesLocal, StageOfSteps
        <3>2. <<"stage", "assemble">> \in Media!Onward(f)
            BY DEF Media!Onward
        <3>3. QED
            BY <1>1, <1>4, <3>1, <3>2
    <2>4. CASE Goto(p, further)
        <3>1. StageOf(further) = StageOf(job[p])
            BY <2>2, StageOfSteps
        <3>2. QED
            BY <1>3, <1>5, <2>4, <3>1
    <2>5. QED
        BY <2>1, <2>3, <2>4
<1>7. CASE ReadSegment(p)
    <2> DEFINE joined == [job[p] EXCEPT !.pc = "join", !.next = 1,
                                        !.parts = Append(@, seg[job[p].next])]
               further == [job[p] EXCEPT !.next = @ + 1,
                                         !.parts = Append(@, seg[job[p].next])]
    <2>1. Goto(p, joined) \/ Goto(p, further)
        BY <1>7 DEF ReadSegment
    <2>2. /\ job[p].pc = "assemble"
          /\ joined.pc = "join" /\ joined.format = f
          /\ further.pc = "assemble" /\ further.format = f
        BY <1>1, <1>7 DEF ReadSegment, Jobs
    <2> HIDE DEF joined, further
    <2>3. StageOf(joined) = StageOf(job[p]) /\ StageOf(further) = StageOf(job[p])
        BY <2>2, StageOfSteps
    <2>4. QED
        BY <1>3, <1>5, <2>1, <2>3
<1>8. CASE WriteMedia(p)
    <2> DEFINE k == [job[p] EXCEPT !.pc = "open", !.goal = "m4a"]
    <2>1. Goto(p, k) /\ job[p].pc = "join"
        BY <1>8 DEF WriteMedia
    <2>2. k.pc = "open" /\ k.goal = "m4a" /\ k.format = f
        BY <1>1 DEF Jobs
    <2> HIDE DEF k
    <2>3. /\ Stages[p] = Media!At("assemble", f)
          /\ Stages' = [Stages EXCEPT ![p] = Media!At("remux", f)]
        BY <1>1, <2>1, <2>2, StagesLocal, StageOfSteps
    <2>4. <<"assemble", "remux">> \in Media!Onward(f)
        BY DEF Media!Onward
    <2>5. QED
        BY <1>1, <1>4, <2>3, <2>4
<1>9. CASE ReadInput(p)
    <2> DEFINE k == [job[p] EXCEPT !.pc = "convert", !.input = Source(p)]
    <2>1. Goto(p, k) /\ job[p].pc = "open"
        BY <1>9 DEF ReadInput
    <2>2. k.pc = "convert" /\ k.goal = job[p].goal /\ k.format = f
        BY <1>1 DEF Jobs
    <2> HIDE DEF k
    <2>3. StageOf(k) = StageOf(job[p])
        BY <2>1, <2>2, StageOfSteps
    <2>4. QED
        BY <1>3, <1>5, <2>1, <2>3
<1>10. CASE WriteOutput(p)
    <2> DEFINE k == [job[p] EXCEPT !.pc = "close"]
    <2>1. Goto(p, k) /\ job[p].pc = "convert"
        BY <1>10 DEF WriteOutput
    <2>2. k.pc = "close" /\ k.goal = job[p].goal /\ k.format = f
        BY <1>1 DEF Jobs
    <2> HIDE DEF k
    <2>3. StageOf(k) = StageOf(job[p])
        BY <2>1, <2>2, StageOfSteps
    <2>4. QED
        BY <1>3, <1>5, <2>1, <2>3
<1>11. CASE NextConversion(p)
    <2> DEFINE k == [job[p] EXCEPT !.pc = "open", !.goal = job[p].format, !.input = <<>>]
    <2>1. Goto(p, k) /\ job[p].pc = "close" /\ job[p].goal # f
        BY <1>11 DEF NextConversion
    <2>2. k.pc = "open" /\ k.goal = f /\ k.format = f
        BY <1>1 DEF Jobs
    <2>3. job[p].goal = "m4a" /\ f # "m4a"
        BY <1>1, <2>1
    <2> HIDE DEF k
    <2>4. /\ Stages[p] = Media!At("remux", f)
          /\ Stages' = [Stages EXCEPT ![p] = Media!At("export", f)]
        BY <1>1, <2>1, <2>2, <2>3, StagesLocal, StageOfSteps
    <2>5. <<"remux", "export">> \in Media!Onward(f)
        BY <2>3 DEF Media!Onward
    <2>6. QED
        BY <1>1, <1>4, <2>4, <2>5
<1>12. QED
    BY <1>6, <1>7, <1>8, <1>9, <1>10, <1>11

\* A result is delivered from the last stage and of the format asked for.
LEMMA SucceedDelivers ==
    ASSUME PipelineInv, NEW p \in Procs, Succeed(p)
    PROVE  \E f \in Formats: Media!Deliver(p, f)
<1> DEFINE f == job[p].format
<1>1. /\ TypeOK /\ f \in Formats
      /\ Goto(p, NoJob) /\ job[p].pc = "close" /\ job[p].goal = f
    BY DEF Succeed, PipelineInv, TypeOK, Jobs
<1>2. /\ Stages[p] = Media!At(IF f = "m4a" THEN "remux" ELSE "export", f)
      /\ Stages' = [Stages EXCEPT ![p] = Media!Resting]
    BY <1>1, NoJobType, StagesLocal, StageOfSteps
<1>3. /\ report'[p].done /\ report'[p].format = f
      /\ \A q \in Procs \ {p}: report'[q] = report[q]
    BY <1>1 DEF Succeed, TypeOK
<1>4. Got' = [Got EXCEPT ![p] = f]
    BY <1>3 DEF Got
<1>5. Media!Deliver(p, f)
    BY <1>2, <1>4 DEF Media!Deliver
<1>6. QED
    BY <1>1, <1>5

LEMMA StepImplementsMediaRun == PipelineInv /\ [Next]_vars => [Media!MNext]_(Media!mvars)
<1> SUFFICES ASSUME PipelineInv, [Next]_vars
             PROVE  Media!MNext \/ UNCHANGED Media!mvars
    OBVIOUS
<1>1. ASSUME NEW p \in Procs, Fail(p) \/ Crash(p)
      PROVE  Media!Break(p)
    <2>1. TypeOK /\ Goto(p, NoJob) /\ UNCHANGED report
        BY <1>1 DEF Fail, Crash, PipelineInv
    <2>2. Stages' = [Stages EXCEPT ![p] = Media!Resting]
        BY <2>1, NoJobType, StagesLocal, StageOfSteps
    <2>3. QED
        BY <2>1, <2>2 DEF Media!Break, Got
<1>2. CASE UNCHANGED vars
    BY <1>2 DEF vars, Media!mvars, Stages, StageName, Got
<1>3. QED
    BY <1>1, <1>2, StartBegins, StepGoesOn, SucceedDelivers DEF Next, Proceed, Media!MNext

\* The pipeline implements the stages of a media run, for any number of
\* processes, tracks and segments: no run goes back a stage or leaves one
\* out, and what it reports is of the format it was asked for.
THEOREM PipelineImplementsMediaRun == Spec => ImplementsMediaRun
<1>1. QED
    BY InitIsMediaInit, StepImplementsMediaRun, PipelineInvariant, PTL
       DEF Spec, ImplementsMediaRun, Media!MSpec
=============================================================================
