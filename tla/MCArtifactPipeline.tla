------------------------- MODULE MCArtifactPipeline -------------------------
(* Two processes, a track of two segments and one of one segment, so that   *)
(* runs overwrite each other's first segment and leave a stale second one.  *)
EXTENDS ArtifactPipeline, TLC

CONSTANTS p1, p2, long, short

MCProcs == {p1, p2}
MCTracks == {long, short}
MCSegs == long :> 2 @@ short :> 1

\* Processes are interchangeable.
MCSymmetry == Permutations(MCProcs)

\* The liveness run: one segment each, which both runs overwrite.
MCOneSegment == long :> 1 @@ short :> 1
=============================================================================
