------------------------------ MODULE MediaRun ------------------------------
(***************************************************************************)
(* The media half of `download track` as the stages of a run: segments are *)
(* staged and joined, the joined file is remuxed and, unless the remuxed   *)
(* file is what was asked for, exported.  Any stage may fail; a run never  *)
(* goes back a stage or leaves one out, and what it delivers is of the     *)
(* format it was asked for.                                                *)
(*                                                                         *)
(* DownloadWorkflow, which sees a stage as one call, and ArtifactPipeline, *)
(* which looks inside the stages and has many runs at a time, implement    *)
(* it both: this is what the two models have to agree on.                  *)
(***************************************************************************)

CONSTANTS
    Runners,     \* whoever runs downloads, one at a time
    Formats,
    Remuxed,     \* the format that the remuxer makes
    Nothing      \* no format

VARIABLES
    stage,       \* the stage each runner is in, and the format it is to deliver
    got          \* the format that its last run has delivered

mvars == <<stage, got>>

At(name, f) == [name |-> name, format |-> f]
Resting == At("idle", Nothing)

MInit ==
    /\ stage = [r \in Runners |-> Resting]
    /\ got = [r \in Runners |-> Nothing]

Begin(r, f) ==
    /\ stage[r] = Resting
    /\ stage' = [stage EXCEPT ![r] = At("stage", f)]
    /\ got' = [got EXCEPT ![r] = Nothing]

Onward(f) ==
    {<<"stage", "assemble">>, <<"assemble", "remux">>}
        \cup (IF f = Remuxed THEN {} ELSE {<<"remux", "export">>})

GoOn(r, f) ==
    /\ \E move \in Onward(f):
          /\ stage[r] = At(move[1], f)
          /\ stage' = [stage EXCEPT ![r] = At(move[2], f)]
    /\ UNCHANGED got

Deliver(r, f) ==
    /\ stage[r] = At(IF f = Remuxed THEN "remux" ELSE "export", f)
    /\ stage' = [stage EXCEPT ![r] = Resting]
    /\ got' = [got EXCEPT ![r] = f]

Break(r) ==
    /\ stage' = [stage EXCEPT ![r] = Resting]
    /\ UNCHANGED got

MNext ==
    \E r \in Runners:
        \/ \E f \in Formats: Begin(r, f) \/ GoOn(r, f) \/ Deliver(r, f)
        \/ Break(r)

MSpec == MInit /\ [][MNext]_mvars

=============================================================================
