---------------------------- MODULE AudioLibrary ----------------------------
(***************************************************************************)
(* What the media half of `download track` promises the user: one audio    *)
(* file per format, which always holds one whole recording once there is   *)
(* one, and results that name nothing but what the run itself published.   *)
(*                                                                         *)
(* Nothing is said of how a recording is made: segments, the assembled     *)
(* file and ffmpeg belong to ArtifactPipeline, which implements this.      *)
(***************************************************************************)

CONSTANTS
    Clients,       \* whoever publishes files and is told results
    Formats,
    Recordings,    \* complete renderings of a track
    NoFile         \* there is no file yet

VARIABLES
    file,    \* the audio file of each format
    hand,    \* what each client published last and has not answered for
    told     \* the last result each client was told

lvars == <<file, hand, told>>

\* Nothing published, nothing told, or the recording put under a format.
Nothing == [some |-> FALSE]
Entry(f, r) == [some |-> TRUE, format |-> f, recording |-> r]

LInit ==
    /\ file = [f \in Formats |-> NoFile]
    /\ hand = [c \in Clients |-> Nothing]
    /\ told = [c \in Clients |-> Nothing]

\* A new run takes back the result of the one before.
Begin(c) ==
    /\ told' = [told EXCEPT ![c] = Nothing]
    /\ UNCHANGED <<file, hand>>

\* A whole recording takes the place of the file of its format, in one step.
Publish(c, f, r) ==
    /\ file' = [file EXCEPT ![f] = r]
    /\ hand' = [hand EXCEPT ![c] = Entry(f, r)]
    /\ UNCHANGED told

\* The run fails, dies, or goes on to another format.
Forget(c) ==
    /\ hand' = [hand EXCEPT ![c] = Nothing]
    /\ UNCHANGED <<file, told>>

\* The run answers with what it published last.
Tell(c) ==
    /\ hand[c].some
    /\ told' = [told EXCEPT ![c] = hand[c]]
    /\ hand' = [hand EXCEPT ![c] = Nothing]
    /\ UNCHANGED file

LNext ==
    \E c \in Clients:
        \/ Begin(c)
        \/ \E f \in Formats, r \in Recordings: Publish(c, f, r)
        \/ Forget(c)
        \/ Tell(c)

LSpec == LInit /\ [][LNext]_lvars

=============================================================================
