-------------------------------- MODULE Mixer --------------------------------
(***************************************************************************)
(* audio_mix: two files are read side by side, put into the inputs of an    *)
(* AudioMixer, and what the mixer has ready is written after each reading.  *)
(*                                                                         *)
(* Sound is counted in samples at the rate of the inputs; the filters       *)
(* behind amix change the rate and keep nothing back.  Of amix, in the mode *)
(* `longest`, the model has the rule by which it cuts its output into       *)
(* frames.                                                                 *)
(***************************************************************************)
EXTENDS Integers, Sequences

CONSTANTS
    Chunk,      \* samples in PCM1_FRAME_SIZE, and in PCM2_FRAME_SIZE
    OutMax,     \* samples for which getFrame is given room (10240 bytes)
    MaxLength   \* the longest file

ASSUME MixerAssumption ==
    /\ Chunk \in Nat \ {0} /\ OutMax \in Nat /\ MaxLength \in Nat
    /\ Chunk <= OutMax    \* there is room for a chunk

VARIABLES
    total,     \* samples in the files
    left,      \* samples not yet read
    ended,     \* file1_finish and file2_finish
    mixing,    \* where audio_mix is: reading, getting frames, or done
    frames,    \* amix: frame_list, what is left of each frame of input 1
    waiting,   \* amix: samples in the fifo of input 2
    closed,    \* amix: the inputs that were flushed
    mixed,     \* samples written
    failed     \* history: addFrame failed

mixVars == <<total, left, ended, mixing, frames, waiting, closed, mixed, failed>>

Files == {1, 2}

Lesser(a, b)  == IF a < b THEN a ELSE b
Greater(a, b) == IF a < b THEN b ELSE a

\* fread: samples of the next chunk.
Got(i) == Lesser(Chunk, left[i])

-----------------------------------------------------------------------------
(* amix                                                                    *)

\* An input that was flushed stays on until its samples are used up.
On2 == 2 \notin closed \/ waiting > 0

\* Input 2 is on, and has too little for the next frame of input 1.
Short == On2 /\ waiting < Head(frames)

\* output_frame: samples of the next output frame, 0 when there is none.
FrameSize ==
    IF 1 \in closed THEN waiting
    ELSE IF frames = <<>> THEN 0
    ELSE IF ~Short THEN Head(frames)
    ELSE IF 2 \in closed THEN waiting ELSE 0

\* frame_list_remove_samples, whose list counts only while input 1 is on, and
\* av_audio_fifo_read.
Remove(n) ==
    /\ frames' = IF 1 \in closed THEN frames
                 ELSE IF n = Head(frames) THEN Tail(frames)
                 ELSE <<Head(frames) - n>> \o Tail(frames)
    /\ waiting' = IF On2 THEN waiting - n ELSE waiting

-----------------------------------------------------------------------------
(* audio_mix                                                               *)

\* Both files are at their end.
ReadNothing ==
    /\ mixing = "read"
    /\ \A i \in Files : Got(i) = 0
    /\ mixing' = "done"
    /\ UNCHANGED <<total, left, ended, frames, waiting, closed, mixed, failed>>

\* Mutant: the file that has ended is not flushed.
ReadBoth_NoFlush ==
    /\ mixing = "read"
    /\ \E i \in Files : Got(i) > 0
    /\ left' = [i \in Files |-> left[i] - Got(i)]
    /\ frames' = IF Got(1) > 0 THEN Append(frames, Got(1)) ELSE frames
    /\ waiting' = waiting + Got(2)
    /\ ended' = ended \cup {i \in Files : Got(i) = 0}
    /\ mixing' = "get"
    /\ UNCHANGED <<total, closed, mixed, failed>>

\* Mutant: the end of the first file is put as an empty frame.
ReadBoth_EmptyFrame ==
    /\ mixing = "read"
    /\ \E i \in Files : Got(i) > 0
    /\ left' = [i \in Files |-> left[i] - Got(i)]
    /\ frames' = Append(frames, Got(1))
    /\ waiting' = waiting + Got(2)
    /\ ended' = ended \cup {i \in Files : Got(i) = 0}
    /\ closed' = closed \cup {i \in Files : Got(i) = 0 /\ i \notin ended}
    /\ mixing' = "get"
    /\ UNCHANGED <<total, mixed, failed>>

\* A chunk of each file goes to the mixer; a file that has none any more is flushed once.
ReadBoth ==
    /\ mixing = "read"
    /\ \E i \in Files : Got(i) > 0
    /\ left' = [i \in Files |-> left[i] - Got(i)]
    /\ frames' = IF Got(1) > 0 THEN Append(frames, Got(1)) ELSE frames
    /\ waiting' = waiting + Got(2)
    /\ ended' = ended \cup {i \in Files : Got(i) = 0}
    /\ closed' = closed \cup {i \in Files : Got(i) = 0 /\ i \notin ended}
    /\ mixing' = "get"
    /\ UNCHANGED <<total, mixed, failed>>

\* addFrame fails for a chunk: the loop is left.
AddFails ==
    /\ mixing = "read"
    /\ \E i \in Files : Got(i) > 0
    /\ left' = [i \in Files |-> left[i] - Got(i)]
    /\ failed' = TRUE
    /\ mixing' = "done"
    /\ UNCHANGED <<total, ended, frames, waiting, closed, mixed>>

\* getFrame: a frame for which there is no room is gone.
GetFrame ==
    /\ mixing = "get"
    /\ FrameSize > 0
    /\ Remove(FrameSize)
    /\ mixed' = IF FrameSize > OutMax THEN mixed ELSE mixed + FrameSize
    /\ UNCHANGED <<total, left, ended, mixing, closed, failed>>

GetNothing ==
    /\ mixing = "get"
    /\ FrameSize = 0
    /\ mixing' = "read"
    /\ UNCHANGED <<total, left, ended, frames, waiting, closed, mixed, failed>>

MixInit ==
    /\ total \in [Files -> 0..MaxLength]
    /\ left = total
    /\ ended = {}
    /\ mixing = "read"
    /\ frames = <<>>
    /\ waiting = 0
    /\ closed = {}
    /\ mixed = 0
    /\ failed = FALSE

-----------------------------------------------------------------------------
(* Properties                                                              *)

MixTypeOK ==
    /\ total \in [Files -> 0..MaxLength] /\ left \in [Files -> 0..MaxLength]
    /\ ended \subseteq Files /\ closed \subseteq Files
    /\ mixing \in {"read", "get", "done"}
    /\ frames \in Seq(1..Chunk)
    /\ waiting \in Nat
    /\ mixed \in Nat
    /\ failed \in BOOLEAN

\* The mix goes on when one file has ended, up to the end of the longer one: all that may
\* be missing is from where the shorter one ends, less than two chunks.
MixGoesOn ==
    mixing = "done" /\ ~failed =>
        /\ mixed <= Greater(total[1], total[2])
        /\ mixed > Greater(total[1], total[2]) - 2 * Chunk
=============================================================================
