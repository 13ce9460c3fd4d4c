---------------------------- MODULE MCFrameQueue ----------------------------
(***************************************************************************)
(* FrameQueue.tla on a small ring: three slots and enough frames to go      *)
(* around the ring and once more.  stream_open (3595, 3599) makes the       *)
(* picture queue, which video_refresh polls, and the sample queue, at which *)
(* the audio callback blocks; one of the two is chosen at the start.  The   *)
(* actions in which the two differ are there twice.                         *)
(***************************************************************************)
EXTENDS FrameQueue

VARIABLE sampq  \* the queue is the sample queue

Sampq == INSTANCE FrameQueue WITH ReaderBlocks <- TRUE

MCvars == <<vars, sampq>>

MCInit == Init /\ sampq \in BOOLEAN

Pictures == ~sampq /\ UNCHANGED sampq
Samples  == sampq /\ UNCHANGED sampq
Either   == UNCHANGED sampq

MCNext ==
    \/ Either /\ Decoded
    \/ Either /\ DecodeAborted
    \/ Either /\ PeekWritable
    \/ Either /\ GetWritable
    \/ Either /\ Fill
    \/ Either /\ PushIndex
    \/ Either /\ PushSize
    \/ Pictures /\ PeekFrames
    \/ Pictures /\ ShowLonger
    \/ Samples /\ Sampq!Silence
    \/ Samples /\ Sampq!PeekReadable
    \/ Samples /\ Sampq!GetReadable
    \/ Either /\ NextShown
    \/ Either /\ NextUnref
    \/ Either /\ NextRindex
    \/ Either /\ NextSize
    \/ Pictures /\ AbortQueue
    \/ Samples /\ Sampq!AbortQueue
    \/ Either /\ SignalFrames
    \/ Either /\ JoinWriter
    \/ Either /\ StopCallbacks
    \/ Either /\ CloseReader
    \/ Pictures /\ Reopen
    \/ Samples /\ Sampq!Reopen

MCReaderStep == (Pictures /\ ReaderStep) \/ (Samples /\ Sampq!ReaderStep)

MCSpec ==
    /\ MCInit
    /\ [][MCNext]_MCvars
    /\ WF_MCvars(Either /\ Decodes)
    /\ WF_MCvars(rpc # "idle" /\ MCReaderStep)
    /\ WF_MCvars(Either /\ Closes)
=============================================================================
