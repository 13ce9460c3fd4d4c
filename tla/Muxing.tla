------------------------------- MODULE Muxing -------------------------------
(***************************************************************************)
(* The muxing programs: muxing_mp4, which encodes the frames of two files,  *)
(* and muxing_flv_ffmpeg4, which encodes pictures and tones it makes up.    *)
(* Each turn of their loops encodes one frame of the stream that is behind  *)
(* and writes the packets that the encoder gives.                           *)
(*                                                                         *)
(* Packets come out of an encoder in order and are counted only.  An        *)
(* encoder, external here, may refuse a frame, and a packet may fail to be  *)
(* written; receiving from it does not fail.  The loops start after         *)
(* everything has been opened.                                              *)
(***************************************************************************)
EXTENDS Integers

CONSTANTS
    VideoTime,   \* video_frame_duration
    AudioTime,   \* audio_frame_duration
    MaxFrames,   \* the most frames in a file that muxing_mp4 reads
    Duration,    \* STREAM_DURATION
    Delay        \* how many frames an encoder may hold back

ASSUME MuxingAssumption ==
    /\ VideoTime \in Nat \ {0} /\ AudioTime \in Nat \ {0}
    /\ MaxFrames \in Nat /\ Duration \in Nat /\ Delay \in Nat

VARIABLES
    length,    \* frames in in_yuv_fd and in_pcm_fd
    read,      \* frames read from them, or made up
    next_pts,  \* video_pts and audio_pts; next_pts of the OutputStreams
    held,      \* frames in the encoder
    finish,    \* video_finish and audio_finish; ~encode_video and ~encode_audio
    written,   \* packets in the file
    lost,      \* history: frames refused, and packets that could not be written
    flushes,   \* history: how often the encoder was flushed
    file       \* the file: being written, complete, or given up

Streams == {"video", "audio"}
Time == [video |-> VideoTime, audio |-> AudioTime]

input   == <<length, read, next_pts>>
output  == <<held, written, lost>>
muxVars == <<input, output, finish, flushes, file>>

Encoding(s) == file = "open" /\ ~finish[s]

-----------------------------------------------------------------------------
(* muxing_mp4                                                              *)

\* Mutant: without a look at the time stamps.
Mp4Chosen_AudioFirst(s) ==
    IF s = "video" THEN finish["audio"] ELSE ~finish["audio"]

\* The stream whose turn it is: video when audio is ahead or at its end.
Mp4Chosen(s) ==
    LET video == ~finish["video"] /\ (next_pts["audio"] > next_pts["video"] \/ finish["audio"])
    IN IF s = "video" THEN video ELSE ~video

\* The encoder keeps `kept` of `n` frames; of the packets of the others, some are written.
Receive(s, n, kept) ==
    /\ held' = [held EXCEPT ![s] = kept]
    /\ \E w \in 0..(n - kept) :
          /\ written' = [written EXCEPT ![s] = @ + w]
          /\ lost' = [lost EXCEPT ![s] = @ + (n - kept - w)]

\* A whole frame was read: Encode, and SendPacket of all that comes out.
Mp4Frame(s) ==
    /\ Encoding(s)
    /\ Mp4Chosen(s)
    /\ read[s] < length[s]
    /\ read' = [read EXCEPT ![s] = @ + 1]
    /\ next_pts' = [next_pts EXCEPT ![s] = @ + Time[s]]
    /\ \/ \E kept \in 0..Delay :
             /\ kept <= held[s] + 1
             /\ Receive(s, held[s] + 1, kept)
       \/ /\ lost' = [lost EXCEPT ![s] = @ + 1]          \* avcodec_send_frame failed
          /\ UNCHANGED <<held, written>>
    /\ UNCHANGED <<length, finish, flushes, file>>

\* Mutant: the end of one file is the end of both.
Mp4Flush_EndsBoth(s) ==
    /\ Encoding(s)
    /\ Mp4Chosen(s)
    /\ read[s] = length[s]
    /\ finish' = [r \in Streams |-> TRUE]
    /\ next_pts' = [next_pts EXCEPT ![s] = @ + Time[s]]
    /\ flushes' = [flushes EXCEPT ![s] = @ + 1]
    /\ Receive(s, held[s], 0)
    /\ UNCHANGED <<length, read, file>>

\* No whole frame is left: Encode(NULL), once.
Mp4Flush(s) ==
    /\ Encoding(s)
    /\ Mp4Chosen(s)
    /\ read[s] = length[s]
    /\ finish' = [finish EXCEPT ![s] = TRUE]
    /\ next_pts' = [next_pts EXCEPT ![s] = @ + Time[s]]
    /\ flushes' = [flushes EXCEPT ![s] = @ + 1]
    /\ Receive(s, held[s], 0)
    /\ UNCHANGED <<length, read, file>>

-----------------------------------------------------------------------------
(* muxing_flv_ffmpeg4                                                      *)

\* av_compare_ts: video when it is not ahead.
FlvChosen(s) ==
    LET video == ~finish["video"] /\ (finish["audio"] \/ next_pts["video"] <= next_pts["audio"])
    IN IF s = "video" THEN video ELSE ~video

\* The one packet that avcodec_encode_video2 or avcodec_encode_audio2 may give of n frames.
Write(s, n, got) ==
    /\ held' = [held EXCEPT ![s] = n - got]
    /\ written' = [written EXCEPT ![s] = @ + got]
    /\ UNCHANGED lost

\* write_video_frame and write_audio_frame while get_..._frame makes frames.
FlvFrame(s) ==
    /\ Encoding(s)
    /\ FlvChosen(s)
    /\ next_pts[s] < Duration
    /\ read' = [read EXCEPT ![s] = @ + 1]
    /\ next_pts' = [next_pts EXCEPT ![s] = @ + Time[s]]
    /\ \E got \in {0, 1} :
          /\ held[s] + 1 - got <= Delay
          /\ Write(s, held[s] + 1, got)
    /\ UNCHANGED <<length, finish, flushes, file>>

\* Without a frame: the encoder is flushed, a packet each time, until none comes.
FlvFlush(s) ==
    /\ Encoding(s)
    /\ FlvChosen(s)
    /\ next_pts[s] >= Duration
    /\ IF held[s] > 0
       THEN Write(s, held[s], 1) /\ UNCHANGED finish
       ELSE finish' = [finish EXCEPT ![s] = TRUE] /\ UNCHANGED output
    /\ flushes' = [flushes EXCEPT ![s] = @ + 1]
    /\ UNCHANGED <<input, file>>

\* Encoding or writing fails: exit(1).
FlvFails(s) ==
    /\ Encoding(s)
    /\ FlvChosen(s)
    /\ file' = "given up"
    /\ UNCHANGED <<input, output, finish, flushes>>

-----------------------------------------------------------------------------
\* The loops end when both streams have, and the trailer is written.
SendTrailer ==
    /\ file = "open"
    /\ \A s \in Streams : finish[s]
    /\ file' = "complete"
    /\ UNCHANGED <<input, output, finish, flushes>>

MuxInit ==
    /\ length \in [Streams -> 0..MaxFrames]
    /\ read = [s \in Streams |-> 0]
    /\ next_pts = [s \in Streams |-> 0]
    /\ held = [s \in Streams |-> 0]
    /\ finish = [s \in Streams |-> FALSE]
    /\ written = [s \in Streams |-> 0]
    /\ lost = [s \in Streams |-> 0]
    /\ flushes = [s \in Streams |-> 0]
    /\ file = "open"

-----------------------------------------------------------------------------
(* Properties                                                              *)

MuxTypeOK ==
    /\ length \in [Streams -> 0..MaxFrames]
    /\ read \in [Streams -> Nat] /\ next_pts \in [Streams -> Nat]
    /\ held \in [Streams -> 0..Delay]
    /\ finish \in [Streams -> BOOLEAN]
    /\ written \in [Streams -> Nat] /\ lost \in [Streams -> Nat] /\ flushes \in [Streams -> Nat]
    /\ file \in {"open", "complete", "given up"}

\* As long as both streams are encoded, neither is ahead of the other by more than one
\* frame of its own, although their frames last differently: what is encoded next is
\* what comes first (08-03-muxing_flv-ffmpeg4x.h:725, muxing_mp4.cpp:188).
InStep ==
    ~finish["video"] /\ ~finish["audio"] =>
        /\ next_pts["audio"] - next_pts["video"] <= AudioTime
        /\ next_pts["video"] - next_pts["audio"] <= VideoTime
=============================================================================
