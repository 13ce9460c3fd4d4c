----------------------------- MODULE Companions -----------------------------
(***************************************************************************)
(* The programs beside the player.  The main functions of ffmpeg4-muxer and *)
(* ffmpeg-demuxer run the one of their programs whose call is not commented *)
(* out, and saveKeyFrameImg is one more; here any of them all is run.       *)
(***************************************************************************)
EXTENDS Muxing, Mixer, Decoding

VARIABLE program   \* which of them

vars == <<program, muxVars, mixVars, decVars>>

Decoders ==
    {"decode_audio", "avio_decode_audio", "demux_mp4", "saveAACFromMediaFile",
     "getkeyFrameToBitmap", "encode_audio", "filterYuv"}

Programs ==
    {"muxing_mp4", "muxing_flv_ffmpeg4", "audio_mix"} \cup Decoders

\* Files that the program does not read are taken as short.
Init ==
    /\ program \in Programs
    /\ MuxInit
    /\ MixInit
    /\ DecodeInit(program = "decode_audio")
    /\ program # "muxing_mp4" => \A s \in Streams : length[s] = 0
    /\ program # "audio_mix" => \A i \in Files : total[i] = 0
    /\ program \notin Decoders => content = 1

Mp4 == program = "muxing_mp4" /\ UNCHANGED <<program, mixVars, decVars>>
Flv == program = "muxing_flv_ffmpeg4" /\ UNCHANGED <<program, mixVars, decVars>>
Mix == program = "audio_mix" /\ UNCHANGED <<program, muxVars, decVars>>

Run(ps) == program \in ps /\ UNCHANGED <<program, muxVars, mixVars>>

Next ==
    \/ \E s \in Streams : Mp4Frame(s) /\ Mp4
    \/ \E s \in Streams : Mp4Flush(s) /\ Mp4
    \/ SendTrailer /\ Mp4
    \/ \E s \in Streams : FlvFrame(s) /\ Flv
    \/ \E s \in Streams : FlvFlush(s) /\ Flv
    \/ \E s \in Streams : FlvFails(s) /\ Flv
    \/ SendTrailer /\ Flv
    \/ ReadNothing /\ Mix
    \/ ReadBoth /\ Mix
    \/ AddFails /\ Mix
    \/ GetFrame /\ Mix
    \/ GetNothing /\ Mix
    \/ ParsePart /\ Run({"decode_audio"})
    \/ ParseFrame /\ Run({"decode_audio"})
    \/ EndOfBytes /\ Run({"decode_audio"})
    \/ DecodeFails /\ Run({"decode_audio"})
    \/ DecodePacket /\ Run({"avio_decode_audio"})
    \/ DrainAtEnd /\ Run({"avio_decode_audio", "encode_audio"})
    \/ EncodeFrame /\ Run({"encode_audio"})
    \/ EncodeFails /\ Run({"encode_audio"})
    \/ FilterFrame /\ Run({"filterYuv"})
    \/ FilterFails /\ Run({"filterYuv"})
    \/ SaveAudio /\ Run({"demux_mp4", "saveAACFromMediaFile"})
    \/ SaveVideo /\ Run({"demux_mp4"})
    \/ DecodeOne /\ Run({"getkeyFrameToBitmap"})
    \/ SkipPacket /\ Run({"demux_mp4", "saveAACFromMediaFile", "getkeyFrameToBitmap"})
    \/ Finish /\ Run({"demux_mp4", "saveAACFromMediaFile", "getkeyFrameToBitmap", "filterYuv"})

Spec == Init /\ [][Next]_vars

\* The program is one thread, which goes on.
FairSpec == Spec /\ WF_vars(Next)

-----------------------------------------------------------------------------
(* Properties *)

\* The variables have their types; encoders and decoders hold no more than their delay,
\* and data_size stays within the buffer.
TypeOK == MuxTypeOK /\ MixTypeOK /\ DecodeTypeOK

\* Each stream is whole in the file: every frame of both inputs was read however early the
\* other one ended, both encoders were flushed, by muxing_mp4 once, and nothing is left
\* in them.
Muxed ==
    /\ file = "complete"
    /\ \A s \in Streams :
          /\ written[s] + lost[s] = read[s] /\ held[s] = 0
          /\ IF program = "muxing_mp4"
             THEN read[s] = length[s] /\ flushes[s] = 1
             ELSE next_pts[s] >= Duration

\* Of a file that was taken apart nothing is missing but what was refused, and: the last
\* frame of a raw stream, when it is in the parser; the first picture, in demux_mp4; the
\* frames that the decoder holds, in getkeyFrameToBitmap.
TakenApart ==
    /\ decoding = "done"
    /\ unread = 0 /\ data_size = 0
    /\ saved + unused + delayed = found
    /\ program = "decode_audio" => given + partial = content
    /\ program # "getkeyFrameToBitmap" => delayed = 0
    /\ program = "demux_mp4" => unused = IF filtering THEN 1 ELSE 0
    /\ program \in {"encode_audio", "saveAACFromMediaFile", "filterYuv"} => unused = 0

\* The programs come to their end, with the input read to its end and whole in the output
\* (muxing_mp4.cpp:184, 08-03-muxing_flv-ffmpeg4x.h:722, 07-05-decode_audio.h:187,
\* 0709-avio_decode_audio.h:178, 07-08-demuex-mp4.h:192), or give up with an error.
FileComplete ==
    <>(IF program \in Decoders
       THEN TakenApart \/ decoding = "given up"
       ELSE mixing = "done" \/ file = "given up" \/ Muxed)
=============================================================================
