------------------------------ MODULE Decoding ------------------------------
(***************************************************************************)
(* The small programs that read a file to its end.  decode_audio, and       *)
(* decode_video with the same loop, find the frames of a raw stream with a  *)
(* parser behind a buffer of their own; avio_decode_audio and               *)
(* getkeyFrameToBitmap decode the packets of a demuxer; demux_mp4 and       *)
(* saveAACFromMediaFile write them to files; encode_audio, and encode_video *)
(* with the same loop, encode a file of raw frames; filterYuv puts one      *)
(* through a graph of filters.                                             *)
(*                                                                         *)
(* Bytes, packets and frames are counted.  Demuxer, parser, codec and the   *)
(* bit stream filter are external: a parser keeps what is not yet a whole   *)
(* frame, a codec holds back some frames and may refuse a packet.  Files    *)
(* are not empty, and the loops start after everything has been opened.     *)
(***************************************************************************)
EXTENDS Integers

CONSTANTS
    InBuf,      \* AUDIO_INBUF_SIZE, VIDEO_INBUF_SIZE
    Refill,     \* AUDIO_REFILL_THRESH, VIDEO_REFILL_THRESH
    Reorder,    \* how many frames a codec may hold back
    MaxContent  \* the longest file, in bytes, packets or raw frames

ASSUME DecodingAssumption ==
    /\ InBuf \in Nat /\ Refill \in Nat /\ 0 < Refill /\ Refill <= InBuf
    /\ Reorder \in Nat /\ MaxContent \in Nat \ {0}

VARIABLES
    content,   \* bytes, packets or frames in the file
    unread,    \* those not yet read
    data,      \* data - inbuf
    data_size, \* data_size
    partial,   \* bytes in the parser
    given,     \* history: bytes that came out of it in packets
    found,     \* history: packets of the streams that count
    delayed,   \* frames in the codec
    saved,     \* frames that came out, key frames or not, or packets written
    unused,    \* history: packets refused, and the one with which the filter is made
    filtering, \* bsf # NULL
    decoding   \* the program: reading, done, or given up

parser  == <<data, data_size, partial, given>>
decoder == <<delayed, saved, unused>>
decVars == <<content, unread, parser, found, decoder, filtering, decoding>>

Fewer(a, b) == IF a < b THEN a ELSE b

Reading == decoding = "reading"

\* One goes into the codec, and all that is ready comes out.
Through ==
    \E kept \in 0..Reorder :
        /\ kept <= delayed + 1
        /\ delayed' = kept
        /\ saved' = saved + delayed + 1 - kept
        /\ UNCHANGED unused

\* decode, of a packet, which is lost when it is refused.
Decode ==
    /\ found' = found + 1
    /\ \/ Through
       \/ unused' = unused + 1 /\ UNCHANGED <<delayed, saved>>

\* decode, or encode, without data: the rest comes out.
Drain ==
    /\ delayed' = 0
    /\ saved' = saved + delayed
    /\ decoding' = "done"

-----------------------------------------------------------------------------
(* decode_audio, decode_video                                              *)

\* n bytes are used; what is left is moved to the front when it is little.
Consume(n) ==
    LET rest == data_size - n
        len == IF rest < Refill THEN Fewer(InBuf - rest, unread) ELSE 0
    IN  /\ data' = IF rest < Refill THEN 0 ELSE data + n
        /\ data_size' = rest + len
        /\ unread' = unread - len

\* The parser keeps all bytes: the frame goes on.
ParsePart ==
    /\ Reading
    /\ data_size > 0
    /\ Consume(data_size)
    /\ partial' = partial + data_size
    /\ UNCHANGED <<content, given, found, decoder, filtering, decoding>>

\* It finds the end of a frame, which may lie before these bytes.
ParseFrame ==
    /\ Reading
    /\ data_size > 0
    /\ \E n \in 0..data_size :
        /\ partial + n > 0
        /\ Consume(n)
        /\ given' = given + partial + n
    /\ partial' = 0
    /\ Decode
    /\ UNCHANGED <<content, filtering, decoding>>

\* Nothing is left: the decoder is drained; the parser is not asked.
EndOfBytes ==
    /\ Reading
    /\ data_size = 0
    /\ Drain
    /\ UNCHANGED <<content, unread, parser, found, unused, filtering>>

\* Parsing or decoding fails, the latter also when the decoder is drained: exit(1).
DecodeFails ==
    /\ Reading
    /\ decoding' = "given up"
    /\ UNCHANGED <<content, unread, parser, found, decoder, filtering>>

-----------------------------------------------------------------------------
(* The programs with a demuxer                                             *)

\* av_read_frame gives one more packet.
NextPacket == Reading /\ unread > 0 /\ unread' = unread - 1

AtEnd == Reading /\ unread = 0

\* avio_decode_audio
DecodePacket ==
    /\ NextPacket
    /\ Decode
    /\ UNCHANGED <<content, parser, filtering, decoding>>

DrainAtEnd ==
    /\ AtEnd
    /\ Drain
    /\ UNCHANGED <<content, unread, parser, found, unused, filtering>>

\* getkeyFrameToBitmap: after each packet one frame is asked for.
DecodeOne ==
    /\ NextPacket
    /\ found' = found + 1
    /\ \E sent, got \in {0, 1} :
        /\ delayed + sent - got \in 0..Reorder
        /\ delayed' = delayed + sent - got
        /\ saved' = saved + got
        /\ unused' = unused + 1 - sent
    /\ UNCHANGED <<content, parser, filtering, decoding>>

\* A packet of another stream.
SkipPacket ==
    /\ NextPacket
    /\ UNCHANGED <<content, parser, found, decoder, filtering, decoding>>

\* demux_mp4, saveAACFromMediaFile: sound goes to its file.
SaveAudio ==
    /\ NextPacket
    /\ found' = found + 1
    /\ saved' = saved + 1
    /\ UNCHANGED <<content, parser, delayed, unused, filtering, decoding>>

\* video_pkt_saveto_h264_file makes the filter of the first packet and uses it from the
\* next one on.
SaveVideo ==
    /\ NextPacket
    /\ found' = found + 1
    /\ filtering' = TRUE
    /\ IF filtering THEN saved' = saved + 1 /\ UNCHANGED unused
                    ELSE unused' = unused + 1 /\ UNCHANGED saved
    /\ UNCHANGED <<content, parser, delayed, decoding>>

\* getkeyFrameToBitmap, demux_mp4, saveAACFromMediaFile and filterYuv end.
Finish ==
    /\ AtEnd
    /\ decoding' = "done"
    /\ UNCHANGED <<content, unread, parser, found, decoder, filtering>>

-----------------------------------------------------------------------------
(* encode_audio, encode_video                                              *)

EncodeFrame ==
    /\ NextPacket
    /\ found' = found + 1
    /\ Through
    /\ UNCHANGED <<content, parser, filtering, decoding>>

\* The encoder fails: the loop is left, and what it still gives is written.
EncodeFails ==
    /\ NextPacket
    /\ found' = found + 1
    /\ unused' = unused + 1
    /\ delayed' = 0
    /\ \E n \in 0..delayed : saved' = saved + n
    /\ decoding' = "given up"
    /\ UNCHANGED <<content, parser, filtering>>

-----------------------------------------------------------------------------
(* filterYuv                                                               *)

\* A frame goes into the graph, and one comes out, yuv420p as the sink was asked for.
FilterFrame ==
    /\ NextPacket
    /\ found' = found + 1
    /\ saved' = saved + 1
    /\ UNCHANGED <<content, parser, delayed, unused, filtering, decoding>>

\* The graph takes none, or gives none yet: the loop is left.
FilterFails ==
    /\ NextPacket
    /\ found' = found + 1
    /\ unused' = unused + 1
    /\ decoding' = "given up"
    /\ UNCHANGED <<content, parser, delayed, saved, filtering>>

-----------------------------------------------------------------------------
\* fread of the first bytes, for the programs that parse.
DecodeInit(parses) ==
    /\ content \in 1..MaxContent
    /\ data_size = IF parses THEN Fewer(InBuf, content) ELSE 0
    /\ unread = content - data_size
    /\ data = 0
    /\ partial = 0
    /\ given = 0
    /\ found = 0
    /\ delayed = 0
    /\ saved = 0
    /\ unused = 0
    /\ filtering = FALSE
    /\ decoding = "reading"

-----------------------------------------------------------------------------
(* Properties                                                              *)

\* data and data_size stay within inbuf.
DecodeTypeOK ==
    /\ content \in 1..MaxContent /\ unread \in 0..MaxContent
    /\ data \in Nat /\ data_size \in Nat /\ data + data_size <= InBuf
    /\ partial \in Nat /\ given \in Nat /\ found \in Nat
    /\ delayed \in 0..Reorder /\ saved \in Nat /\ unused \in Nat
    /\ filtering \in BOOLEAN
    /\ decoding \in {"reading", "done", "given up"}
=============================================================================
