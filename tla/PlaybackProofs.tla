--------------------------- MODULE PlaybackProofs ---------------------------
(***************************************************************************)
(* Theorems about Playback.tla, for any number of streams, any sizes of    *)
(* the queues, any file and any number of seeks: the serial numbers keep   *)
(* apart what was read before a seek and what was read after it.           *)
(*                                                                         *)
(* The argument.  The flush packet that raises the serial of a queue goes  *)
(* in first, as the queue has just been emptied, and stays its head until  *)
(* the decoder takes it (StaleInv).  So a decoder whose pkt_serial is not  *)
(* the queue's meets a flush packet before any data, and one whose         *)
(* pkt_serial is the queue's has a codec that was reset for it (CodecInv). *)
(* The decoder uses what it has compared after the serial may have changed *)
(* again; what it then holds is all of one, older, serial, and is labelled *)
(* so (HandInv, CodecInv).                                                 *)
(***************************************************************************)
EXTENDS Playback, TLAPS

------------------------------------------------------------------------------
(* The inductive invariant *)

(* While read_thread carries out a seek, the queues it has still to treat  *)
(* are one serial behind.                                                  *)
PhaseInv == \A s \in Streams :
    serial[s] = IF rpc \in {"flush", "put flush"} /\ s \in todo THEN epoch ELSE epoch + 1

(* Between packet_queue_flush and the flush packet the queue is empty. *)
NowInv == rpc = "put flush" => \E s \in todo : now = {s} /\ queue[s] = <<>>

(* What is queued is of the serial of the queue; a flush packet is at the  *)
(* head, and not taken yet.                                                *)
QueueInv(s) == \A i \in 1 .. Len(queue[s]) :
    /\ queue[s][i].serial = serial[s]
    /\ queue[s][i].kind # "none"
    /\ queue[s][i].kind = "data" => queue[s][i].epoch + 1 = serial[s]
    /\ queue[s][i].kind = "flush" => i = 1 /\ pkt_serial[s] < serial[s]

(* A decoder behind the queue finds the flush packet next. *)
StaleInv(s) ==
    /\ pkt_serial[s] <= serial[s]
    /\ pkt_serial[s] < serial[s] =>
          \/ queue[s] = <<>> /\ rpc = "put flush" /\ s \in now
          \/ queue[s] # <<>> /\ queue[s][1].kind = "flush"

(* The packet in the hands of the decoder *)
HandInv(s) ==
    /\ ~packet_pending[s]
    /\ dpc[s] \in {"check", "receive", "push", "get"} => pkt[s].kind = "none"
    /\ dpc[s] \in {"compare", "send"} => pkt[s].kind # "none"
    /\ dpc[s] = "again" /\ pkt[s].kind = "none" => pkt_serial[s] < serial[s]
    /\ pkt[s].kind = "data" => pkt[s].epoch + 1 = pkt_serial[s]

(* The codec holds data of one serial, but for the time between taking the *)
(* flush packet and resetting the codec.                                   *)
Clean(s) == \A i \in 1 .. Len(codec[s]) : codec[s][i].epoch + 1 = pkt_serial[s]

CodecInv(s) ==
    /\ dpc[s] \in {"receive", "push"} => Clean(s)
    /\ dpc[s] = "send" /\ pkt[s].kind # "flush" => Clean(s)
    /\ pkt_serial[s] = serial[s] /\ pkt[s].kind # "flush" => Clean(s)

(* The codec is ready for a packet whenever it is given one. *)
Ready(s) == Len(codec[s]) <= CodecDelay /\ ~draining[s]

ReadyInv(s) ==
    /\ dpc[s] = "send" /\ pkt[s].kind # "flush" => Ready(s)
    /\ /\ dpc[s] \in {"get", "compare", "again"}
       /\ pkt_serial[s] = serial[s] /\ pkt[s].kind # "flush"
       => Ready(s)

(* The frames on their way to the consumer *)
FrameInv(s) ==
    /\ dpc[s] = "push" => frame[s].epoch + 1 = pkt_serial[s]
    /\ \A i \in 1 .. Len(frames[s]) : frames[s][i].serial = frames[s][i].epoch + 1

StreamInv(s) == /\ QueueInv(s) /\ StaleInv(s) /\ HandInv(s)
                /\ CodecInv(s) /\ ReadyInv(s) /\ FrameInv(s)

IInv == TypeOK /\ PhaseInv /\ NowInv /\ \A s \in Streams : StreamInv(s)

------------------------------------------------------------------------------
(* Sequences *)

(* What taking the head of a sequence and appending to it leave. *)
LEMMA TakeHead ==
    ASSUME NEW T, NEW q \in Seq(T), q # <<>>
    PROVE  /\ Head(q) \in T /\ Head(q) = q[1]
           /\ Tail(q) \in Seq(T)
           /\ Len(q) \in Nat /\ Len(q) > 0 /\ Len(Tail(q)) = Len(q) - 1
           /\ \A i \in 1 .. Len(q) - 1 : Tail(q)[i] = q[i + 1]
OBVIOUS

(* One element more at the end of a sequence of frames or packets. *)
LEMMA AppendOne ==
    ASSUME NEW T, NEW q \in Seq(T), NEW e \in T
    PROVE  /\ Append(q, e) \in Seq(T)
           /\ Len(q) \in Nat /\ Len(Append(q, e)) = Len(q) + 1
           /\ \A i \in 1 .. Len(q) : Append(q, e)[i] = q[i]
           /\ Append(q, e)[Len(q) + 1] = e
OBVIOUS

(* A longer codec than the delay is not empty. *)
LEMMA CodecFilled ==
    ASSUME NEW q \in Seq(Frames), Len(q) > CodecDelay
    PROVE  q # <<>>
BY SizesAssumption

(* Changing a function of the streams at one of them *)
LEMMA Change ==
    ASSUME NEW T, NEW f \in [Streams -> T], NEW s \in Streams, NEW e \in T
    PROVE  /\ [f EXCEPT ![s] = e] \in [Streams -> T]
           /\ [f EXCEPT ![s] = e][s] = e
           /\ \A t \in Streams : t # s => [f EXCEPT ![s] = e][t] = f[t]
OBVIOUS

------------------------------------------------------------------------------
(* Types *)

(* The places of a decoder thread *)
Places == {"check", "receive", "push", "get", "compare", "again", "send"}

(* The placeholders for "no packet" and "no frame" have the types of packets and frames. *)
LEMMA NoPacketType == NoPacket \in Packets /\ NoFrame \in Frames
BY DEF NoPacket, Packet, Packets, NoFrame, Frame, Frames

(* decoder_decode_frame compares the serials: only the place changes. *)
LEMMA CheckSerialType == ASSUME TypeOK, NEW s \in Streams, CheckSerial(s) PROVE TypeOK'
BY DEF TypeOK, CheckSerial, readVars, userVars, history

(* avcodec_receive_frame: a frame, the end of the file, or nothing. *)
LEMMA ReceiveFrameType == ASSUME TypeOK, NEW s \in Streams, ReceiveFrame(s) PROVE TypeOK'
<1>0. codec \in [Streams -> Seq(Frames)] /\ frame \in [Streams -> Frames]
  BY DEF TypeOK
<1>1. codec[s] \in Seq(Frames) /\ pkt_serial[s] \in Int
  BY DEF TypeOK
<1>2. codec[s] # <<>> => Head(codec[s]) \in Frames /\ Tail(codec[s]) \in Seq(Frames)
  BY <1>1, TakeHead, Zenon
<1>3. Len(codec[s]) > CodecDelay => codec[s] # <<>>
  BY <1>1, CodecFilled, Zenon
<1>4. codec' \in [Streams -> Seq(Frames)]
  <2>1. \/ codec' = codec
        \/ codec[s] # <<>> /\ codec' = [codec EXCEPT ![s] = Tail(codec[s])]
    BY <1>3, Zenon DEF ReceiveFrame
  <2> QED BY <2>1, <1>2, <1>0
<1>5. frame' \in [Streams -> Frames]
  <2>1. \/ UNCHANGED <<frame, codec>>
        \/ codec[s] # <<>> /\ frame' = [frame EXCEPT ![s] = Head(codec[s])]
    BY <1>3, Zenon DEF ReceiveFrame
  <2> QED BY <2>1, <1>2, <1>0
<1>6. draining' \in [Streams -> BOOLEAN] /\ finished' \in [Streams -> Int] /\ dpc' \in [Streams -> Places]
  BY <1>1 DEF TypeOK, ReceiveFrame, Places
<1>7. UNCHANGED <<queue, serial, pkt_serial, pkt, packet_pending, leaked, frames, readVars,
                  userVars, history>>
  BY DEF ReceiveFrame
<1> QED BY <1>4, <1>5, <1>6, <1>7 DEF TypeOK, Places, readVars, userVars, history

(* get_video_frame drops a late frame: it is counted and forgotten. *)
LEMMA DropEarlyType == ASSUME TypeOK, NEW s \in Streams, DropEarly(s) PROVE TypeOK'
BY NoPacketType DEF TypeOK, DropEarly, readVars, userVars

(* queue_picture and its like: the frame in hand goes to the end of the frame queue. *)
LEMMA PushFrameType ==
    ASSUME TypeOK, NEW s \in Streams, FrameInv(s), PushFrame(s) PROVE TypeOK'
<1>0. frames \in [Streams -> Seq(Frames)]
  BY DEF TypeOK
<1>2. frame[s] \in Frames /\ frame[s].epoch + 1 = pkt_serial[s]
  BY DEF TypeOK, PushFrame, FrameInv
<1>3. Frame(pkt_serial[s], frame[s].epoch, frame[s].n) \in Frames
  BY <1>2 DEF Frame, Frames
<1>4. frames[s] \in Seq(Frames)
  BY DEF TypeOK
<1> DEFINE pushed == Append(frames[s], Frame(pkt_serial[s], frame[s].epoch, frame[s].n))
<1>5. pushed \in Seq(Frames) /\ Len(frames[s]) \in Nat /\ Len(pushed) = Len(frames[s]) + 1
  BY <1>3, <1>4, AppendOne
<1>6. frames' = [frames EXCEPT ![s] = pushed] /\ Len(frames[s]) < FrameCap
  BY DEF PushFrame
<1> HIDE DEF pushed
<1>7. /\ frames' \in [Streams -> Seq(Frames)] /\ frames'[s] = pushed
      /\ \A t \in Streams : t # s => frames'[t] = frames[t]
  BY <1>5, <1>6, <1>0
<1>8. Len(pushed) <= FrameCap
  BY <1>5, <1>6, SizesAssumption
<1>9. \A t \in Streams : Len(frames'[t]) <= FrameCap
  BY <1>7, <1>8, Zenon DEF TypeOK
<1> QED BY NoPacketType, <1>7, <1>9 DEF TypeOK, PushFrame, readVars, userVars, history

(* The pending packet, or the first of the packet queue, comes in hand. *)
LEMMA GetPacketType == ASSUME TypeOK, NEW s \in Streams, GetPacket(s) PROVE TypeOK'
<1>0. queue \in [Streams -> Seq(Packets)] /\ pkt \in [Streams -> Packets]
      /\ pkt_serial \in [Streams -> Int]
  BY DEF TypeOK
<1>1. queue[s] # <<>> => Head(queue[s]) \in Packets /\ Tail(queue[s]) \in Seq(Packets)
  BY TakeHead, Zenon DEF TypeOK
<1>2. queue[s] # <<>> => Head(queue[s]).serial \in Int
  BY <1>1 DEF Packets
<1>3. \/ UNCHANGED <<queue, pkt, pkt_serial>>
      \/ /\ queue[s] # <<>>
         /\ pkt' = [pkt EXCEPT ![s] = Head(queue[s])]
         /\ pkt_serial' = [pkt_serial EXCEPT ![s] = Head(queue[s]).serial]
         /\ queue' = [queue EXCEPT ![s] = Tail(queue[s])]
  BY Zenon DEF GetPacket
<1>4. /\ queue' \in [Streams -> Seq(Packets)]
      /\ pkt' \in [Streams -> Packets]
  BY <1>0, <1>1, <1>3
<1>5. pkt_serial' \in [Streams -> Int]
  BY <1>0, <1>2, <1>3
<1>6. packet_pending' \in [Streams -> BOOLEAN] /\ dpc' \in [Streams -> Places]
  BY DEF TypeOK, GetPacket, Places
<1>7. UNCHANGED <<serial, finished, codec, draining, frame, leaked, frames, readVars, userVars,
                  history>>
  BY DEF GetPacket
<1> QED BY <1>4, <1>5, <1>6, <1>7 DEF TypeOK, Places, readVars, userVars, history

(* The loop condition: only the place changes. *)
LEMMA ComparePacketType == ASSUME TypeOK, NEW s \in Streams, ComparePacket(s) PROVE TypeOK'
BY NoPacketType DEF TypeOK, ComparePacket, readVars, userVars, history

(* The second reading of the serial: pkt is kept, or overwritten by the next packet. *)
LEMMA CompareAgainType == ASSUME TypeOK, NEW s \in Streams, CompareAgain(s) PROVE TypeOK'
<1>0. leaked \in [Streams -> BOOLEAN]
  BY DEF TypeOK
<1>1. pkt' \in [Streams -> Packets] /\ dpc' \in [Streams -> Places]
  <2>1. UNCHANGED <<leaked, pkt>> \/ pkt' = [pkt EXCEPT ![s] = NoPacket]
    BY Zenon DEF CompareAgain
  <2>2. dpc' = [dpc EXCEPT ![s] = "get"] \/ dpc' = [dpc EXCEPT ![s] = "send"]
    BY Zenon DEF CompareAgain
  <2>3. pkt \in [Streams -> Packets] /\ dpc \in [Streams -> Places]
    BY DEF TypeOK, Places
  <2> QED BY <2>1, <2>2, <2>3, NoPacketType DEF Places
<1>2. leaked' \in [Streams -> BOOLEAN]
  <2>1. leaked' = leaked \/ leaked' = [leaked EXCEPT ![s] = leaked[s] \/ pkt[s].kind = "data"]
    BY Zenon DEF CompareAgain
  <2>2. (leaked[s] \/ pkt[s].kind = "data") \in BOOLEAN
    BY Zenon
  <2> QED BY <2>1, <2>2, <1>0
<1>3. UNCHANGED <<queue, serial, pkt_serial, finished, packet_pending, codec, draining, frame,
                  frames, readVars, userVars, history>>
  BY DEF CompareAgain
<1> QED BY <1>1, <1>2, <1>3 DEF TypeOK, Places, readVars, userVars, history

(* A flush packet empties the codec and clears finished. *)
LEMMA FlushCodecType == ASSUME TypeOK, NEW s \in Streams, FlushCodec(s) PROVE TypeOK'
<1>0. codec \in [Streams -> Seq(Frames)]
  BY DEF TypeOK
<1>1. <<>> \in Seq(Frames)
  OBVIOUS
<1>2. codec' \in [Streams -> Seq(Frames)]
  BY <1>1, <1>0 DEF FlushCodec
<1>3. /\ draining' \in [Streams -> BOOLEAN] /\ finished' \in [Streams -> Int]
      /\ pkt' \in [Streams -> Packets] /\ dpc' \in [Streams -> Places]
  <2>1. /\ draining \in [Streams -> BOOLEAN] /\ finished \in [Streams -> Int]
        /\ pkt \in [Streams -> Packets] /\ dpc \in [Streams -> Places]
    BY DEF TypeOK, Places
  <2>2. /\ draining' = [draining EXCEPT ![s] = FALSE] /\ finished' = [finished EXCEPT ![s] = 0]
        /\ pkt' = [pkt EXCEPT ![s] = NoPacket] /\ dpc' = [dpc EXCEPT ![s] = "check"]
    BY DEF FlushCodec
  <2> QED BY <2>1, <2>2, NoPacketType DEF Places
<1>4. UNCHANGED <<queue, serial, pkt_serial, packet_pending, frame, leaked, frames, readVars,
                  userVars, history>>
  BY DEF FlushCodec
<1> QED BY <1>2, <1>3, <1>4 DEF TypeOK, Places, readVars, userVars, history

(* avcodec_send_packet: taken into the codec, or kept as pending. *)
LEMMA SendPacketType == ASSUME TypeOK, NEW s \in Streams, SendPacket(s) PROVE TypeOK'
<1>0. codec \in [Streams -> Seq(Frames)] /\ draining \in [Streams -> BOOLEAN]
  BY DEF TypeOK
<1>1. codec[s] \in Seq(Frames) /\ pkt[s] \in Packets
  BY DEF TypeOK
<1>2. Frame(0, pkt[s].epoch, pkt[s].n) \in Frames
  BY <1>1 DEF Packets, Frame, Frames
<1>3. Append(codec[s], Frame(0, pkt[s].epoch, pkt[s].n)) \in Seq(Frames)
  BY <1>1, <1>2, AppendOne
<1>4. codec' \in [Streams -> Seq(Frames)]
  <2>1. \/ codec' = codec
        \/ codec' = [codec EXCEPT ![s] = Append(codec[s], Frame(0, pkt[s].epoch, pkt[s].n))]
    BY Zenon DEF SendPacket
  <2> QED BY <2>1, <1>3, <1>0
<1>5. draining' \in [Streams -> BOOLEAN]
  <2>1. \/ draining' = draining
        \/ draining' = [draining EXCEPT ![s] = draining[s] \/ pkt[s].kind = "null"]
    BY Zenon DEF SendPacket
  <2>2. (draining[s] \/ pkt[s].kind = "null") \in BOOLEAN
    BY Zenon
  <2> QED BY <2>1, <2>2, <1>0
<1>6. /\ pkt' \in [Streams -> Packets] /\ packet_pending' \in [Streams -> BOOLEAN]
      /\ dpc' \in [Streams -> Places]
  <2>1. UNCHANGED <<pkt, codec, draining>> \/ pkt' = [pkt EXCEPT ![s] = NoPacket]
    BY Zenon DEF SendPacket
  <2>2. \/ packet_pending' = packet_pending
        \/ packet_pending' = [packet_pending EXCEPT ![s] = TRUE]
    BY Zenon DEF SendPacket
  <2>3. dpc' = [dpc EXCEPT ![s] = "check"]
    BY DEF SendPacket
  <2>4. /\ pkt \in [Streams -> Packets] /\ packet_pending \in [Streams -> BOOLEAN]
        /\ dpc \in [Streams -> Places]
    BY DEF TypeOK, Places
  <2>5. pkt' \in [Streams -> Packets]
    BY <2>1, <2>4, NoPacketType
  <2>6. packet_pending' \in [Streams -> BOOLEAN]
    BY <2>2, <2>4
  <2>7. dpc' \in [Streams -> Places]
    BY <2>3, <2>4 DEF Places
  <2> QED BY <2>5, <2>6, <2>7
<1>7. UNCHANGED <<queue, serial, pkt_serial, finished, frame, leaked, frames, readVars,
                  userVars, history>>
  BY DEF SendPacket
<1> QED BY <1>4, <1>5, <1>6, <1>7 DEF TypeOK, Places, readVars, userVars, history

(* The reader of the frame queue takes its first frame or skips it as stale. *)
LEMMA ConsumeType == ASSUME TypeOK, NEW s \in Streams, Consume(s) PROVE TypeOK'
<1>0. frames \in [Streams -> Seq(Frames)]
  BY DEF TypeOK
<1>1. frames[s] \in Seq(Frames) /\ frames[s] # <<>> /\ Len(frames[s]) <= FrameCap
  BY DEF TypeOK, Consume
<1>2. /\ Head(frames[s]) \in Frames /\ Tail(frames[s]) \in Seq(Frames)
      /\ Len(frames[s]) \in Nat /\ Len(Tail(frames[s])) = Len(frames[s]) - 1
  BY <1>1, TakeHead
<1>3. /\ frames' \in [Streams -> Seq(Frames)] /\ frames'[s] = Tail(frames[s])
      /\ \A t \in Streams : t # s => frames'[t] = frames[t]
  BY <1>2, <1>0 DEF Consume
<1>4. Len(Tail(frames[s])) <= FrameCap
  BY <1>1, <1>2, SizesAssumption
<1>5. \A t \in Streams : Len(frames'[t]) <= FrameCap
  BY <1>3, <1>4, Zenon DEF TypeOK
<1>6. passed' \in [Streams -> Frames]
  BY <1>2 DEF TypeOK, Consume
<1> QED BY <1>3, <1>5, <1>6 DEF TypeOK, Consume, decVars, readVars, userVars

(* Putting a packet into a queue *)
LEMMA PutType ==
    ASSUME TypeOK, NEW s \in Streams, NEW p \in Packets
    PROVE  [queue EXCEPT ![s] = Append(queue[s], p)] \in [Streams -> Seq(Packets)]
<1>1. queue \in [Streams -> Seq(Packets)] /\ queue[s] \in Seq(Packets)
  BY DEF TypeOK
<1>2. Append(queue[s], p) \in Seq(Packets)
  BY <1>1, AppendOne
<1> QED BY <1>1, <1>2

(* avformat_seek_file: the reader gets the streams it has to flush. *)
LEMMA SeekFileType == ASSUME TypeOK, SeekFile PROVE TypeOK'
<1>1. epoch' \in Nat /\ remaining' \in [Streams -> Nat] /\ sent' \in [Streams -> Nat]
  <2>1. epoch \in Nat /\ remaining \in [Streams -> Nat] /\ sent \in [Streams -> Nat]
    BY DEF TypeOK
  <2>2. \/ UNCHANGED <<epoch, remaining, sent, todo>>
        \/ /\ epoch' = epoch + 1 /\ remaining' \in [Streams -> 0 .. MaxPackets]
           /\ sent' = [t \in Streams |-> 0]
    BY Zenon DEF SeekFile
  <2> QED BY <2>1, <2>2, SizesAssumption
<1>2. todo' \subseteq Streams /\ rpc' \in {"flush", "seeked"}
  BY DEF TypeOK, SeekFile
<1>3. UNCHANGED <<queue, serial, decVars, frames, now, eof, loops, ended, userVars, passed,
                  dropped>>
  BY DEF SeekFile
<1> QED BY <1>1, <1>2, <1>3 DEF TypeOK, decVars, userVars

(* packet_queue_flush empties one queue. *)
LEMMA FlushQueueType == ASSUME TypeOK, NEW s \in Streams, FlushQueue(s) PROVE TypeOK'
<1>1. queue \in [Streams -> Seq(Packets)]
  BY DEF TypeOK
<1>2. <<>> \in Seq(Packets)
  OBVIOUS
<1>3. queue' \in [Streams -> Seq(Packets)]
  BY <1>1, <1>2 DEF FlushQueue
<1> QED BY <1>3 DEF TypeOK, FlushQueue, decVars, userVars, history

(* packet_queue_put(&flush_pkt): the flush packet, under a new serial. *)
LEMMA PutFlushType == ASSUME TypeOK, NEW s \in Streams, PutFlush(s) PROVE TypeOK'
<1>1. serial \in [Streams -> Nat] /\ serial[s] + 1 \in Nat
  <2>1. serial \in [Streams -> Nat]
    BY DEF TypeOK
  <2> QED BY <2>1
<1>2. Packet("flush", serial[s] + 1, 0, 0) \in Packets
  BY <1>1 DEF Packet, Packets
<1>3. queue' \in [Streams -> Seq(Packets)]
  BY <1>2, PutType DEF PutFlush
<1>4. serial' \in [Streams -> Nat]
  BY <1>1 DEF PutFlush
<1>5. now' = {} /\ todo' \subseteq Streams /\ rpc' \in {"seeked", "flush"}
  BY DEF TypeOK, PutFlush
<1>6. UNCHANGED <<decVars, frames, eof, remaining, sent, loops, ended, userVars, history>>
  BY DEF PutFlush
<1> QED BY <1>3, <1>4, <1>5, <1>6 DEF TypeOK, decVars, userVars, history

(* av_read_frame and packet_queue_put: one packet more. *)
LEMMA ReadPacketType == ASSUME TypeOK, NEW s \in Streams, ReadPacket(s) PROVE TypeOK'
<1>1. /\ remaining \in [Streams -> Nat] /\ sent \in [Streams -> Nat]
      /\ remaining[s] - 1 \in Nat /\ sent[s] + 1 \in Nat
  BY DEF TypeOK, ReadPacket
<1>2. Packet("data", serial[s], epoch, sent[s] + 1) \in Packets
  BY <1>1 DEF TypeOK, Packet, Packets
<1>3. queue' \in [Streams -> Seq(Packets)]
  BY <1>2, PutType DEF ReadPacket, Put
<1>4. remaining' \in [Streams -> Nat] /\ sent' \in [Streams -> Nat]
  BY <1>1 DEF ReadPacket
<1>5. eof' = FALSE /\ rpc' = "top"
  BY DEF ReadPacket
<1>6. UNCHANGED <<serial, decVars, frames, todo, now, loops, ended, userVars, history>>
  BY DEF ReadPacket
<1> QED BY <1>3, <1>4, <1>5, <1>6 DEF TypeOK, decVars, userVars, history

(* packet_queue_put_nullpacket: one null packet more. *)
LEMMA PutNullType == ASSUME TypeOK, NEW s \in Streams, PutNull(s) PROVE TypeOK'
<1>1. Packet("null", serial[s], epoch, 0) \in Packets
  BY DEF TypeOK, Packet, Packets
<1>2. queue' \in [Streams -> Seq(Packets)]
  BY <1>1, PutType DEF PutNull, Put
<1>3. todo' \subseteq Streams /\ rpc' \in {"top", "null"}
  BY DEF TypeOK, PutNull
<1>4. eof' \in BOOLEAN
  BY Zenon DEF PutNull
<1>5. UNCHANGED <<serial, decVars, frames, now, remaining, sent, loops, ended, userVars, history>>
  BY DEF PutNull
<1> QED BY <1>2, <1>3, <1>4, <1>5 DEF TypeOK, decVars, userVars, history

(* The other steps of read_thread, and the user, touch no queue. *)
LEMMA QuietType ==
    ASSUME TypeOK,
           \/ SeekDone \/ NoSeek \/ CheckEnough \/ AllPlayed \/ ReadEof \/ RequestSeek
           \/ \E s \in Streams : CheckFinished(s) \/ CheckRemaining(s)
    PROVE  TypeOK'
<1>1. CASE SeekDone \/ NoSeek
  BY <1>1 DEF TypeOK, SeekDone, NoSeek, decVars, userVars, history
<1>2. CASE CheckEnough \/ ReadEof
  <2>1. rpc' \in {"top", "finished?", "null"} /\ todo' \subseteq Streams
    BY <1>2 DEF TypeOK, CheckEnough, ReadEof
  <2>2. UNCHANGED <<queue, serial, decVars, frames, now, eof, remaining, sent, loops, ended,
                    userVars, history>>
    BY <1>2 DEF CheckEnough, ReadEof
  <2> QED BY <2>1, <2>2 DEF TypeOK, decVars, userVars, history
<1>3. CASE AllPlayed
  <2>1. loops' \in Nat /\ seek_req' \in BOOLEAN /\ ended' \in BOOLEAN /\ rpc' \in {"read", "exited"}
    <3>1. loops \in Nat /\ seek_req \in BOOLEAN /\ ended \in BOOLEAN
      BY DEF TypeOK
    <3>2. CASE loops # 1
      <4>1. /\ loops' = (IF loops = 0 THEN 0 ELSE loops - 1) /\ seek_req' = TRUE
            /\ rpc' = "read" /\ ended' = ended
        BY <1>3, <3>2, Zenon DEF AllPlayed
      <4> QED BY <3>1, <4>1
    <3>3. CASE loops = 1
      <4>1. ended' = Autoexit /\ UNCHANGED <<loops, seek_req>> /\ rpc' \in {"read", "exited"}
        BY <1>3, <3>3 DEF AllPlayed
      <4> QED BY <3>1, <4>1, OptionsAssumption
    <3> QED BY <3>2, <3>3
  <2>2. UNCHANGED <<seeks, queue, serial, decVars, frames, todo, now, eof, remaining, sent, history>>
    BY <1>3 DEF AllPlayed
  <2> QED BY <2>1, <2>2 DEF TypeOK, decVars, history
<1>4. CASE RequestSeek
  <2>1. seeks \in Nat /\ seeks' = seeks + 1
    BY <1>4 DEF TypeOK, RequestSeek
  <2>2. seeks' \in Nat
    BY <2>1
  <2> QED BY <1>4, <2>2 DEF TypeOK, RequestSeek, decVars, readVars, history
<1>5. ASSUME NEW s \in Streams, CheckFinished(s) \/ CheckRemaining(s)
      PROVE  TypeOK'
  <2>1. /\ rpc' \in {"remaining?", "read", "all played", "finished?"}
        /\ todo' \subseteq Streams /\ now' \subseteq Streams
    BY <1>5 DEF TypeOK, CheckFinished, CheckRemaining
  <2>2. UNCHANGED <<queue, serial, decVars, frames, eof, remaining, sent, loops, ended, userVars,
                    history>>
    BY <1>5 DEF CheckFinished, CheckRemaining
  <2> QED BY <2>1, <2>2 DEF TypeOK, decVars, userVars, history
<1> QED BY <1>1, <1>2, <1>3, <1>4, <1>5
------------------------------------------------------------------------------
(* One stream at a time *)

(* What StreamInv(t) speaks of is left alone. *)
Same(t) ==
    /\ queue'[t] = queue[t] /\ serial'[t] = serial[t]
    /\ dpc'[t] = dpc[t] /\ pkt_serial'[t] = pkt_serial[t]
    /\ pkt'[t] = pkt[t] /\ packet_pending'[t] = packet_pending[t]
    /\ codec'[t] = codec[t] /\ draining'[t] = draining[t]
    /\ frame'[t] = frame[t] /\ frames'[t] = frames[t]
    /\ (rpc' = "put flush" /\ t \in now') <=> (rpc = "put flush" /\ t \in now)

(* A stream whose variables a step leaves alone keeps its invariant. *)
LEMMA SameKept == ASSUME NEW t, StreamInv(t), Same(t) PROVE StreamInv(t)'
BY Zenon DEF StreamInv, Same, QueueInv, StaleInv, HandInv, CodecInv, Clean, ReadyInv, Ready, FrameInv

(* A decoder or consumer step of one stream leaves the others alone. *)
LEMMA OthersSame ==
    ASSUME TypeOK, NEW s \in Streams, DecoderStep(s) \/ Consume(s),
           NEW t \in Streams, t # s
    PROVE  Same(t)
<1>1. CASE CheckSerial(s)
  BY <1>1 DEF TypeOK, CheckSerial, Same, readVars
<1>2. CASE ReceiveFrame(s)
  BY <1>2 DEF TypeOK, ReceiveFrame, Same, readVars
<1>3. CASE DropEarly(s)
  BY <1>3 DEF TypeOK, DropEarly, Same, readVars
<1>4. CASE PushFrame(s)
  BY <1>4 DEF TypeOK, PushFrame, Same, readVars
<1>5. CASE GetPacket(s)
  BY <1>5 DEF TypeOK, GetPacket, Same, readVars
<1>6. CASE ComparePacket(s)
  BY <1>6 DEF TypeOK, ComparePacket, Same, readVars
<1>7. CASE CompareAgain(s)
  BY <1>7 DEF TypeOK, CompareAgain, Same, readVars
<1>8. CASE FlushCodec(s)
  BY <1>8 DEF TypeOK, FlushCodec, Same, readVars
<1>9. CASE SendPacket(s)
  BY <1>9 DEF TypeOK, SendPacket, Same, readVars
<1>10. CASE Consume(s)
  BY <1>10 DEF TypeOK, Consume, Same, readVars, decVars
<1> QED BY <1>1, <1>2, <1>3, <1>4, <1>5, <1>6, <1>7, <1>8, <1>9, <1>10 DEF DecoderStep

(* CheckSerial ends in "receive" only with equal serials: HandInv and CodecInv need that. *)
LEMMA CheckSerialStream ==
    ASSUME TypeOK, NEW s \in Streams, StreamInv(s), CheckSerial(s) PROVE StreamInv(s)'
<1>1. /\ dpc[s] = "check" /\ dpc'[s] = (IF serial[s] = pkt_serial[s] THEN "receive" ELSE "get")
      /\ UNCHANGED <<queue, serial, pkt_serial, pkt, packet_pending, codec, draining, frame,
                     frames, rpc, now>>
  BY DEF TypeOK, CheckSerial, readVars
<1>2. serial[s] \in Nat /\ pkt_serial[s] \in Int
  BY DEF TypeOK
<1>3. QueueInv(s)' /\ StaleInv(s)' /\ FrameInv(s)'
  BY <1>1 DEF StreamInv, QueueInv, StaleInv, FrameInv
<1>4. HandInv(s)'
  BY <1>1 DEF StreamInv, HandInv
<1>5. CodecInv(s)'
  BY <1>1, <1>2 DEF StreamInv, CodecInv, Clean, HandInv
<1>6. ReadyInv(s)'
  BY <1>1, <1>2 DEF StreamInv, ReadyInv, Ready, HandInv
<1> QED BY <1>3, <1>4, <1>5, <1>6 DEF StreamInv

(* A frame taken from the codec carries its epoch and the serial of pkt_serial. *)
LEMMA ReceiveFrameStream ==
    ASSUME TypeOK, NEW s \in Streams, StreamInv(s), ReceiveFrame(s) PROVE StreamInv(s)'
<1>1. /\ dpc[s] = "receive"
      /\ UNCHANGED <<queue, serial, pkt_serial, pkt, packet_pending, frames, rpc, now>>
  BY DEF ReceiveFrame, readVars
<1>2. serial[s] \in Nat /\ pkt_serial[s] \in Int /\ codec[s] \in Seq(Frames)
  BY DEF TypeOK
<1>3. Clean(s) /\ pkt[s].kind = "none"
  BY <1>1 DEF StreamInv, CodecInv, HandInv
<1>4. QueueInv(s)' /\ StaleInv(s)'
  BY <1>1 DEF StreamInv, QueueInv, StaleInv
<1>5. CASE dpc'[s] = "push"
  <2>1. /\ Len(codec[s]) > CodecDelay \/ codec[s] # <<>>
        /\ frame'[s] = Head(codec[s]) /\ codec'[s] = Tail(codec[s])
    BY <1>1, <1>5 DEF ReceiveFrame, TypeOK
  <2>2. codec[s] # <<>>
    BY <1>2, <2>1, CodecFilled, Zenon
  <2>3. /\ Head(codec[s]) = codec[s][1] /\ Len(codec[s]) \in Nat /\ Len(codec[s]) > 0
        /\ Len(Tail(codec[s])) = Len(codec[s]) - 1
        /\ \A i \in 1 .. Len(codec[s]) - 1 : Tail(codec[s])[i] = codec[s][i + 1]
    BY <1>2, <2>2, TakeHead
  <2>4. Clean(s)' /\ frame'[s].epoch + 1 = pkt_serial'[s]
    BY <1>1, <1>3, <2>1, <2>3 DEF Clean
  <2> QED BY <1>1, <1>3, <1>4, <1>5, <2>4 DEF StreamInv, HandInv, CodecInv, ReadyInv, FrameInv
<1>6. CASE dpc'[s] # "push"
  <2>1. codec' = codec
    BY <1>6, <1>1 DEF ReceiveFrame, TypeOK
  <2>2. \/ dpc'[s] = "check"
        \/ dpc'[s] = "get" /\ ~draining[s] /\ Len(codec[s]) <= CodecDelay /\ draining' = draining
    BY <1>6, <1>1 DEF ReceiveFrame, TypeOK
  <2>3. Clean(s)'
    BY <1>1, <1>3, <2>1 DEF Clean
  <2> QED BY <1>1, <1>3, <1>4, <1>6, <2>1, <2>2, <2>3
          DEF StreamInv, HandInv, CodecInv, ReadyInv, Ready, FrameInv
<1> QED BY <1>5, <1>6

(* A dropped frame disturbs no queue. *)
LEMMA DropEarlyStream ==
    ASSUME TypeOK, NEW s \in Streams, StreamInv(s), DropEarly(s) PROVE StreamInv(s)'
<1>1. /\ dpc[s] = "push" /\ dpc'[s] = "check"
      /\ UNCHANGED <<queue, serial, pkt_serial, pkt, packet_pending, codec, draining, frames,
                     rpc, now>>
  BY DEF TypeOK, DropEarly, readVars
<1> QED BY <1>1 DEF StreamInv, QueueInv, StaleInv, HandInv, CodecInv, Clean, ReadyInv, Ready, FrameInv

(* FrameInv of the frame queue follows from ReadyInv of the frame in hand. *)
LEMMA PushFrameStream ==
    ASSUME TypeOK, NEW s \in Streams, StreamInv(s), PushFrame(s) PROVE StreamInv(s)'
<1> DEFINE f == Frame(pkt_serial[s], frame[s].epoch, frame[s].n)
<1>1. /\ dpc[s] = "push" /\ dpc'[s] = "check" /\ frames'[s] = Append(frames[s], f)
      /\ UNCHANGED <<queue, serial, pkt_serial, pkt, packet_pending, codec, draining, rpc, now>>
  BY DEF TypeOK, PushFrame, readVars
<1>2. QueueInv(s)' /\ StaleInv(s)' /\ HandInv(s)' /\ CodecInv(s)' /\ ReadyInv(s)'
  BY <1>1 DEF StreamInv, QueueInv, StaleInv, HandInv, CodecInv, Clean, ReadyInv, Ready
<1>3. frame[s] \in Frames /\ frame[s].epoch + 1 = pkt_serial[s]
  BY <1>1 DEF TypeOK, StreamInv, FrameInv
<1>4. f \in Frames /\ f.serial = f.epoch + 1
  BY <1>3 DEF Frame, Frames
<1>5. frames[s] \in Seq(Frames)
  BY DEF TypeOK
<1> HIDE DEF f
<1>6. /\ Len(frames[s]) \in Nat /\ Len(Append(frames[s], f)) = Len(frames[s]) + 1
      /\ \A i \in 1 .. Len(frames[s]) : Append(frames[s], f)[i] = frames[s][i]
      /\ Append(frames[s], f)[Len(frames[s]) + 1] = f
  BY <1>4, <1>5, AppendOne
<1>7. \A i \in 1 .. Len(frames[s]) : frames[s][i].serial = frames[s][i].epoch + 1
  BY DEF StreamInv, FrameInv
<1>8. FrameInv(s)'
  BY <1>1, <1>4, <1>6, <1>7 DEF FrameInv
<1> QED BY <1>2, <1>8 DEF StreamInv

(* The first packet of the queue has the queue label of its epoch: HandInv from QueueInv. *)
LEMMA GetPacketStream ==
    ASSUME TypeOK, NEW s \in Streams, StreamInv(s), GetPacket(s) PROVE StreamInv(s)'
<1>1. /\ dpc[s] = "get" /\ dpc'[s] = "compare"
      /\ UNCHANGED <<serial, codec, draining, frame, frames, rpc, now>>
  BY DEF TypeOK, GetPacket, readVars
<1>2. ~packet_pending[s] /\ pkt[s].kind = "none"
  BY <1>1 DEF StreamInv, HandInv
<1> DEFINE p == Head(queue[s])
<1>3. /\ queue[s] # <<>> /\ queue'[s] = Tail(queue[s])
      /\ pkt'[s] = p /\ pkt_serial'[s] = p.serial /\ packet_pending' = packet_pending
  BY <1>2 DEF TypeOK, GetPacket
<1>4. serial[s] \in Nat /\ pkt_serial[s] \in Int /\ queue[s] \in Seq(Packets)
  BY DEF TypeOK
<1>5. /\ p \in Packets /\ p = queue[s][1] /\ Len(queue[s]) \in Nat /\ Len(queue[s]) > 0
      /\ Len(Tail(queue[s])) = Len(queue[s]) - 1
      /\ \A i \in 1 .. Len(queue[s]) - 1 : Tail(queue[s])[i] = queue[s][i + 1]
  BY <1>3, <1>4, TakeHead
<1>6. p.serial = serial[s] /\ p.kind # "none" /\ (p.kind = "data" => p.epoch + 1 = serial[s])
  BY <1>5 DEF StreamInv, QueueInv
<1>7. p.kind # "flush" => pkt_serial[s] = serial[s]
  <2>1. pkt_serial[s] <= serial[s]
    BY DEF StreamInv, StaleInv
  <2>2. pkt_serial[s] < serial[s] => queue[s][1].kind = "flush"
    BY <1>3, Zenon DEF StreamInv, StaleInv
  <2>3. p.kind # "flush" => ~(pkt_serial[s] < serial[s])
    BY <1>5, <2>2, Zenon
  <2> QED BY <1>4, <2>1, <2>3
<1>8. pkt_serial'[s] = serial[s] /\ serial'[s] = serial[s]
  BY <1>1, <1>3, <1>6
<1> HIDE DEF p
<1>9. QueueInv(s)'
  <2> SUFFICES ASSUME NEW i \in 1 .. Len(queue[s]) - 1
               PROVE  /\ Tail(queue[s])[i].serial = serial[s]
                      /\ Tail(queue[s])[i].kind # "none"
                      /\ Tail(queue[s])[i].kind = "data" => Tail(queue[s])[i].epoch + 1 = serial[s]
                      /\ Tail(queue[s])[i].kind # "flush"
    BY <1>3, <1>5, <1>8 DEF QueueInv
  <2>1. Tail(queue[s])[i] = queue[s][i + 1] /\ i + 1 \in 1 .. Len(queue[s]) /\ i + 1 # 1
    BY <1>5
  <2> QED BY <2>1 DEF StreamInv, QueueInv
<1>10. StaleInv(s)'
  <2>1. pkt_serial'[s] <= serial'[s] /\ ~(pkt_serial'[s] < serial'[s])
    BY <1>4, <1>8
  <2> QED BY <2>1, Zenon DEF StaleInv
<1>11. HandInv(s)'
  BY <1>1, <1>2, <1>3, <1>6, <1>8 DEF HandInv
<1>12. p.kind # "flush" => Clean(s)' /\ Ready(s)'
  BY <1>1, <1>2, <1>7, <1>8 DEF StreamInv, CodecInv, ReadyInv, Clean, Ready
<1>13. CodecInv(s)' /\ ReadyInv(s)'
  BY <1>1, <1>3, <1>12 DEF CodecInv, ReadyInv
<1>14. FrameInv(s)'
  BY <1>1 DEF StreamInv, FrameInv
<1> QED BY <1>9, <1>10, <1>11, <1>13, <1>14 DEF StreamInv

(* A packet let through by the loop condition was of the current serial at that moment. *)
LEMMA ComparePacketStream ==
    ASSUME TypeOK, NEW s \in Streams, StreamInv(s), ComparePacket(s) PROVE StreamInv(s)'
<1>1. /\ dpc[s] = "compare" /\ dpc'[s] = "again"
      /\ UNCHANGED <<queue, serial, pkt_serial, packet_pending, codec, draining, frame, frames,
                     rpc, now>>
  BY DEF TypeOK, ComparePacket, readVars
<1>2. serial[s] \in Nat /\ pkt_serial[s] \in Int /\ pkt_serial[s] <= serial[s]
  BY DEF TypeOK, StreamInv, StaleInv
<1>3. QueueInv(s)' /\ StaleInv(s)' /\ FrameInv(s)'
  BY <1>1 DEF StreamInv, QueueInv, StaleInv, FrameInv
<1>4. /\ serial[s] = pkt_serial[s] => pkt'[s] = pkt[s]
      /\ serial[s] # pkt_serial[s] => pkt'[s] = NoPacket
  BY DEF TypeOK, ComparePacket
<1>5. pkt[s].kind # "none" /\ NoPacket.kind = "none"
  BY <1>1 DEF StreamInv, HandInv, NoPacket, Packet
<1>6. HandInv(s)'
  BY <1>1, <1>2, <1>4, <1>5 DEF StreamInv, HandInv
<1>7. Clean(s)' <=> Clean(s)
  BY <1>1 DEF Clean
<1>8. Ready(s)' <=> Ready(s)
  BY <1>1 DEF Ready
<1>9. CodecInv(s)' /\ ReadyInv(s)'
  BY <1>1, <1>2, <1>4, <1>7, <1>8 DEF StreamInv, CodecInv, ReadyInv
<1> QED BY <1>3, <1>6, <1>9 DEF StreamInv

(* The second reading can only send the decoder back for another packet. *)
LEMMA CompareAgainStream ==
    ASSUME TypeOK, NEW s \in Streams, StreamInv(s), CompareAgain(s) PROVE StreamInv(s)'
<1>1. /\ dpc[s] = "again"
      /\ UNCHANGED <<queue, serial, pkt_serial, packet_pending, codec, draining, frame, frames,
                     rpc, now>>
  BY DEF CompareAgain, readVars
<1>2. serial[s] \in Nat /\ pkt_serial[s] \in Int /\ pkt_serial[s] <= serial[s]
  BY DEF TypeOK, StreamInv, StaleInv
<1>3. QueueInv(s)' /\ StaleInv(s)' /\ FrameInv(s)'
  <2>1. dpc'[s] # "push"
    BY DEF TypeOK, CompareAgain
  <2> QED BY <1>1, <2>1 DEF StreamInv, QueueInv, StaleInv, FrameInv
<1>4. /\ serial[s] = pkt_serial[s] => dpc'[s] = "send" /\ pkt'[s] = pkt[s]
      /\ serial[s] # pkt_serial[s] => dpc'[s] = "get" /\ pkt'[s] = NoPacket
  BY DEF TypeOK, CompareAgain
<1>5. NoPacket.kind = "none"
  BY DEF NoPacket, Packet
<1>6. HandInv(s)'
  BY <1>1, <1>2, <1>4, <1>5 DEF StreamInv, HandInv
<1>7. Clean(s)' <=> Clean(s)
  BY <1>1 DEF Clean
<1>8. Ready(s)' <=> Ready(s)
  BY <1>1 DEF Ready
<1>9. CodecInv(s)' /\ ReadyInv(s)'
  BY <1>1, <1>2, <1>4, <1>7, <1>8 DEF StreamInv, CodecInv, ReadyInv
<1> QED BY <1>3, <1>6, <1>9 DEF StreamInv

(* After the flush the codec is empty, which CodecInv asks of a new epoch. *)
LEMMA FlushCodecStream ==
    ASSUME TypeOK, NEW s \in Streams, StreamInv(s), FlushCodec(s) PROVE StreamInv(s)'
<1>1. /\ dpc[s] = "send" /\ dpc'[s] = "check" /\ pkt'[s] = NoPacket
      /\ UNCHANGED <<queue, serial, pkt_serial, packet_pending, frame, frames, rpc, now>>
  BY DEF TypeOK, FlushCodec, readVars
<1>2. codec'[s] = <<>>
  BY DEF TypeOK, FlushCodec
<1>3. NoPacket.kind = "none"
  BY DEF NoPacket, Packet
<1>4. QueueInv(s)' /\ StaleInv(s)' /\ FrameInv(s)' /\ HandInv(s)' /\ ReadyInv(s)'
  BY <1>1, <1>3 DEF StreamInv, QueueInv, StaleInv, FrameInv, HandInv, ReadyInv
<1>5. CodecInv(s)'
  BY <1>1, <1>2 DEF CodecInv, Clean
<1> QED BY <1>4, <1>5 DEF StreamInv

(* The packet sent is of the epoch the codec already holds: CodecInv from HandInv. *)
LEMMA SendPacketStream ==
    ASSUME TypeOK, NEW s \in Streams, StreamInv(s), SendPacket(s) PROVE StreamInv(s)'
<1>1. /\ dpc[s] = "send" /\ dpc'[s] = "check" /\ pkt[s].kind \in {"data", "null"}
      /\ UNCHANGED <<queue, serial, pkt_serial, frame, frames, rpc, now>>
  BY DEF TypeOK, SendPacket, readVars
<1>2. codec[s] \in Seq(Frames) /\ pkt[s] \in Packets
  BY DEF TypeOK
<1>3. Clean(s) /\ Ready(s) /\ (pkt[s].kind = "data" => pkt[s].epoch + 1 = pkt_serial[s])
  BY <1>1 DEF StreamInv, CodecInv, ReadyInv, HandInv
<1>4. ~(Len(codec[s]) > CodecDelay)
  BY <1>2, <1>3, SizesAssumption DEF Ready
<1> DEFINE f == Frame(0, pkt[s].epoch, pkt[s].n)
<1>5. /\ pkt'[s] = NoPacket /\ packet_pending' = packet_pending
      /\ codec'[s] = codec[s] \/ (pkt[s].kind = "data" /\ codec'[s] = Append(codec[s], f))
  <2>1. /\ pkt' = [pkt EXCEPT ![s] = NoPacket] /\ packet_pending' = packet_pending
        /\ codec' = IF pkt[s].kind = "data" /\ ~draining[s]
                    THEN [codec EXCEPT ![s] = Append(codec[s], f)]
                    ELSE codec
    BY <1>4, Zenon DEF SendPacket
  <2> QED BY <2>1 DEF TypeOK
<1>6. f \in Frames /\ f.epoch = pkt[s].epoch
  BY <1>2 DEF Frame, Frames, Packets
<1> HIDE DEF f
<1>7. /\ Len(codec[s]) \in Nat /\ Len(Append(codec[s], f)) = Len(codec[s]) + 1
      /\ \A i \in 1 .. Len(codec[s]) : Append(codec[s], f)[i] = codec[s][i]
      /\ Append(codec[s], f)[Len(codec[s]) + 1] = f
  BY <1>2, <1>6, AppendOne
<1>8. Clean(s)'
  BY <1>1, <1>3, <1>5, <1>6, <1>7 DEF Clean
<1>9. NoPacket.kind = "none"
  BY DEF NoPacket, Packet
<1>10. QueueInv(s)' /\ StaleInv(s)' /\ FrameInv(s)' /\ HandInv(s)' /\ ReadyInv(s)'
  BY <1>1, <1>5, <1>9 DEF StreamInv, QueueInv, StaleInv, FrameInv, HandInv, ReadyInv
<1>11. CodecInv(s)'
  BY <1>8 DEF CodecInv
<1> QED BY <1>10, <1>11 DEF StreamInv

(* Taking the first frame leaves a suffix, which keeps FrameInv. *)
LEMMA ConsumeStream ==
    ASSUME TypeOK, NEW s \in Streams, StreamInv(s), Consume(s) PROVE StreamInv(s)'
<1>1. /\ frames[s] # <<>> /\ frames'[s] = Tail(frames[s])
      /\ UNCHANGED <<queue, serial, dpc, pkt_serial, pkt, packet_pending, codec, draining, frame,
                     rpc, now>>
  BY DEF TypeOK, Consume, decVars, readVars
<1>2. frames[s] \in Seq(Frames)
  BY DEF TypeOK
<1>3. /\ Len(frames[s]) \in Nat /\ Len(Tail(frames[s])) = Len(frames[s]) - 1
      /\ \A i \in 1 .. Len(frames[s]) - 1 : Tail(frames[s])[i] = frames[s][i + 1]
  BY <1>1, <1>2, TakeHead
<1>4. FrameInv(s)'
  BY <1>1, <1>3 DEF StreamInv, FrameInv
<1> QED BY <1>1, <1>4 DEF StreamInv, QueueInv, StaleInv, HandInv, CodecInv, Clean, ReadyInv, Ready

(* Steps of read_thread on one queue leave the other streams alone. *)
LEMMA OtherQueuesSame ==
    ASSUME TypeOK, NowInv, NEW s \in Streams,
           FlushQueue(s) \/ PutFlush(s) \/ ReadPacket(s) \/ PutNull(s),
           NEW t \in Streams, t # s
    PROVE  Same(t)
<1>1. CASE FlushQueue(s)
  BY <1>1 DEF TypeOK, FlushQueue, Same, decVars
<1>2. CASE PutFlush(s)
  <2>1. now = {s}
    BY <1>2 DEF PutFlush, NowInv
  <2> QED BY <1>2, <2>1 DEF TypeOK, PutFlush, Same, decVars
<1>3. CASE ReadPacket(s)
  BY <1>3 DEF TypeOK, ReadPacket, Same, decVars
<1>4. CASE PutNull(s)
  BY <1>4 DEF TypeOK, PutNull, Same, decVars
<1> QED BY <1>1, <1>2, <1>3, <1>4

(* An empty queue keeps QueueInv and StaleInv. *)
LEMMA FlushQueueStream ==
    ASSUME TypeOK, NEW s \in Streams, StreamInv(s), FlushQueue(s) PROVE StreamInv(s)'
<1>1. /\ queue'[s] = <<>> /\ rpc' = "put flush" /\ now' = {s}
      /\ UNCHANGED <<serial, dpc, pkt_serial, pkt, packet_pending, codec, draining, frame, frames>>
  BY DEF TypeOK, FlushQueue, decVars
<1>2. QueueInv(s)'
  <2>1. Len(<<>>) = 0
    OBVIOUS
  <2>2. queue'[s] = <<>>
    BY <1>1
  <2>3. Len(queue'[s]) = 0
    BY <2>1, <2>2, Zenon
  <2> QED BY <2>3 DEF QueueInv
<1>3. StaleInv(s)'
  BY <1>1 DEF StreamInv, StaleInv
<1> QED BY <1>1, <1>2, <1>3 DEF StreamInv, HandInv, CodecInv, Clean, ReadyInv, Ready, FrameInv

(* With the flush packet the serial of the queue names the new epoch. *)
LEMMA PutFlushStream ==
    ASSUME TypeOK, NowInv, NEW s \in Streams, StreamInv(s), PutFlush(s) PROVE StreamInv(s)'
<1> DEFINE p == Packet("flush", serial[s] + 1, 0, 0)
<1>1. /\ queue[s] = <<>> /\ now = {s}
  BY DEF PutFlush, NowInv
<1>2. /\ serial'[s] = serial[s] + 1 /\ queue'[s] = Append(queue[s], p)
      /\ UNCHANGED <<dpc, pkt_serial, pkt, packet_pending, codec, draining, frame, frames>>
  BY DEF TypeOK, PutFlush, decVars
<1>3. serial[s] \in Nat /\ pkt_serial[s] \in Int /\ pkt_serial[s] <= serial[s]
  BY DEF TypeOK, StreamInv, StaleInv
<1>4. pkt_serial'[s] < serial'[s] /\ pkt_serial'[s] # serial'[s] /\ pkt_serial'[s] <= serial'[s]
  BY <1>2, <1>3
<1>5. p.serial = serial'[s] /\ p.kind = "flush"
  BY <1>2 DEF Packet
<1> HIDE DEF p
<1>6. Len(queue'[s]) = 1 /\ queue'[s][1] = p /\ queue'[s] # <<>>
  BY <1>1, <1>2
<1>7. QueueInv(s)'
  BY <1>4, <1>5, <1>6 DEF QueueInv
<1>8. StaleInv(s)'
  BY <1>4, <1>5, <1>6 DEF StaleInv
<1>9. Clean(s)' <=> Clean(s)
  BY <1>2 DEF Clean
<1>10. HandInv(s)' /\ CodecInv(s)' /\ ReadyInv(s)' /\ FrameInv(s)'
  BY <1>2, <1>4, <1>9 DEF StreamInv, HandInv, CodecInv, ReadyInv, Ready, FrameInv
<1> QED BY <1>7, <1>8, <1>10 DEF StreamInv

(* A packet of the queue's serial, read or made by read_thread, may join. *)
DecodersUnchanged ==
    UNCHANGED <<serial, dpc, pkt_serial, pkt, packet_pending, codec, draining, frame, frames>>

LongerBy(r, q, p) ==
    /\ Len(q) \in Nat /\ Len(r) = Len(q) + 1
    /\ \A i \in 1 .. Len(q) : r[i] = q[i]
    /\ r[Len(q) + 1] = p
    /\ r # <<>> /\ (q # <<>> => r[1] = q[1])

(* An appended sequence: its length, its old elements and its last one. *)
LEMMA AppendLonger ==
    ASSUME NEW q \in Seq(Packets), NEW p \in Packets
    PROVE  LongerBy(Append(q, p), q, p)
<1>1. Append(q, p) # <<>> /\ (q # <<>> => Len(q) > 0)
  OBVIOUS
<1> QED BY <1>1, AppendOne DEF LongerBy

(* An index of an appended sequence is an old one or the last. *)
LEMMA LastOrBefore == \A n \in Nat : \A i \in 1 .. n + 1 : i \in 1 .. n \/ i = n + 1
OBVIOUS

(* A packet of the current epoch at the end of a queue that needs no flush keeps StreamInv. *)
LEMMA PutStream ==
    ASSUME NEW s \in Streams, StreamInv(s), rpc # "put flush", rpc' # "put flush",
           NEW p, p.serial = serial[s], p.kind \in {"data", "null"},
           p.kind = "data" => p.epoch + 1 = serial[s],
           LongerBy(queue'[s], queue[s], p),
           DecodersUnchanged
    PROVE  StreamInv(s)'
<1>1. QueueInv(s)'
  <2> SUFFICES ASSUME NEW i \in 1 .. Len(queue[s]) + 1
               PROVE  /\ queue'[s][i].serial = serial[s]
                      /\ queue'[s][i].kind # "none"
                      /\ queue'[s][i].kind = "data" => queue'[s][i].epoch + 1 = serial[s]
                      /\ queue'[s][i].kind = "flush" => i = 1 /\ pkt_serial[s] < serial[s]
    BY DEF QueueInv, DecodersUnchanged, LongerBy
  <2>1. CASE i \in 1 .. Len(queue[s])
    BY <2>1 DEF StreamInv, QueueInv, LongerBy
  <2>2. CASE i = Len(queue[s]) + 1
    BY <2>2 DEF LongerBy
  <2>3. Len(queue[s]) \in Nat
    BY DEF LongerBy
  <2>4. i \in 1 .. Len(queue[s]) \/ i = Len(queue[s]) + 1
    BY <2>3, LastOrBefore, Zenon
  <2> QED BY <2>1, <2>2, <2>4, Zenon
<1>2. StaleInv(s)'
  BY Zenon DEF LongerBy, StreamInv, StaleInv, DecodersUnchanged
<1> QED BY <1>1, <1>2 DEF DecodersUnchanged, StreamInv, HandInv, CodecInv, Clean, ReadyInv, Ready, FrameInv

(* ReadPacket is such a put. *)
LEMMA ReadPacketStream ==
    ASSUME TypeOK, PhaseInv, NEW s \in Streams, StreamInv(s), ReadPacket(s) PROVE StreamInv(s)'
<1> DEFINE p == Packet("data", serial[s], epoch, sent[s] + 1)
<1>1. /\ rpc = "read" /\ rpc' = "top" /\ queue'[s] = Append(queue[s], p)
      /\ UNCHANGED <<serial, dpc, pkt_serial, pkt, packet_pending, codec, draining, frame, frames>>
  BY DEF TypeOK, ReadPacket, Put, decVars
<1>2. serial[s] = epoch + 1 /\ serial[s] \in Nat /\ epoch \in Nat /\ sent[s] \in Nat
  BY <1>1 DEF TypeOK, PhaseInv
<1>3. p \in Packets /\ p.serial = serial[s] /\ p.kind = "data" /\ p.epoch = epoch
  BY <1>2 DEF Packet, Packets
<1> HIDE DEF p
<1>4. queue[s] \in Seq(Packets)
  BY DEF TypeOK
<1>5. LongerBy(queue'[s], queue[s], p)
  BY <1>1, <1>3, <1>4, AppendLonger, Zenon
<1>6. DecodersUnchanged
  BY <1>1 DEF DecodersUnchanged
<1> QED BY <1>1, <1>2, <1>3, <1>5, <1>6, PutStream

(* PutNull is such a put. *)
LEMMA PutNullStream ==
    ASSUME TypeOK, NEW s \in Streams, StreamInv(s), PutNull(s) PROVE StreamInv(s)'
<1> DEFINE p == Packet("null", serial[s], epoch, 0)
<1>1. /\ rpc = "null" /\ rpc' # "put flush" /\ queue'[s] = Append(queue[s], p)
      /\ UNCHANGED <<serial, dpc, pkt_serial, pkt, packet_pending, codec, draining, frame, frames>>
  BY DEF TypeOK, PutNull, Put, decVars
<1>2. serial[s] \in Nat /\ epoch \in Nat
  BY DEF TypeOK
<1>3. p \in Packets /\ p.serial = serial[s] /\ p.kind = "null"
  BY <1>2 DEF Packet, Packets
<1> HIDE DEF p
<1>4. queue[s] \in Seq(Packets)
  BY DEF TypeOK
<1>5. LongerBy(queue'[s], queue[s], p)
  BY <1>1, <1>3, <1>4, AppendLonger, Zenon
<1>6. DecodersUnchanged
  BY <1>1 DEF DecodersUnchanged
<1> QED BY <1>1, <1>3, <1>5, <1>6, PutStream

(* The other steps of read_thread leave every stream alone. *)
LEMMA QuietSame ==
    ASSUME \/ SeekFile \/ SeekDone \/ NoSeek \/ CheckEnough \/ AllPlayed \/ ReadEof \/ RequestSeek
           \/ \E s \in Streams : CheckFinished(s) \/ CheckRemaining(s),
           NEW t \in Streams
    PROVE  Same(t)
<1>1. CASE SeekFile \/ SeekDone \/ NoSeek \/ CheckEnough \/ AllPlayed \/ ReadEof \/ RequestSeek
  <2>1. /\ UNCHANGED <<queue, serial, decVars, frames>>
    BY <1>1 DEF SeekFile, SeekDone, NoSeek, CheckEnough, AllPlayed, ReadEof, RequestSeek
  <2>2. (rpc' = rpc /\ now' = now) \/ (rpc # "put flush" /\ rpc' # "put flush")
    <3>1. CASE SeekFile \/ SeekDone \/ NoSeek
      BY <3>1 DEF SeekFile, SeekDone, NoSeek
    <3>2. CASE CheckEnough \/ AllPlayed \/ ReadEof
      BY <3>2 DEF CheckEnough, AllPlayed, ReadEof, AtEof
    <3>3. CASE RequestSeek
      BY <3>3 DEF RequestSeek, readVars
    <3> QED BY <1>1, <3>1, <3>2, <3>3
  <2> QED BY <2>1, <2>2 DEF Same, decVars
<1>2. ASSUME NEW s \in Streams, CheckFinished(s) \/ CheckRemaining(s)
      PROVE  Same(t)
  BY <1>2 DEF CheckFinished, CheckRemaining, Same, decVars
<1> QED BY <1>1, <1>2
------------------------------------------------------------------------------
(* The two invariants of read_thread *)

(* The steps of the decoders and of the frame readers leave the variables of read_thread alone. *)
LEMMA DecoderPhase ==
    ASSUME TypeOK, PhaseInv, NowInv, NEW s \in Streams, DecoderStep(s) \/ Consume(s)
    PROVE  PhaseInv' /\ NowInv'
<1>1. UNCHANGED <<serial, rpc, todo, now, epoch>>
  BY DEF DecoderStep, CheckSerial, ReceiveFrame, DropEarly, PushFrame, GetPacket, ComparePacket,
         CompareAgain, FlushCodec, SendPacket, Consume, readVars, history
<1>2. \A t \in Streams : queue[t] = <<>> => queue'[t] = <<>>
  <2>1. queue' = queue \/ (queue[s] # <<>> /\ queue' = [queue EXCEPT ![s] = Tail(queue[s])])
    <3>1. CASE GetPacket(s)
      BY <3>1, Zenon DEF GetPacket
    <3>2. CASE ~GetPacket(s)
      BY <3>2 DEF DecoderStep, CheckSerial, ReceiveFrame, DropEarly, PushFrame, ComparePacket,
                  CompareAgain, FlushCodec, SendPacket, Consume
    <3> QED BY <3>1, <3>2
  <2>2. queue \in [Streams -> Seq(Packets)]
    BY DEF TypeOK
  <2> QED BY <2>1, <2>2
<1>3. todo \subseteq Streams
  BY DEF TypeOK
<1> QED BY <1>1, <1>2, <1>3 DEF PhaseInv, NowInv

(* SeekFile starts the phase in which every queue is flushed. *)
LEMMA SeekFilePhase == ASSUME TypeOK, PhaseInv, SeekFile PROVE PhaseInv' /\ NowInv'
<1>1. CASE rpc' = "flush"
  <2>1. epoch' = epoch + 1 /\ todo' = Streams /\ rpc = "top" /\ serial' = serial
    BY <1>1 DEF SeekFile
  <2> QED BY <1>1, <2>1 DEF PhaseInv, NowInv
<1>2. CASE rpc' = "seeked"
  <2>1. epoch' = epoch /\ rpc = "top" /\ serial' = serial
    BY <1>2 DEF SeekFile
  <2> QED BY <1>2, <2>1 DEF PhaseInv, NowInv
<1> QED BY <1>1, <1>2 DEF SeekFile

(* FlushQueue is inside that phase. *)
LEMMA FlushQueuePhase ==
    ASSUME TypeOK, PhaseInv, NEW s \in Streams, FlushQueue(s) PROVE PhaseInv' /\ NowInv'
<1>1. /\ rpc = "flush" /\ rpc' = "put flush" /\ s \in todo /\ now' = {s} /\ queue'[s] = <<>>
      /\ UNCHANGED <<serial, todo, epoch>>
  BY DEF TypeOK, FlushQueue, history
<1> QED BY <1>1 DEF PhaseInv, NowInv

(* PutFlush takes its stream off the list of those still to flush. *)
LEMMA PutFlushPhase ==
    ASSUME TypeOK, PhaseInv, NEW s \in Streams, PutFlush(s), NowInv PROVE PhaseInv' /\ NowInv'
<1>1. /\ rpc = "put flush" /\ todo' = todo \ {s} /\ epoch' = epoch
      /\ rpc' = (IF todo' = {} THEN "seeked" ELSE "flush")
      /\ serial' = [serial EXCEPT ![s] = serial[s] + 1]
  BY DEF PutFlush, history
<1>2. s \in todo /\ serial[s] = epoch
  BY <1>1 DEF PutFlush, NowInv, PhaseInv
<1>3. serial \in [Streams -> Nat] /\ epoch \in Nat
  BY DEF TypeOK
<1>4. ASSUME NEW t \in Streams
      PROVE  serial'[t] = IF rpc' \in {"flush", "put flush"} /\ t \in todo' THEN epoch' ELSE epoch' + 1
  <2>1. CASE t = s
    BY <1>1, <1>2, <1>3, <2>1
  <2>2. CASE t # s
    BY <1>1, <1>3, <2>2 DEF PhaseInv
  <2> QED BY <2>1, <2>2
<1> QED BY <1>1, <1>4 DEF PhaseInv, NowInv

(* ReadPacket and PutNull happen outside that phase. *)
LEMMA ReadPhase ==
    ASSUME TypeOK, PhaseInv, NEW s \in Streams, ReadPacket(s) \/ PutNull(s)
    PROVE  PhaseInv' /\ NowInv'
<1>1. /\ rpc \in {"read", "null"} /\ rpc' \in {"top", "null"}
      /\ UNCHANGED <<serial, epoch>>
  BY DEF ReadPacket, PutNull, history
<1> QED BY <1>1 DEF PhaseInv, NowInv

(* The other steps of read_thread keep to the phases. *)
LEMMA QuietPhase ==
    ASSUME TypeOK, PhaseInv, NowInv,
           \/ SeekDone \/ NoSeek \/ CheckEnough \/ AllPlayed \/ ReadEof \/ RequestSeek
           \/ \E s \in Streams : CheckFinished(s) \/ CheckRemaining(s)
    PROVE  PhaseInv' /\ NowInv'
<1>1. CASE RequestSeek
  BY <1>1 DEF RequestSeek, readVars, history, PhaseInv, NowInv
<1>2. CASE SeekDone \/ NoSeek \/ CheckEnough
  <2>1. /\ rpc \notin {"flush", "put flush"} /\ rpc' \notin {"flush", "put flush"}
        /\ UNCHANGED <<serial, epoch>>
    BY <1>2 DEF SeekDone, NoSeek, CheckEnough, history
  <2> QED BY <2>1 DEF PhaseInv, NowInv
<1>3. CASE AllPlayed \/ ReadEof
  <2>1. /\ rpc \notin {"flush", "put flush"} /\ rpc' \notin {"flush", "put flush"}
        /\ UNCHANGED <<serial, epoch>>
    BY <1>3 DEF AllPlayed, ReadEof, AtEof, history
  <2> QED BY <2>1 DEF PhaseInv, NowInv
<1>4. ASSUME NEW s \in Streams, CheckFinished(s) \/ CheckRemaining(s)
      PROVE  PhaseInv' /\ NowInv'
  <2>1. /\ rpc \notin {"flush", "put flush"} /\ rpc' \notin {"flush", "put flush"}
        /\ UNCHANGED <<serial, epoch>>
    BY <1>4 DEF CheckFinished, CheckRemaining, history
  <2> QED BY <2>1 DEF PhaseInv, NowInv
<1> QED BY <1>1, <1>2, <1>3, <1>4

------------------------------------------------------------------------------
(* The invariant *)

(* The initial states satisfy the inductive invariant. *)
LEMMA InitIInv == Init => IInv
<1> SUFFICES ASSUME Init PROVE IInv
  OBVIOUS
<1>1. TypeOK
  <2>1. Packet("flush", 1, 0, 0) \in Packets
    BY DEF Packet, Packets
  <2>2. <<Packet("flush", 1, 0, 0)>> \in Seq(Packets)
    BY <2>1
  <2>3. <<>> \in Seq(Frames) /\ Len(<<>>) = 0
    OBVIOUS
  <2>4. queue \in [Streams -> Seq(Packets)]
    BY <2>2 DEF Init
  <2>5. codec \in [Streams -> Seq(Frames)] /\ frames \in [Streams -> Seq(Frames)]
    BY <2>3 DEF Init
  <2>6. \A s \in Streams : Len(frames[s]) <= FrameCap
    BY <2>3, SizesAssumption DEF Init
  <2>7. remaining \in [Streams -> Nat]
    BY SizesAssumption DEF Init
  <2>8. loops \in Nat
    BY OptionsAssumption DEF Init
  <2>9. /\ serial \in [Streams -> Nat] /\ dpc \in [Streams -> Places]
        /\ pkt_serial \in [Streams -> Int] /\ finished \in [Streams -> Int]
        /\ packet_pending \in [Streams -> BOOLEAN] /\ draining \in [Streams -> BOOLEAN]
        /\ leaked \in [Streams -> BOOLEAN] /\ sent \in [Streams -> Nat]
    BY DEF Init, Places
  <2>10. /\ pkt \in [Streams -> Packets] /\ frame \in [Streams -> Frames]
         /\ passed \in [Streams -> Frames]
    BY NoPacketType DEF Init
  <2>11. dropped \in [Streams -> SUBSET Frames]
    BY DEF Init
  <2>12. /\ rpc = "top" /\ todo = {} /\ now = {} /\ eof = FALSE /\ ended = FALSE
         /\ seek_req = FALSE /\ seeks = 0 /\ epoch = 0
    BY DEF Init
  <2> QED BY <2>4, <2>5, <2>6, <2>7, <2>8, <2>9, <2>10, <2>11, <2>12 DEF TypeOK, Places
<1>2. PhaseInv /\ NowInv
  BY DEF Init, PhaseInv, NowInv
<1>3. ASSUME NEW s \in Streams PROVE StreamInv(s)
  <2>1. /\ queue[s] = <<Packet("flush", 1, 0, 0)>> /\ serial[s] = 1 /\ dpc[s] = "check"
        /\ pkt_serial[s] = -1 /\ pkt[s] = NoPacket /\ packet_pending[s] = FALSE
        /\ codec[s] = <<>> /\ frames[s] = <<>>
    BY DEF Init
  <2>2. /\ Len(queue[s]) = 1 /\ queue[s][1].kind = "flush" /\ queue[s][1].serial = 1
        /\ NoPacket.kind = "none"
    BY <2>1 DEF Packet, NoPacket
  <2>3. QueueInv(s) /\ HandInv(s) /\ CodecInv(s) /\ ReadyInv(s)
    BY <2>1, <2>2 DEF QueueInv, HandInv, CodecInv, ReadyInv
  <2>4. StaleInv(s)
    BY <2>1, <2>2 DEF StaleInv
  <2>5. FrameInv(s)
    BY <2>1 DEF FrameInv
  <2> QED BY <2>3, <2>4, <2>5 DEF StreamInv
<1> QED BY <1>1, <1>2, <1>3 DEF IInv

(* Every step keeps the inductive invariant: one step of the proof per action. *)
LEMMA NextIInv == ASSUME IInv, [Next]_vars PROVE IInv'
<1>1. ASSUME NEW s \in Streams, DecoderStep(s) \/ Consume(s) PROVE IInv'
  <2>1. StreamInv(s) /\ FrameInv(s)
    BY DEF IInv, StreamInv
  <2>2. TypeOK'
    BY <1>1, <2>1, CheckSerialType, ReceiveFrameType, DropEarlyType, PushFrameType, GetPacketType,
       ComparePacketType, CompareAgainType, FlushCodecType, SendPacketType, ConsumeType
       DEF IInv, DecoderStep
  <2>3. StreamInv(s)'
    BY <1>1, <2>1, CheckSerialStream, ReceiveFrameStream, DropEarlyStream, PushFrameStream,
       GetPacketStream, ComparePacketStream, CompareAgainStream, FlushCodecStream,
       SendPacketStream, ConsumeStream
       DEF IInv, DecoderStep
  <2>4. ASSUME NEW t \in Streams, t # s PROVE StreamInv(t)'
    BY <1>1, <2>4, OthersSame, SameKept DEF IInv
  <2>5. PhaseInv' /\ NowInv'
    BY <1>1, DecoderPhase DEF IInv
  <2> QED BY <2>2, <2>3, <2>4, <2>5 DEF IInv
<1>2. ASSUME NEW s \in Streams, FlushQueue(s) \/ PutFlush(s) \/ ReadPacket(s) \/ PutNull(s)
      PROVE  IInv'
  <2>1. TypeOK'
    BY <1>2, FlushQueueType, PutFlushType, ReadPacketType, PutNullType DEF IInv
  <2>2. StreamInv(s)'
    BY <1>2, FlushQueueStream, PutFlushStream, ReadPacketStream, PutNullStream DEF IInv
  <2>3. ASSUME NEW t \in Streams, t # s PROVE StreamInv(t)'
    BY <1>2, <2>3, OtherQueuesSame, SameKept DEF IInv
  <2>4. PhaseInv' /\ NowInv'
    BY <1>2, FlushQueuePhase, PutFlushPhase, ReadPhase DEF IInv
  <2> QED BY <2>1, <2>2, <2>3, <2>4 DEF IInv
<1>3. CASE \/ SeekFile \/ SeekDone \/ NoSeek \/ CheckEnough \/ AllPlayed \/ ReadEof \/ RequestSeek
           \/ \E s \in Streams : CheckFinished(s) \/ CheckRemaining(s)
  <2>1. TypeOK'
    BY <1>3, SeekFileType, QuietType DEF IInv
  <2>2. ASSUME NEW t \in Streams PROVE StreamInv(t)'
    BY <1>3, QuietSame, SameKept DEF IInv
  <2>3. PhaseInv' /\ NowInv'
    BY <1>3, SeekFilePhase, QuietPhase DEF IInv
  <2> QED BY <2>1, <2>2, <2>3 DEF IInv
<1>4. CASE UNCHANGED vars
  <2>1. TypeOK'
    BY <1>4 DEF IInv, TypeOK, vars, decVars, readVars, userVars, history
  <2>2. ASSUME NEW t \in Streams PROVE StreamInv(t)'
    <3>1. Same(t)
      BY <1>4 DEF Same, vars, decVars, readVars
    <3> QED BY <3>1, SameKept DEF IInv
  <2>3. PhaseInv' /\ NowInv'
    BY <1>4 DEF IInv, PhaseInv, NowInv, vars, readVars, history
  <2> QED BY <2>1, <2>2, <2>3 DEF IInv
<1> QED BY <1>1, <1>2, <1>3, <1>4, Zenon DEF Next, ReadStep

(* The inductive invariant holds of every reachable state. *)
LEMMA SpecIInv == Spec => []IInv
<1>1. Init => IInv
  BY InitIInv
<1>2. IInv /\ [Next]_vars => IInv'
  BY NextIInv
<1> QED BY <1>1, <1>2, PTL DEF Spec

------------------------------------------------------------------------------
(* What follows for the code *)

(* Every variable keeps its type, and a frame queue its size. *)
THEOREM TypeCorrect == Spec => []TypeOK
<1>1. IInv => TypeOK
  BY DEF IInv
<1> QED BY <1>1, SpecIInv, PTL

(* A decoder thread never labels data of before a seek as data of after:   *)
(* although decoder_decode_frame reads queue->serial four times with no    *)
(* lock, what queue_picture and its like write into Frame.serial is the    *)
(* serial under which read_thread queued the packet.                       *)
THEOREM SerialsTellEpochs == Spec => []LabelsRight
<1>1. IInv => LabelsRight
  BY DEF IInv, StreamInv, FrameInv, LabelsRight
<1> QED BY <1>1, SpecIInv, PTL

(* No packet of after a seek goes to a codec that still holds data of      *)
(* before it, however many seeks follow one another.                       *)
THEOREM CodecResetInBetween == Spec => []CodecOneEpoch
<1>1. ASSUME IInv PROVE CodecOneEpoch
  <2> SUFFICES ASSUME NEW s \in Streams, dpc[s] = "send", pkt[s].kind = "data",
                      NEW i \in 1 .. Len(codec[s])
               PROVE  codec[s][i].epoch = pkt[s].epoch
    BY DEF CodecOneEpoch
  <2>1. Clean(s) /\ pkt[s].epoch + 1 = pkt_serial[s]
    BY <1>1 DEF IInv, StreamInv, CodecInv, HandInv
  <2>2. codec[s][i].epoch + 1 = pkt_serial[s]
    BY <2>1 DEF Clean
  <2>3. codec[s] \in Seq(Frames) /\ pkt[s] \in Packets
    BY <1>1 DEF IInv, TypeOK
  <2>4. codec[s][i] \in Frames
    BY <2>3
  <2>5. codec[s][i].epoch \in Nat /\ pkt[s].epoch \in Nat
    BY <2>3, <2>4 DEF Frames, Packets
  <2> QED BY <2>1, <2>2, <2>5
<1> QED BY <1>1, SpecIInv, PTL

(* The loop of decoder_decode_frame keeps to the protocol of the codec: it *)
(* never meets the AVERROR(EAGAIN) that its message calls an API           *)
(* violation, and never sends a packet to a codec that is being drained.   *)
THEOREM CodecProtocolKept == Spec => []NoApiViolation
<1>1. IInv => NoApiViolation
  BY DEF IInv, StreamInv, HandInv, ReadyInv, Ready, NoApiViolation
<1> QED BY <1>1, SpecIInv, PTL
=============================================================================
