-------------------------- MODULE CompanionsProofs --------------------------
(***************************************************************************)
(* Proofs about Companions.tla, for any frame rates, sizes of buffers,      *)
(* lengths of files and delays of encoders and decoders: its types, that    *)
(* the muxing loops keep the two streams in step, and that the mix goes on  *)
(* to the end of the longer file.                                          *)
(***************************************************************************)
EXTENDS Companions, TLAPS, SequenceTheorems

LEMMA ConstantTypes ==
    /\ VideoTime \in Nat /\ VideoTime > 0 /\ AudioTime \in Nat /\ AudioTime > 0
    /\ MaxFrames \in Nat /\ Duration \in Nat /\ Delay \in Nat
    /\ Chunk \in Nat /\ Chunk > 0 /\ OutMax \in Nat /\ MaxLength \in Nat
    /\ Chunk <= OutMax
BY MuxingAssumption, MixerAssumption DEF MuxingAssumption, MixerAssumption

LEMMA TimeType ==
    Time \in [Streams -> Nat] /\ Time["video"] = VideoTime /\ Time["audio"] = AudioTime
BY ConstantTypes DEF Time, Streams

\* The steps of the loops of each program.
Mp4Next == (\E s \in Streams : Mp4Frame(s) \/ Mp4Flush(s)) \/ SendTrailer
FlvNext == (\E s \in Streams : FlvFrame(s) \/ FlvFlush(s) \/ FlvFails(s)) \/ SendTrailer
MixNext == ReadNothing \/ ReadBoth \/ AddFails \/ GetFrame \/ GetNothing

LEMMA StreamTime == ASSUME NEW s \in Streams PROVE Time[s] \in Nat
BY TimeType

\* Adding to a count of a stream keeps its type.
LEMMA Increment ==
    ASSUME NEW f \in [Streams -> Nat], NEW s \in Streams, NEW n \in Nat
    PROVE  [f EXCEPT ![s] = @ + n] \in [Streams -> Nat]
OBVIOUS

-----------------------------------------------------------------------------
(* The muxing loops                                                        *)

LEMMA MuxInitType == MuxInit => MuxTypeOK /\ InStep
BY ConstantTypes DEF MuxInit, MuxTypeOK, InStep, Streams

\* What Receive may do to the counts of a stream.
LEMMA ReceiveType ==
    ASSUME MuxTypeOK, NEW s \in Streams, NEW n \in Nat, NEW kept \in 0..Delay, kept <= n,
           Receive(s, n, kept)
    PROVE  /\ held' \in [Streams -> 0..Delay]
           /\ written' \in [Streams -> Nat] /\ lost' \in [Streams -> Nat]
<1>1. /\ held \in [Streams -> 0..Delay] /\ written \in [Streams -> Nat]
      /\ lost \in [Streams -> Nat]
  BY DEF MuxTypeOK
<1>2. PICK w \in 0..(n - kept) :
          /\ written' = [written EXCEPT ![s] = @ + w]
          /\ lost' = [lost EXCEPT ![s] = @ + (n - kept - w)]
  BY DEF Receive
<1>3. kept \in Nat /\ w \in Nat /\ n - kept - w \in Nat
  BY ConstantTypes, <1>2
<1>4. written[s] + w \in Nat /\ lost[s] + (n - kept - w) \in Nat
  BY <1>1, <1>3
<1>5. held' = [held EXCEPT ![s] = kept]
  BY DEF Receive
<1> QED
  BY <1>1, <1>2, <1>4, <1>5

\* A turn of a loop does not change the types.
LEMMA MuxNextType == MuxTypeOK /\ (Mp4Next \/ FlvNext \/ UNCHANGED muxVars) => MuxTypeOK'
<1> SUFFICES ASSUME MuxTypeOK, Mp4Next \/ FlvNext \/ UNCHANGED muxVars PROVE MuxTypeOK'
  OBVIOUS
<1>0. /\ length \in [Streams -> 0..MaxFrames]
      /\ read \in [Streams -> Nat] /\ next_pts \in [Streams -> Nat]
      /\ held \in [Streams -> 0..Delay] /\ finish \in [Streams -> BOOLEAN]
      /\ written \in [Streams -> Nat] /\ lost \in [Streams -> Nat]
      /\ flushes \in [Streams -> Nat] /\ file \in {"open", "complete", "given up"}
  BY DEF MuxTypeOK
<1>a. /\ read \in [Streams -> Nat] /\ next_pts \in [Streams -> Nat]
      /\ written \in [Streams -> Nat] /\ lost \in [Streams -> Nat]
      /\ flushes \in [Streams -> Nat]
  BY <1>0
<1>b. ASSUME NEW s \in Streams PROVE held[s] \in Nat /\ held[s] <= Delay
  <2>1. held[s] \in 0..Delay
    BY <1>0
  <2> QED
    BY <2>1, ConstantTypes
<1>1. ASSUME NEW s \in Streams, Mp4Frame(s) PROVE MuxTypeOK'
  <2>1. /\ read' = [read EXCEPT ![s] = @ + 1]
        /\ next_pts' = [next_pts EXCEPT ![s] = @ + Time[s]]
        /\ UNCHANGED <<length, finish, flushes, file>>
    BY <1>1 DEF Mp4Frame
  <2>2. read' \in [Streams -> Nat] /\ next_pts' \in [Streams -> Nat]
    BY <1>a, <2>1, StreamTime, Increment
  <2>3. /\ held' \in [Streams -> 0..Delay]
        /\ written' \in [Streams -> Nat] /\ lost' \in [Streams -> Nat]
    <3>1. CASE \E kept \in 0..Delay : kept <= held[s] + 1 /\ Receive(s, held[s] + 1, kept)
      <4>1. held[s] + 1 \in Nat
        BY <1>b
      <4>2. PICK kept \in 0..Delay : kept <= held[s] + 1 /\ Receive(s, held[s] + 1, kept)
        BY <3>1
      <4> QED
        BY <4>1, <4>2, ReceiveType
    <3>2. CASE lost' = [lost EXCEPT ![s] = @ + 1] /\ UNCHANGED <<held, written>>
      <4>1. lost' \in [Streams -> Nat]
        BY <1>a, <3>2, Increment
      <4> QED
        BY <1>0, <3>2, <4>1
    <3> QED
      BY <1>1, <3>1, <3>2 DEF Mp4Frame
  <2> QED
    BY <1>0, <2>1, <2>2, <2>3 DEF MuxTypeOK
<1>2. ASSUME NEW s \in Streams, Mp4Flush(s) PROVE MuxTypeOK'
  <2>1. /\ finish' = [finish EXCEPT ![s] = TRUE]
        /\ next_pts' = [next_pts EXCEPT ![s] = @ + Time[s]]
        /\ flushes' = [flushes EXCEPT ![s] = @ + 1]
        /\ Receive(s, held[s], 0) /\ UNCHANGED <<length, read, file>>
    BY <1>2 DEF Mp4Flush
  <2>2. next_pts' \in [Streams -> Nat] /\ flushes' \in [Streams -> Nat]
    BY <1>a, <2>1, StreamTime, Increment
  <2>5. finish' \in [Streams -> BOOLEAN]
    BY <1>0, <2>1
  <2>3. held[s] \in Nat /\ 0 <= held[s] /\ 0 \in 0..Delay
    BY <1>b, ConstantTypes
  <2>4. /\ held' \in [Streams -> 0..Delay]
        /\ written' \in [Streams -> Nat] /\ lost' \in [Streams -> Nat]
    BY <2>1, <2>3, ReceiveType
  <2> QED
    BY <1>0, <2>1, <2>2, <2>4, <2>5 DEF MuxTypeOK
<1>3. ASSUME NEW s \in Streams, FlvFrame(s) PROVE MuxTypeOK'
  <2>1. /\ read' = [read EXCEPT ![s] = @ + 1]
        /\ next_pts' = [next_pts EXCEPT ![s] = @ + Time[s]]
        /\ UNCHANGED <<length, finish, flushes, file, lost>>
    BY <1>3 DEF FlvFrame, Write
  <2>2. PICK got \in {0, 1} : held[s] + 1 - got <= Delay /\ Write(s, held[s] + 1, got)
    BY <1>3 DEF FlvFrame
  <2>3. held[s] + 1 - got \in 0..Delay /\ got \in Nat
    BY <1>b, <2>2, ConstantTypes
  <2>4. held' \in [Streams -> 0..Delay] /\ written' \in [Streams -> Nat]
    <3> DEFINE n == held[s] + 1
    <3>0. Write(s, n, got)
      BY <2>2
    <3> HIDE DEF n
    <3>1. /\ held' = [held EXCEPT ![s] = n - got]
          /\ written' = [written EXCEPT ![s] = @ + got]
      BY <3>0, Zenon DEF Write
    <3>4. n - got \in 0..Delay
      BY <1>b, <2>3 DEF n
    <3>2. written' \in [Streams -> Nat]
      BY <1>a, <2>3, <3>1, Increment
    <3>3. held' \in [Streams -> 0..Delay]
      BY <1>0, <3>1, <3>4
    <3> QED
      BY <3>2, <3>3
  <2>5. read' \in [Streams -> Nat] /\ next_pts' \in [Streams -> Nat]
    BY <1>a, <2>1, StreamTime, Increment
  <2> QED
    BY <1>0, <2>1, <2>4, <2>5 DEF MuxTypeOK
<1>4. ASSUME NEW s \in Streams, FlvFlush(s) PROVE MuxTypeOK'
  <2>1. flushes' = [flushes EXCEPT ![s] = @ + 1] /\ UNCHANGED <<length, read, next_pts, file>>
    BY <1>4 DEF FlvFlush, input
  <2>2. flushes' \in [Streams -> Nat]
    BY <1>a, <2>1, Increment
  <2>3. CASE held[s] > 0
    <3>1. Write(s, held[s], 1) /\ UNCHANGED finish
      BY <1>4, <2>3 DEF FlvFlush
    <3>2. held[s] - 1 \in 0..Delay
      BY <1>b, <2>3, ConstantTypes
    <3>4. /\ held' = [held EXCEPT ![s] = held[s] - 1]
          /\ written' = [written EXCEPT ![s] = @ + 1]
      BY <3>1 DEF Write
    <3>5. written' \in [Streams -> Nat]
      BY <1>a, <3>4, Increment
    <3>3. held' \in [Streams -> 0..Delay] /\ written' \in [Streams -> Nat] /\ UNCHANGED lost
      BY <1>0, <3>1, <3>2, <3>4, <3>5 DEF Write
    <3> QED
      BY <1>0, <2>1, <2>2, <3>1, <3>3 DEF MuxTypeOK
  <2>4. CASE ~(held[s] > 0)
    <3>1. finish' = [finish EXCEPT ![s] = TRUE] /\ UNCHANGED <<held, written, lost>>
      BY <1>4, <2>4 DEF FlvFlush, output
    <3> QED
      BY <1>0, <2>1, <2>2, <3>1 DEF MuxTypeOK
  <2> QED
    BY <2>3, <2>4
<1>5. ASSUME NEW s \in Streams, FlvFails(s) PROVE MuxTypeOK'
  BY <1>0, <1>5 DEF FlvFails, input, output, MuxTypeOK
<1>6. CASE SendTrailer
  BY <1>0, <1>6 DEF SendTrailer, input, output, MuxTypeOK
<1>7. CASE UNCHANGED muxVars
  BY <1>0, <1>7 DEF muxVars, input, output, MuxTypeOK
<1> QED
  BY <1>1, <1>2, <1>3, <1>4, <1>5, <1>6, <1>7 DEF Mp4Next, FlvNext

\* The stream that is chosen is not ahead of the other one, and a turn of a stream that
\* goes on moves it by one frame.
LEMMA ChosenMoves ==
    ASSUME MuxTypeOK, InStep, NEW s \in Streams,
           Mp4Chosen(s) \/ FlvChosen(s),
           ~finish[s],
           next_pts' = [next_pts EXCEPT ![s] = @ + Time[s]],
           UNCHANGED finish
    PROVE  InStep'
<1> SUFFICES ASSUME ~finish["video"], ~finish["audio"]
             PROVE  /\ next_pts'["audio"] - next_pts'["video"] <= AudioTime
                    /\ next_pts'["video"] - next_pts'["audio"] <= VideoTime
  BY DEF InStep
<1>1. /\ next_pts["video"] \in Nat /\ next_pts["audio"] \in Nat
      /\ next_pts \in [Streams -> Nat]
  BY DEF MuxTypeOK, Streams
<1>2. /\ next_pts["audio"] - next_pts["video"] <= AudioTime
      /\ next_pts["video"] - next_pts["audio"] <= VideoTime
  BY DEF InStep
<1>3. CASE s = "video"
  <2>1. next_pts["audio"] >= next_pts["video"]
    BY <1>1, <1>3 DEF Mp4Chosen, FlvChosen
  <2>2. next_pts'["video"] = next_pts["video"] + VideoTime /\ next_pts'["audio"] = next_pts["audio"]
    BY <1>1, <1>3, TimeType DEF Streams
  <2> QED
    BY <1>1, <1>2, <2>1, <2>2, ConstantTypes
<1>4. CASE s = "audio"
  <2>1. next_pts["video"] >= next_pts["audio"]
    BY <1>1, <1>4 DEF Mp4Chosen, FlvChosen
  <2>2. next_pts'["audio"] = next_pts["audio"] + AudioTime /\ next_pts'["video"] = next_pts["video"]
    BY <1>1, <1>4, TimeType DEF Streams
  <2> QED
    BY <1>1, <1>2, <2>1, <2>2, ConstantTypes
<1> QED
  BY <1>3, <1>4 DEF Streams

LEMMA MuxNextInStep ==
    MuxTypeOK /\ InStep /\ (Mp4Next \/ FlvNext \/ UNCHANGED muxVars) => InStep'
<1> SUFFICES ASSUME MuxTypeOK, InStep, Mp4Next \/ FlvNext \/ UNCHANGED muxVars PROVE InStep'
  OBVIOUS
<1>1. ASSUME NEW s \in Streams, Mp4Frame(s) PROVE InStep'
  BY <1>1, ChosenMoves DEF Mp4Frame, Encoding
<1>2. ASSUME NEW s \in Streams, Mp4Flush(s) PROVE InStep'
  <2>1. finish'[s]
    BY <1>2 DEF Mp4Flush, MuxTypeOK
  <2> QED
    BY <2>1 DEF InStep, Streams
<1>3. ASSUME NEW s \in Streams, FlvFrame(s) PROVE InStep'
  BY <1>3, ChosenMoves DEF FlvFrame, Encoding
<1>4. ASSUME NEW s \in Streams, FlvFlush(s) PROVE InStep'
  <2>1. UNCHANGED next_pts
    BY <1>4 DEF FlvFlush, input
  <2>2. UNCHANGED finish \/ finish' = [finish EXCEPT ![s] = TRUE]
    BY <1>4 DEF FlvFlush
  <2>3. \A r \in Streams : ~finish'[r] => ~finish[r]
    BY <2>2 DEF MuxTypeOK
  <2> QED
    BY <2>1, <2>3 DEF InStep, Streams
<1>5. CASE UNCHANGED <<next_pts, finish>>
  BY <1>5 DEF InStep
<1>6. SendTrailer \/ UNCHANGED muxVars => UNCHANGED <<next_pts, finish>>
  BY DEF SendTrailer, muxVars, input
<1>7. ASSUME NEW s \in Streams, FlvFails(s) PROVE UNCHANGED <<next_pts, finish>>
  BY <1>7 DEF FlvFails, input
<1> QED
  BY <1>1, <1>2, <1>3, <1>4, <1>5, <1>6, <1>7 DEF Mp4Next, FlvNext

-----------------------------------------------------------------------------
(* audio_mix                                                               *)

LEMMA MixInitType == MixInit => MixTypeOK
<1> SUFFICES ASSUME MixInit PROVE MixTypeOK
  OBVIOUS
<1>1. total \in [Files -> 0..MaxLength] /\ left = total
  BY DEF MixInit
<1>2. frames \in Seq(1..Chunk)
  BY EmptySeq DEF MixInit
<1> QED
  BY <1>1, <1>2 DEF MixInit, MixTypeOK

\* What fread gives.
LEMMA GotType ==
    ASSUME MixTypeOK, NEW i \in Files
    PROVE  /\ Got(i) \in Nat /\ Got(i) <= Chunk
           /\ left[i] - Got(i) \in 0..MaxLength
<1>1. left[i] \in 0..MaxLength
  BY DEF MixTypeOK
<1> QED
  BY <1>1, ConstantTypes DEF Got, Lesser

\* A frame of amix is not longer than what is left of the frame of input 1, if that is
\* on, nor than what input 2 has, if that is on.
LEMMA FrameSizeType ==
    ASSUME MixTypeOK
    PROVE  /\ FrameSize \in Nat
           /\ On2 => FrameSize <= waiting
           /\ 1 \notin closed /\ FrameSize > 0 => frames # <<>> /\ FrameSize <= Head(frames)
<1>1. waiting \in Nat /\ frames \in Seq(1..Chunk)
  BY DEF MixTypeOK
<1>2. CASE 1 \in closed
  BY <1>1, <1>2 DEF FrameSize
<1>3. CASE 1 \notin closed /\ frames = <<>>
  BY <1>1, <1>3 DEF FrameSize
<1>4. CASE 1 \notin closed /\ frames # <<>>
  <2>1. Head(frames) \in 1..Chunk
    BY <1>1, <1>4, HeadTailProperties
  <2>2. Head(frames) \in Nat
    BY <2>1, ConstantTypes
  <2>3. CASE Short
    <3>1. FrameSize \in {0, waiting} /\ waiting < Head(frames)
      BY <1>4, <2>3 DEF FrameSize, Short
    <3> QED
      BY <1>1, <1>4, <2>2, <3>1
  <2>4. CASE ~Short
    <3>1. FrameSize = Head(frames) /\ (On2 => Head(frames) <= waiting)
      BY <1>1, <1>4, <2>2, <2>4 DEF FrameSize, Short
    <3> QED
      BY <1>1, <1>4, <2>2, <3>1
  <2> QED
    BY <2>3, <2>4
<1> QED
  BY <1>2, <1>3, <1>4

LEMMA MixNextType == MixTypeOK /\ (MixNext \/ UNCHANGED mixVars) => MixTypeOK'
<1> SUFFICES ASSUME MixTypeOK, MixNext \/ UNCHANGED mixVars PROVE MixTypeOK'
  OBVIOUS
<1>0. /\ total \in [Files -> 0..MaxLength] /\ left \in [Files -> 0..MaxLength]
      /\ ended \subseteq Files /\ closed \subseteq Files
      /\ mixing \in {"read", "get", "done"} /\ frames \in Seq(1..Chunk)
      /\ waiting \in Nat /\ mixed \in Nat /\ failed \in BOOLEAN
  BY DEF MixTypeOK
<1>1. CASE ReadBoth \/ AddFails
  <2>1. left' = [i \in Files |-> left[i] - Got(i)]
    BY <1>1 DEF ReadBoth, AddFails
  <2>2. left' \in [Files -> 0..MaxLength]
    BY <2>1, GotType
  <2>3. CASE ReadBoth
    <3>1. frames' \in Seq(1..Chunk)
      <4>1. Got(1) > 0 => Got(1) \in 1..Chunk
        BY GotType, ConstantTypes DEF Files
      <4> QED
        BY <1>0, <2>3, <4>1, AppendProperties DEF ReadBoth
    <3>2. waiting' \in Nat
      BY <1>0, <2>3, GotType DEF ReadBoth, Files
    <3>3. /\ ended' \subseteq Files /\ closed' \subseteq Files /\ mixing' = "get"
          /\ UNCHANGED <<total, mixed, failed>>
      BY <1>0, <2>3 DEF ReadBoth
    <3> QED
      BY <1>0, <2>2, <3>1, <3>2, <3>3 DEF MixTypeOK
  <2>4. CASE AddFails
    BY <1>0, <2>2, <2>4 DEF AddFails, MixTypeOK
  <2> QED
    BY <1>1, <2>3, <2>4
<1>2. CASE GetFrame
  <2>1. FrameSize \in Nat /\ FrameSize > 0 /\ Remove(FrameSize)
    BY <1>2, FrameSizeType DEF GetFrame
  <2>2. frames' \in Seq(1..Chunk)
    <3>1. CASE 1 \in closed
      BY <1>0, <2>1, <3>1 DEF Remove
    <3>2. CASE 1 \notin closed
      <4>1. frames # <<>> /\ FrameSize <= Head(frames)
        BY <2>1, <3>2, FrameSizeType
      <4>2. Head(frames) \in 1..Chunk /\ Tail(frames) \in Seq(1..Chunk)
        BY <1>0, <4>1, HeadTailProperties
      <4>3. FrameSize # Head(frames) => Head(frames) - FrameSize \in 1..Chunk
        BY <2>1, <4>1, <4>2, ConstantTypes
      <4>4. FrameSize # Head(frames) => <<Head(frames) - FrameSize>> \in Seq(1..Chunk)
        BY <4>3
      <4>5. CASE FrameSize = Head(frames)
        BY <2>1, <3>2, <4>2, <4>5 DEF Remove
      <4>6. CASE FrameSize # Head(frames)
        <5>1. frames' = <<Head(frames) - FrameSize>> \o Tail(frames)
          BY <2>1, <3>2, <4>6 DEF Remove
        <5> QED
          BY <4>2, <4>4, <4>6, <5>1, ConcatProperties
      <4> QED
        BY <4>5, <4>6
    <3> QED
      BY <3>1, <3>2
  <2>3. waiting' \in Nat
    <3>1. waiting' = IF On2 THEN waiting - FrameSize ELSE waiting
      BY <2>1 DEF Remove
    <3>2. On2 => FrameSize <= waiting
      BY FrameSizeType
    <3> QED
      BY <1>0, <2>1, <3>1, <3>2
  <2>4. mixed' \in Nat /\ UNCHANGED <<total, left, ended, mixing, closed, failed>>
    BY <1>0, <1>2, <2>1 DEF GetFrame
  <2> QED
    BY <1>0, <2>2, <2>3, <2>4 DEF MixTypeOK
<1>3. CASE ReadNothing \/ GetNothing \/ UNCHANGED mixVars
  BY <1>0, <1>3 DEF ReadNothing, GetNothing, mixVars, MixTypeOK
<1> QED
  BY <1>1, <1>2, <1>3 DEF MixNext

-----------------------------------------------------------------------------
(* How far the mix is                                                      *)

\* The samples in a list of at most two frames.
KeptIn(s) == IF s = <<>> THEN 0 ELSE IF Len(s) = 1 THEN s[1] ELSE s[1] + s[2]

LEMMA KeptLength ==
    ASSUME NEW s \in Seq(Nat), Len(s) \in {0, 1, 2}
    PROVE  /\ s = <<>> <=> Len(s) = 0
           /\ Len(s) = 0 => KeptIn(s) = 0
           /\ Len(s) = 1 => s[1] \in Nat /\ KeptIn(s) = s[1]
           /\ Len(s) = 2 => s[1] \in Nat /\ s[2] \in Nat /\ KeptIn(s) = s[1] + s[2]
<1>2. s = <<>> <=> Len(s) = 0
  BY EmptySeq
<1>3. Len(s) = 0 => KeptIn(s) = 0
  BY <1>2 DEF KeptIn
<1>4. ASSUME Len(s) = 1 PROVE s[1] \in Nat /\ KeptIn(s) = s[1]
  <2>1. 1 \in 1..Len(s)
    BY <1>4
  <2>2. s[1] \in Nat
    BY <2>1, ElementOfSeq
  <2> QED
    BY <1>2, <1>4, <2>2 DEF KeptIn
<1>5. ASSUME Len(s) = 2 PROVE s[1] \in Nat /\ s[2] \in Nat /\ KeptIn(s) = s[1] + s[2]
  <2>1. 1 \in 1..Len(s) /\ 2 \in 1..Len(s)
    BY <1>5
  <2>2. s[1] \in Nat /\ s[2] \in Nat
    BY <2>1, ElementOfSeq
  <2> QED
    BY <1>2, <1>5, <2>2 DEF KeptIn
<1> QED
  BY <1>2, <1>3, <1>4, <1>5

LEMMA KeptType == ASSUME NEW s \in Seq(Nat), Len(s) \in {0, 1, 2} PROVE KeptIn(s) \in Nat
BY KeptLength

LEMMA KeptAppend ==
    ASSUME NEW s \in Seq(Nat), NEW n \in Nat, Len(s) \in {0, 1}
    PROVE  /\ KeptIn(Append(s, n)) = KeptIn(s) + n
           /\ Len(Append(s, n)) = Len(s) + 1
           /\ Append(s, n) # <<>>
<1> DEFINE t == Append(s, n)
<1>1. /\ t \in Seq(Nat) /\ t # <<>>
      /\ Len(t) = Len(s) + 1
      /\ \A i \in 1..Len(s) : t[i] = s[i]
      /\ t[Len(s) + 1] = n
  BY AppendProperties
<1> HIDE DEF t
<1>3. CASE Len(s) = 0
  <2>1. KeptIn(s) = 0
    BY <1>3, KeptLength
  <2>2. t[1] = n /\ Len(t) = 1
    BY <1>1, <1>3
  <2> QED
    BY <1>1, <2>1, <2>2, <1>3 DEF KeptIn, t
<1>4. CASE Len(s) = 1
  <2>1. KeptIn(s) = s[1] /\ s[1] \in Nat
    BY <1>4, KeptLength
  <2>2. t[1] = s[1] /\ t[2] = n /\ Len(t) = 2
    BY <1>1, <1>4
  <2>3. KeptIn(t) = t[1] + t[2]
    BY <1>1, <2>2, KeptLength
  <2>4. KeptIn(Append(s, n)) = KeptIn(s) + n
    BY <2>1, <2>2, <2>3 DEF t
  <2> QED
    BY <1>1, <2>4 DEF t
<1> QED
  BY <1>3, <1>4

LEMMA KeptHead ==
    ASSUME NEW s \in Seq(Nat), Len(s) \in {1, 2}
    PROVE  /\ Head(s) \in Nat /\ s # <<>>
           /\ Len(s) = 1 => KeptIn(s) = Head(s)
           /\ KeptIn(Tail(s)) = KeptIn(s) - Head(s)
           /\ Len(Tail(s)) = Len(s) - 1
<1> DEFINE t == Tail(s)
<1>0. s # <<>>
  BY KeptLength
<1>1. /\ t \in Seq(Nat)
      /\ Len(t) = Len(s) - 1
      /\ \A i \in 1..Len(t) : t[i] = s[i + 1]
  BY <1>0, HeadTailProperties
<1>4. Head(s) = s[1]
  BY <1>0
<1> HIDE DEF t
<1>2. CASE Len(s) = 1
  <2>1. Len(t) = 0
    BY <1>1, <1>2
  <2>2. t = <<>>
    BY <1>1, <2>1, EmptySeq
  <2>3. KeptIn(t) = 0
    BY <2>2 DEF KeptIn
  <2>4. KeptIn(s) = s[1] /\ s[1] \in Nat
    BY <1>2, KeptLength
  <2> QED
    BY <1>0, <1>2, <1>4, <2>1, <2>3, <2>4 DEF t
<1>3. CASE Len(s) = 2
  <2>1. Len(t) = 1
    BY <1>1, <1>3
  <2>2. t[1] = s[2] /\ t # <<>>
    BY <1>1, <2>1, EmptySeq
  <2>3. KeptIn(t) = s[2]
    BY <2>1, <2>2 DEF KeptIn
  <2>4. KeptIn(s) = s[1] + s[2] /\ s[1] \in Nat /\ s[2] \in Nat
    BY <1>3, KeptLength
  <2>5. KeptIn(t) = KeptIn(s) - s[1]
    BY <2>3, <2>4
  <2> QED
    BY <1>0, <1>3, <1>4, <2>1, <2>4, <2>5 DEF t
<1> QED
  BY <1>2, <1>3

LEMMA KeptCut ==
    ASSUME NEW s \in Seq(Nat), Len(s) \in {1, 2}, NEW n \in Nat, n <= Head(s)
    PROVE  /\ KeptIn(<<Head(s) - n>> \o Tail(s)) = KeptIn(s) - n
           /\ Len(<<Head(s) - n>> \o Tail(s)) = Len(s)
           /\ <<Head(s) - n>> \o Tail(s) # <<>>
<1> DEFINE cut == <<Head(s) - n>>
           t == Tail(s)
           both == cut \o t
<1>0. s # <<>> /\ Head(s) \in Nat
  BY KeptHead
<1>1. Head(s) - n \in Nat /\ s # <<>> /\ Head(s) = s[1]
  BY <1>0
<1>2. cut \in Seq(Nat) /\ Len(cut) = 1 /\ cut[1] = Head(s) - n
  BY <1>1
<1>3. /\ t \in Seq(Nat) /\ Len(t) = Len(s) - 1
      /\ \A i \in 1..Len(t) : t[i] = s[i + 1]
  BY <1>1, HeadTailProperties
<1> HIDE DEF cut
<1> HIDE DEF t
<1>4. /\ both \in Seq(Nat) /\ Len(both) = Len(cut) + Len(t)
      /\ \A i \in 1..(Len(cut) + Len(t)) :
            both[i] = IF i <= Len(cut) THEN cut[i] ELSE t[i - Len(cut)]
  BY <1>2, <1>3, ConcatProperties
<1> HIDE DEF both
<1>7. CASE Len(s) = 1
  <2>1. Len(both) = 1 /\ both[1] = Head(s) - n
    BY <1>2, <1>3, <1>4, <1>7
  <2>2. both # <<>>
    BY <1>4, <2>1, KeptLength
  <2>3. KeptIn(both) = Head(s) - n
    BY <2>1, <2>2 DEF KeptIn
  <2> QED
    BY <1>7, <2>1, <2>2, <2>3, KeptHead DEF both, cut, t
<1>8. CASE Len(s) = 2
  <2>1. Len(both) = 2 /\ both[1] = Head(s) - n /\ both[2] = s[2]
    BY <1>2, <1>3, <1>4, <1>8
  <2>2. both # <<>>
    BY <1>4, <2>1, KeptLength
  <2>3. KeptIn(both) = (Head(s) - n) + s[2]
    BY <2>1, <2>2 DEF KeptIn
  <2>4. KeptIn(s) = s[1] + s[2] /\ s[1] \in Nat /\ s[2] \in Nat
    BY <1>8, KeptLength
  <2>5. KeptIn(both) = KeptIn(s) - n
    BY <1>1, <2>3, <2>4
  <2> QED
    BY <1>8, <2>1, <2>2, <2>5 DEF both, cut, t
<1> QED
  BY <1>7, <1>8
\* What is left of the frames of input 1, and what was put in of a file.
Kept == KeptIn(frames)
Fed(i) == total[i] - left[i]

\* Both inputs are on: what was put in is mixed or waits, and the file of which there is
\* less is at its end.
BothOn ==
    /\ Len(frames) \in {0, 1}
    /\ mixed + Kept = Fed(1) /\ mixed + waiting = Fed(2)
    /\ waiting <= Chunk /\ (frames = <<>> => waiting < Chunk)
    /\ Fed(1) < Fed(2) => left[1] = 0
    /\ Fed(2) < Fed(1) => left[2] = 0

\* File 1 has ended.  What waited then is cut into one frame with the next chunk, for
\* which there may be no room; after it all is mixed.
SecondOn ==
    /\ left[1] = 0 /\ frames = <<>> /\ Fed(1) <= Fed(2)
    /\ \/ mixed + waiting = Fed(2) /\ waiting < 2 * Chunk
       \/ /\ mixed + waiting <= Fed(2) /\ mixed + waiting > Fed(2) - 2 * Chunk
          /\ waiting <= Chunk

\* File 2 has ended.
FirstOn ==
    /\ left[2] = 0 /\ Fed(2) <= Fed(1)
    /\ Len(frames) \in {0, 1, 2} /\ mixed + Kept = Fed(1)

Levels ==
    \/ closed = {} /\ BothOn
    \/ closed = {1} /\ SecondOn
    \/ closed = {2} /\ FirstOn

MixInv ==
    ~failed =>
        /\ ended = closed
        /\ Levels
        /\ mixing # "get" => FrameSize = 0
        /\ mixing = "done" => left[1] = 0 /\ left[2] = 0

\* The numbers of the mixer.
LEMMA MixNumbers ==
    ASSUME MixTypeOK
    PROVE  /\ total[1] \in Nat /\ total[2] \in Nat /\ left[1] \in Nat /\ left[2] \in Nat
           /\ Fed(1) \in Int /\ Fed(2) \in Int
           /\ waiting \in Nat /\ mixed \in Nat
           /\ frames \in Seq(Nat) /\ Len(frames) \in Nat /\ (frames = <<>> <=> Len(frames) = 0)
           /\ frames # <<>> => Head(frames) >= 1 /\ Head(frames) <= Chunk
<1>1. /\ total \in [Files -> 0..MaxLength] /\ left \in [Files -> 0..MaxLength]
      /\ waiting \in Nat /\ mixed \in Nat /\ frames \in Seq(1..Chunk)
  BY DEF MixTypeOK
<1>2. total[1] \in Nat /\ total[2] \in Nat /\ left[1] \in Nat /\ left[2] \in Nat
  BY <1>1, ConstantTypes DEF Files
<1>3. frames \in Seq(Nat)
  BY <1>1, ConstantTypes
<1>4. frames # <<>> => Head(frames) \in 1..Chunk
  BY <1>1, HeadTailProperties
<1>5. Len(frames) \in Nat /\ (frames = <<>> <=> Len(frames) = 0)
  BY <1>1, LenProperties, EmptySeq
<1> QED
  BY <1>1, <1>2, <1>3, <1>4, <1>5, ConstantTypes DEF Fed

\* When amix has no frame, it is because one of the two inputs has nothing to give.
LEMMA NoFrame ==
    ASSUME MixTypeOK, FrameSize = 0
    PROVE  /\ closed = {} => frames = <<>> \/ waiting < Head(frames)
           /\ closed = {1} => waiting = 0
           /\ closed = {2} => frames = <<>>
BY MixNumbers DEF FrameSize, Short, On2

LEMMA MixInitInv == MixInit => MixInv
<1> SUFFICES ASSUME MixInit PROVE MixInv
  OBVIOUS
<1>1. MixTypeOK
  BY MixInitType
<1>2. /\ left = total /\ ended = {} /\ closed = {} /\ mixing = "read" /\ frames = <<>>
      /\ waiting = 0 /\ mixed = 0
  BY DEF MixInit
<1>3. Len(frames) = 0 /\ Kept = 0
  BY <1>2, EmptySeq DEF Kept, KeptIn
<1>4. Fed(1) = 0 /\ Fed(2) = 0
  BY <1>1, <1>2, MixNumbers DEF Fed
<1>5. FrameSize = 0
  BY <1>2 DEF FrameSize
<1>6. BothOn
  BY <1>2, <1>3, <1>4, ConstantTypes DEF BothOn
<1> QED
  BY <1>2, <1>5, <1>6 DEF MixInv, Levels

\* A chunk of each file that has one.
LEMMA ReadBothInv ==
    ASSUME MixTypeOK, MixInv, ReadBoth, ~failed
    PROVE  /\ closed' = ended'
           /\ Levels'
           /\ mixing' = "get"
<1>1. /\ ended = closed /\ Levels /\ FrameSize = 0
  BY DEF MixInv, ReadBoth
<1> DEFINE g1 == Got(1)
           g2 == Got(2)
<1>2. /\ left'[1] = left[1] - g1 /\ left'[2] = left[2] - g2
      /\ frames' = (IF g1 > 0 THEN Append(frames, g1) ELSE frames)
      /\ waiting' = waiting + g2
      /\ ended' = ended \cup {i \in Files : Got(i) = 0}
      /\ closed' = closed \cup {i \in Files : Got(i) = 0 /\ i \notin ended}
      /\ mixing' = "get"
      /\ UNCHANGED <<total, mixed>>
  BY DEF ReadBoth, Files
<1>3. g1 > 0 \/ g2 > 0
  BY DEF ReadBoth, Files
<1>4. /\ g1 \in Nat /\ g1 <= Chunk /\ (g1 = 0 <=> left[1] = 0)
      /\ (g1 < Chunk => left[1] - g1 = 0)
      /\ g2 \in Nat /\ g2 <= Chunk /\ (g2 = 0 <=> left[2] = 0)
      /\ (g2 < Chunk => left[2] - g2 = 0)
  BY MixNumbers, ConstantTypes DEF Got, Lesser
<1>11. g1 <= left[1] /\ g2 <= left[2]
  BY MixNumbers, ConstantTypes DEF Got, Lesser
<1>5. ended' = closed'
  BY <1>1, <1>2
<1>6. /\ g1 > 0 /\ g2 > 0 => closed' = closed
      /\ g1 = 0 /\ g2 > 0 => closed' = closed \cup {1}
      /\ g1 > 0 /\ g2 = 0 => closed' = closed \cup {2}
  <2>1. {i \in Files : Got(i) = 0}
           = (IF g1 = 0 THEN {1} ELSE {}) \cup (IF g2 = 0 THEN {2} ELSE {})
    BY DEF Files
  <2>2. closed' = closed \cup {i \in Files : Got(i) = 0}
    BY <1>1, <1>2
  <2> HIDE DEF g1, g2
  <2>4. closed' = closed \cup ((IF g1 = 0 THEN {1} ELSE {}) \cup (IF g2 = 0 THEN {2} ELSE {}))
    BY <2>1, <2>2
  <2>5. CASE g1 > 0 /\ g2 > 0
    BY <1>4, <2>4, <2>5
  <2>6. CASE g1 = 0 /\ g2 > 0
    BY <1>4, <2>4, <2>6
  <2>7. CASE g1 > 0 /\ g2 = 0
    BY <1>4, <2>4, <2>7
  <2> QED
    BY <1>3, <1>4, <2>5, <2>6, <2>7
<1>7. /\ Fed(1)' = Fed(1) + g1 /\ Fed(2)' = Fed(2) + g2
      /\ left'[1] \in Nat /\ left'[2] \in Nat
  <2> HIDE DEF g1, g2
  <2>1. Fed(1)' = total[1] - (left[1] - g1) /\ Fed(2)' = total[2] - (left[2] - g2)
    BY <1>2 DEF Fed
  <2>2. left[1] - g1 \in Nat /\ left[2] - g2 \in Nat
    BY <1>4, <1>11, MixNumbers
  <2>3. total[1] - (left[1] - g1) = (total[1] - left[1]) + g1
    BY <1>4, MixNumbers
  <2>4. total[2] - (left[2] - g2) = (total[2] - left[2]) + g2
    BY <1>4, MixNumbers
  <2> QED
    BY <1>2, <2>1, <2>2, <2>3, <2>4 DEF Fed
<1> HIDE DEF g1, g2
<1>8. CASE closed = {} /\ BothOn
  <2>1. frames = <<>> \/ waiting < Head(frames)
    BY <1>1, <1>8, NoFrame
  <2>2. Len(frames) \in {0, 1} /\ frames \in Seq(Nat) /\ mixed \in Nat /\ waiting \in Nat
    BY <1>8, MixNumbers DEF BothOn
  <2>3. frames = <<>> => Kept = 0 /\ Len(frames) = 0
    BY EmptySeq DEF Kept, KeptIn
  <2>4. frames # <<>> => Kept = Head(frames) /\ Len(frames) = 1
    BY <2>2, KeptLength, KeptHead DEF Kept
  <2>5. g1 > 0 => Kept' = Kept + g1 /\ Len(frames') = Len(frames) + 1 /\ frames' # <<>>
    BY <1>2, <1>4, <2>2, KeptAppend DEF Kept
  <2>6. Kept \in Nat
    BY <2>2, KeptType DEF Kept
  <2>7. CASE g1 > 0 /\ g2 > 0
    <3>1. Fed(1) = Fed(2)
      BY <1>4, <1>8, <2>7, MixNumbers DEF BothOn
    <3>2. Kept = waiting
      BY <1>8, <2>2, <2>6, <3>1, MixNumbers DEF BothOn
    <3>3. frames = <<>> /\ waiting = 0
      BY <2>1, <2>2, <2>3, <2>4, <3>2
    <3>4. /\ Len(frames') = 1 /\ frames' # <<>> /\ Kept' = g1 /\ waiting' = g2
          /\ mixed' = mixed
      BY <1>2, <1>4, <2>3, <2>5, <2>7, <3>3
    <3>5. mixed = Fed(1) /\ mixed = Fed(2)
      BY <1>8, <2>2, <2>3, <3>3, MixNumbers DEF BothOn
    <3>6. /\ Fed(1)' < Fed(2)' => left'[1] = 0
          /\ Fed(2)' < Fed(1)' => left'[2] = 0
      BY <1>2, <1>4, <1>7, <3>1, MixNumbers, ConstantTypes
    <3>7. BothOn'
      BY <1>4, <1>7, <2>2, <3>4, <3>5, <3>6 DEF BothOn
    <3> QED
      BY <1>2, <1>5, <1>6, <1>8, <2>7, <3>7 DEF Levels
  <2>8. CASE g1 = 0 /\ g2 > 0
    <3>1. Fed(1) <= Fed(2)
      BY <1>4, <1>8, <2>8, MixNumbers DEF BothOn
    <3>2. frames = <<>> /\ waiting < Chunk
      BY <1>8, <2>1, <2>2, <2>4, <3>1, MixNumbers DEF BothOn
    <3>3. /\ frames' = <<>> /\ left'[1] = 0 /\ waiting' = waiting + g2 /\ mixed' = mixed
          /\ Fed(1)' = Fed(1)
      BY <1>2, <1>4, <1>7, <2>8, <3>2, MixNumbers
    <3>4. mixed' + waiting' = Fed(2)' /\ waiting' < 2 * Chunk
      BY <1>4, <1>7, <1>8, <2>2, <3>2, <3>3, MixNumbers, ConstantTypes DEF BothOn
    <3>5. SecondOn'
      BY <1>4, <1>7, <3>1, <3>3, <3>4, MixNumbers DEF SecondOn
    <3> QED
      BY <1>2, <1>5, <1>6, <1>8, <2>8, <3>5 DEF Levels
  <2>9. CASE g1 > 0 /\ g2 = 0
    <3>1. Fed(2) <= Fed(1)
      BY <1>4, <1>8, <2>9, MixNumbers DEF BothOn
    <3>2. /\ left'[2] = 0 /\ Fed(2)' <= Fed(1)' /\ mixed' = mixed
      BY <1>2, <1>4, <1>7, <2>9, <3>1, MixNumbers
    <3>3. Len(frames') \in {0, 1, 2} /\ Kept' = Kept + g1
      <4>1. Len(frames') = Len(frames) + 1 /\ Kept' = Kept + g1
        BY <2>5, <2>9
      <4>2. CASE Len(frames) = 0
        BY <4>1, <4>2
      <4>3. CASE Len(frames) = 1
        BY <4>1, <4>3
      <4> QED
        BY <2>2, <4>2, <4>3
    <3>5. mixed' + Kept' = Fed(1)'
      BY <1>4, <1>7, <1>8, <2>2, <2>6, <3>2, <3>3, MixNumbers DEF BothOn
    <3>4. FirstOn'
      BY <3>2, <3>3, <3>5 DEF FirstOn
    <3> QED
      BY <1>2, <1>5, <1>6, <1>8, <2>9, <3>4 DEF Levels
  <2> QED
    BY <1>3, <1>4, <2>7, <2>8, <2>9
<1>9. CASE closed = {1} /\ SecondOn
  <2>1. g1 = 0 /\ g2 > 0 /\ waiting = 0
    BY <1>1, <1>3, <1>4, <1>9, NoFrame DEF SecondOn
  <2>2. closed' = {1}
    BY <1>6, <1>9, <2>1
  <2>3. /\ frames' = <<>> /\ left'[1] = 0 /\ waiting' = g2 /\ mixed' = mixed
        /\ Fed(1)' = Fed(1) /\ Fed(2)' = Fed(2) + g2
    BY <1>2, <1>4, <1>7, <1>9, <2>1, MixNumbers DEF SecondOn
  <2>4. /\ mixed' + waiting' <= Fed(2)' /\ mixed' + waiting' > Fed(2)' - 2 * Chunk
        /\ waiting' <= Chunk
    BY <1>4, <1>9, <2>1, <2>3, MixNumbers, ConstantTypes DEF SecondOn
  <2>5. SecondOn'
    BY <1>4, <1>9, <2>3, <2>4, MixNumbers DEF SecondOn
  <2> QED
    BY <1>2, <1>5, <2>2, <2>5 DEF Levels
<1>10. CASE closed = {2} /\ FirstOn
  <2>1. g2 = 0 /\ g1 > 0 /\ frames = <<>>
    BY <1>1, <1>3, <1>4, <1>10, NoFrame DEF FirstOn
  <2>2. closed' = {2}
    BY <1>6, <1>10, <2>1
  <2>3. Kept = 0 /\ Len(frames) = 0 /\ frames \in Seq(Nat)
    BY <2>1, EmptySeq DEF Kept, KeptIn
  <2>4. Kept' = Kept + g1 /\ Len(frames') = 1
    <3>1. frames' = Append(frames, g1)
      BY <1>2, <2>1
    <3>2. Len(frames) \in {0, 1}
      BY <2>3
    <3>3. /\ KeptIn(Append(frames, g1)) = KeptIn(frames) + g1
          /\ Len(Append(frames, g1)) = Len(frames) + 1
      BY <1>4, <2>3, <3>2, KeptAppend
    <3> QED
      BY <2>3, <3>1, <3>3 DEF Kept
  <2>5. /\ left'[2] = 0 /\ mixed' = mixed /\ Fed(2)' = Fed(2) /\ Fed(1)' = Fed(1) + g1
    BY <1>2, <1>4, <1>7, <1>10, <2>1, MixNumbers DEF FirstOn
  <2>6. FirstOn'
    BY <1>4, <1>10, <2>3, <2>4, <2>5, MixNumbers DEF FirstOn
  <2> QED
    BY <1>2, <1>5, <2>2, <2>6 DEF Levels
<1> QED
  BY <1>1, <1>8, <1>9, <1>10 DEF Levels

\* A frame is taken from what amix has.
LEMMA GetFrameInv == ASSUME MixTypeOK, Levels, GetFrame PROVE Levels'
<1> DEFINE n == FrameSize
<1>1. /\ n \in Nat /\ n > 0
      /\ On2 => n <= waiting
      /\ 1 \notin closed => frames # <<>> /\ n <= Head(frames)
  BY FrameSizeType DEF GetFrame
<1>2. /\ frames' = (IF 1 \in closed THEN frames
                    ELSE IF n = Head(frames) THEN Tail(frames)
                    ELSE <<Head(frames) - n>> \o Tail(frames))
      /\ waiting' = (IF On2 THEN waiting - n ELSE waiting)
      /\ mixed' = (IF n > OutMax THEN mixed ELSE mixed + n)
      /\ UNCHANGED <<total, left, closed>>
  BY DEF GetFrame, Remove
<1>3. Fed(1)' = Fed(1) /\ Fed(2)' = Fed(2) /\ left' = left
  BY <1>2 DEF Fed
<1>4. 1 \notin closed => n <= OutMax /\ mixed' = mixed + n
  BY <1>1, <1>2, MixNumbers, ConstantTypes
<1>5. closed = {1} => n = waiting /\ On2
  BY DEF FrameSize, On2
<1> HIDE DEF n
<1>6. ASSUME 1 \notin closed, Len(frames) \in {1, 2}
      PROVE  /\ Kept' = Kept - n /\ Kept \in Nat
             /\ Len(frames') \in {Len(frames) - 1, Len(frames)}
  <2>1. frames \in Seq(Nat) /\ n <= Head(frames)
    BY <1>1, <1>6, MixNumbers
  <2>2. Kept \in Nat
    BY <1>6, <2>1, KeptType DEF Kept
  <2>3. CASE n = Head(frames)
    <3>1. frames' = Tail(frames)
      BY <1>2, <1>6, <2>3
    <3> QED
      BY <1>6, <2>1, <2>2, <2>3, <3>1, KeptHead DEF Kept
  <2>4. CASE n # Head(frames)
    <3>1. frames' = <<Head(frames) - n>> \o Tail(frames)
      BY <1>2, <1>6, <2>4
    <3> QED
      BY <1>1, <1>6, <2>1, <2>2, <3>1, KeptCut DEF Kept
  <2> QED
    BY <2>3, <2>4
<1>7. CASE closed = {} /\ BothOn
  <2>1. Len(frames) = 1 /\ On2
    BY <1>1, <1>7, MixNumbers DEF BothOn, On2
  <2>2. /\ Kept' = Kept - n /\ Len(frames') \in {0, 1} /\ Kept \in Nat /\ n <= waiting
        /\ mixed' = mixed + n /\ waiting' = waiting - n
    BY <1>1, <1>2, <1>4, <1>6, <1>7, <2>1
  <2>3. waiting' < Chunk
    BY <1>1, <1>7, <2>2, MixNumbers, ConstantTypes DEF BothOn
  <2>4. mixed' + Kept' = Fed(1)' /\ mixed' + waiting' = Fed(2)'
    <3>1. mixed + Kept = Fed(1) /\ mixed + waiting = Fed(2)
      BY <1>7 DEF BothOn
    <3>2. (mixed + n) + (Kept - n) = mixed + Kept
      BY <1>1, <2>2, MixNumbers
    <3>3. (mixed + n) + (waiting - n) = mixed + waiting
      BY <1>1, MixNumbers
    <3> QED
      BY <1>3, <2>2, <3>1, <3>2, <3>3
  <2>5. /\ Fed(1)' < Fed(2)' => left'[1] = 0
        /\ Fed(2)' < Fed(1)' => left'[2] = 0
    BY <1>3, <1>7 DEF BothOn
  <2>6. waiting' <= Chunk
    BY <1>1, <1>7, <2>2, MixNumbers, ConstantTypes DEF BothOn
  <2>7. BothOn'
    BY <2>2, <2>3, <2>4, <2>5, <2>6 DEF BothOn
  <2> QED
    BY <1>2, <1>7, <2>7 DEF Levels
<1>8. CASE closed = {1} /\ SecondOn
  <2>1. n = waiting /\ waiting' = 0 /\ frames' = <<>> /\ left'[1] = 0 /\ Fed(1)' <= Fed(2)'
    BY <1>1, <1>2, <1>3, <1>5, <1>8, MixNumbers DEF SecondOn
  <2>2. CASE n <= OutMax
    <3>1. mixed' = mixed + waiting
      BY <1>1, <1>2, <2>1, <2>2, MixNumbers, ConstantTypes
    <3>2. mixed' + waiting' = mixed + waiting
      BY <2>1, <3>1, MixNumbers
    <3> QED
      BY <1>2, <1>3, <1>8, <2>1, <3>2, MixNumbers, ConstantTypes DEF SecondOn, Levels
  <2>3. CASE n > OutMax
    <3>1. waiting > Chunk /\ mixed' = mixed
      BY <1>1, <1>2, <2>1, <2>3, MixNumbers, ConstantTypes
    <3>2. mixed + waiting = Fed(2) /\ waiting < 2 * Chunk
      BY <1>8, <3>1, MixNumbers, ConstantTypes DEF SecondOn
    <3>3. mixed' + waiting' <= Fed(2)' /\ mixed' + waiting' > Fed(2)' - 2 * Chunk
      BY <1>3, <2>1, <3>1, <3>2, MixNumbers, ConstantTypes
    <3>4. waiting' <= Chunk
      BY <2>1, ConstantTypes
    <3> QED
      BY <1>2, <1>8, <2>1, <3>3, <3>4 DEF SecondOn, Levels
  <2> QED
    BY <1>1, <2>2, <2>3, ConstantTypes
<1>9. CASE closed = {2} /\ FirstOn
  <2>1. Len(frames) \in {1, 2}
    BY <1>1, <1>9, MixNumbers DEF FirstOn
  <2>2. Kept' = Kept - n /\ Len(frames') \in {0, 1, 2} /\ Kept \in Nat /\ mixed' = mixed + n
    BY <1>1, <1>2, <1>4, <1>6, <1>9, <2>1, MixNumbers
  <2>3. mixed' + Kept' = Fed(1)'
    BY <1>1, <1>3, <1>9, <2>2, MixNumbers DEF FirstOn
  <2>4. FirstOn'
    BY <1>3, <1>9, <2>2, <2>3 DEF FirstOn
  <2> QED
    BY <1>2, <1>9, <2>4 DEF Levels
<1> QED
  BY <1>7, <1>8, <1>9 DEF Levels

LEMMA MixNextInv == MixTypeOK /\ MixInv /\ (MixNext \/ UNCHANGED mixVars) => MixInv'
<1> SUFFICES ASSUME MixTypeOK, MixInv, MixNext \/ UNCHANGED mixVars, ~failed' PROVE MixInv'
  BY DEF MixInv
<1>1. CASE ReadBoth
  <2>1. ~failed
    BY <1>1 DEF ReadBoth
  <2> QED
    BY <1>1, <2>1, ReadBothInv DEF MixInv
<1>2. CASE AddFails
  BY <1>2 DEF AddFails
<1>3. CASE GetFrame
  <2>1. ~failed /\ mixing = "get" /\ mixing' = "get" /\ UNCHANGED <<ended, closed>>
    BY <1>3 DEF GetFrame
  <2>2. ended = closed /\ Levels
    BY <2>1 DEF MixInv
  <2>3. Levels'
    BY <1>3, <2>2, GetFrameInv
  <2> QED
    BY <2>1, <2>2, <2>3 DEF MixInv
<1>4. CASE ReadNothing \/ GetNothing \/ UNCHANGED mixVars
  <2>1. ~failed /\ UNCHANGED <<total, left, ended, frames, waiting, closed, mixed>>
    BY <1>4 DEF ReadNothing, GetNothing, mixVars
  <2>2. ended' = closed' /\ (FrameSize' = FrameSize) /\ Levels'
    BY <2>1 DEF MixInv, FrameSize, Short, On2, Levels, BothOn, SecondOn, FirstOn, Fed, Kept
  <2>3. mixing' # "get" => FrameSize = 0
    BY <1>4, <2>1 DEF ReadNothing, GetNothing, mixVars, MixInv
  <2>4. mixing' = "done" => left'[1] = 0 /\ left'[2] = 0
    <3>1. CASE ReadNothing
      <4>1. Got(1) = 0 /\ Got(2) = 0
        BY <3>1 DEF ReadNothing, Files
      <4> QED
        BY <2>1, <4>1, MixNumbers, ConstantTypes DEF Got, Lesser
    <3>2. CASE GetNothing
      BY <3>2 DEF GetNothing
    <3>3. CASE UNCHANGED mixVars
      BY <2>1, <3>3 DEF mixVars, MixInv
    <3> QED
      BY <1>4, <3>1, <3>2, <3>3
  <2> QED
    BY <2>2, <2>3, <2>4 DEF MixInv
<1> QED
  BY <1>1, <1>2, <1>3, <1>4 DEF MixNext

LEMMA MixEnds == MixTypeOK /\ MixInv => MixGoesOn
<1> SUFFICES ASSUME MixTypeOK, MixInv, mixing = "done", ~failed
             PROVE  /\ mixed <= Greater(total[1], total[2])
                    /\ mixed > Greater(total[1], total[2]) - 2 * Chunk
  BY DEF MixGoesOn
<1>1. FrameSize = 0 /\ Levels /\ left[1] = 0 /\ left[2] = 0
  BY DEF MixInv
<1>2. Fed(1) = total[1] /\ Fed(2) = total[2]
  BY <1>1, MixNumbers DEF Fed
<1>3. Greater(total[1], total[2]) = IF Fed(1) < Fed(2) THEN Fed(2) ELSE Fed(1)
  BY <1>2 DEF Greater
<1>4. CASE closed = {} /\ BothOn
  <2>1. Kept \in Nat /\ Kept <= Chunk
    <3>1. CASE frames = <<>>
      BY <3>1, ConstantTypes DEF Kept, KeptIn
    <3>2. CASE frames # <<>>
      BY <1>4, <3>2, KeptLength, KeptHead, MixNumbers DEF Kept, BothOn
    <3> QED
      BY <3>1, <3>2
  <2> QED
    BY <1>3, <1>4, <2>1, MixNumbers, ConstantTypes DEF BothOn
<1>5. CASE closed = {1} /\ SecondOn
  <2>1. waiting = 0
    BY <1>1, <1>5, NoFrame
  <2> QED
    BY <1>3, <1>5, <2>1, MixNumbers, ConstantTypes DEF SecondOn
<1>6. CASE closed = {2} /\ FirstOn
  <2>1. frames = <<>> /\ Kept = 0
    BY <1>1, <1>6, NoFrame DEF Kept, KeptIn
  <2> QED
    BY <1>3, <1>6, <2>1, MixNumbers, ConstantTypes DEF FirstOn
<1> QED
  BY <1>1, <1>4, <1>5, <1>6 DEF Levels

-----------------------------------------------------------------------------
(* The programs that decode                                                *)

LEMMA DecodeConstants ==
    /\ InBuf \in Nat /\ Refill \in Nat /\ Refill <= InBuf /\ Reorder \in Nat
    /\ MaxContent \in Nat /\ MaxContent > 0
BY DecodingAssumption DEF DecodingAssumption

LEMMA DecodeInitType ==
    DecodeInit(program = "decode_audio") => DecodeTypeOK
<1> SUFFICES ASSUME DecodeInit(program = "decode_audio") PROVE DecodeTypeOK
  OBVIOUS
<1>1. content \in 1..MaxContent /\ content \in Nat /\ content <= MaxContent
  BY DecodeConstants DEF DecodeInit
<1>2. Fewer(InBuf, content) \in Nat /\ Fewer(InBuf, content) <= InBuf
      /\ Fewer(InBuf, content) <= content
  BY <1>1, DecodeConstants DEF Fewer
<1>3. data_size \in Nat /\ data_size <= InBuf /\ data_size <= content /\ data = 0
  BY <1>1, <1>2, DecodeConstants DEF DecodeInit
<1>4. unread \in 0..MaxContent
  BY <1>1, <1>3, DecodeConstants DEF DecodeInit
<1>5. /\ partial = 0 /\ given = 0 /\ found = 0 /\ delayed = 0 /\ saved = 0 /\ unused = 0
      /\ filtering = FALSE /\ decoding = "reading"
  BY DEF DecodeInit
<1>6. data + data_size <= InBuf /\ 0 \in 0..Reorder
  BY <1>3, DecodeConstants
<1> QED
  BY <1>1, <1>3, <1>4, <1>5, <1>6 DEF DecodeTypeOK

\* The numbers in the state.
LEMMA DecodeNumbers ==
    ASSUME DecodeTypeOK
    PROVE  /\ data \in Nat /\ data_size \in Nat /\ data + data_size <= InBuf
           /\ unread \in Nat /\ unread <= MaxContent
           /\ partial \in Nat /\ given \in Nat /\ found \in Nat
           /\ delayed \in Nat /\ delayed \in 0..Reorder /\ saved \in Nat /\ unused \in Nat
<1>1. unread \in 0..MaxContent /\ delayed \in 0..Reorder
  BY DEF DecodeTypeOK
<1>2. unread \in Nat /\ unread <= MaxContent /\ delayed \in Nat
  BY <1>1, DecodeConstants
<1> QED
  BY <1>1, <1>2 DEF DecodeTypeOK

\* Using n bytes keeps data and data_size within inbuf: moving them to the front and
\* reading on fills it at most.
LEMMA ConsumeType ==
    ASSUME DecodeTypeOK, NEW n \in Nat, n <= data_size, Consume(n)
    PROVE  /\ data' \in Nat /\ data_size' \in Nat /\ data' + data_size' <= InBuf
           /\ unread' \in 0..MaxContent
<1>0. /\ data \in Nat /\ data_size \in Nat /\ data + data_size <= InBuf
      /\ unread \in Nat /\ unread <= MaxContent
  BY DecodeNumbers
<1> DEFINE rest == data_size - n
           len == IF rest < Refill THEN Fewer(InBuf - rest, unread) ELSE 0
<1>1. rest \in Nat /\ rest + n = data_size /\ rest <= InBuf
  BY <1>0, DecodeConstants
<1>2. /\ data' = IF rest < Refill THEN 0 ELSE data + n
      /\ data_size' = rest + len
      /\ unread' = unread - len
  BY DEF Consume
<1>3. len \in Nat /\ len <= unread /\ len <= InBuf - rest
  BY <1>0, <1>1, DecodeConstants DEF Fewer
<1> HIDE DEF rest, len
<1>4. CASE rest < Refill
  BY <1>0, <1>1, <1>2, <1>3, <1>4, DecodeConstants
<1>5. CASE ~(rest < Refill)
  <2>1. len = 0
    BY <1>5 DEF len
  <2> QED
    BY <1>0, <1>1, <1>2, <1>5, <2>1, DecodeConstants
<1> QED
  BY <1>4, <1>5

\* A decoder holds no more frames than it may.
LEMMA ThroughType ==
    ASSUME DecodeTypeOK, Through
    PROVE  delayed' \in 0..Reorder /\ saved' \in Nat /\ unused' \in Nat
<1>1. PICK kept \in 0..Reorder :
          /\ kept <= delayed + 1
          /\ delayed' = kept
          /\ saved' = saved + delayed + 1 - kept
          /\ UNCHANGED unused
  BY DEF Through
<1> QED
  BY <1>1, DecodeNumbers, DecodeConstants

LEMMA DecodeType ==
    ASSUME DecodeTypeOK, Decode
    PROVE  found' \in Nat /\ delayed' \in 0..Reorder /\ saved' \in Nat /\ unused' \in Nat
<1>1. found' \in Nat
  BY DecodeNumbers DEF Decode
<1>2. CASE Through
  BY <1>1, <1>2, ThroughType
<1>3. CASE unused' = unused + 1 /\ UNCHANGED <<delayed, saved>>
  BY <1>1, <1>3, DecodeNumbers
<1> QED
  BY <1>2, <1>3 DEF Decode

DecodeNext ==
    \/ ParsePart \/ ParseFrame \/ EndOfBytes \/ DecodeFails \/ DecodePacket \/ DrainAtEnd
    \/ EncodeFrame \/ EncodeFails \/ FilterFrame \/ FilterFails
    \/ SaveAudio \/ SaveVideo \/ DecodeOne \/ SkipPacket \/ Finish

LEMMA DecodeNextType == DecodeTypeOK /\ (DecodeNext \/ UNCHANGED decVars) => DecodeTypeOK'
<1> SUFFICES ASSUME DecodeTypeOK, DecodeNext \/ UNCHANGED decVars PROVE DecodeTypeOK'
  OBVIOUS
<1>0. /\ content \in 1..MaxContent /\ unread \in 0..MaxContent
      /\ data \in Nat /\ data_size \in Nat /\ data + data_size <= InBuf
      /\ partial \in Nat /\ given \in Nat /\ found \in Nat
      /\ delayed \in 0..Reorder /\ saved \in Nat /\ unused \in Nat
      /\ filtering \in BOOLEAN
      /\ decoding \in {"reading", "done", "given up"}
  BY DEF DecodeTypeOK
<1>a. 0 \in 0..Reorder
  BY DecodeConstants
<1>b. NextPacket => unread' \in 0..MaxContent
  BY DecodeNumbers, DecodeConstants DEF NextPacket
<1>1. CASE ParsePart
  <2>1. /\ data' \in Nat /\ data_size' \in Nat /\ data' + data_size' <= InBuf
        /\ unread' \in 0..MaxContent
    BY DecodeNumbers, <1>1, ConsumeType DEF ParsePart
  <2>2. partial' \in Nat
    BY DecodeNumbers, <1>1 DEF ParsePart
  <2> QED
    BY <1>0, <1>1, <2>1, <2>2 DEF ParsePart, decoder, DecodeTypeOK
<1>2. CASE ParseFrame
  <2>1. PICK n \in 0..data_size : Consume(n) /\ given' = given + partial + n
    BY <1>2 DEF ParseFrame
  <2>2. n \in Nat /\ n <= data_size
    BY DecodeNumbers, <2>1
  <2>3. /\ data' \in Nat /\ data_size' \in Nat /\ data' + data_size' <= InBuf
        /\ unread' \in 0..MaxContent
    BY <2>1, <2>2, ConsumeType
  <2>4. found' \in Nat /\ delayed' \in 0..Reorder /\ saved' \in Nat /\ unused' \in Nat
    BY <1>2, DecodeType DEF ParseFrame
  <2>5. given' \in Nat /\ partial' = 0
    BY DecodeNumbers, <1>2, <2>1, <2>2 DEF ParseFrame
  <2>6. UNCHANGED <<content, filtering, decoding>>
    BY <1>2 DEF ParseFrame
  <2> QED
    BY <1>0, <2>3, <2>4, <2>5, <2>6 DEF DecodeTypeOK
<1>3. CASE EndOfBytes \/ DrainAtEnd
  <2>1. delayed' = 0 /\ saved' = saved + delayed /\ decoding' = "done"
    BY <1>3 DEF EndOfBytes, DrainAtEnd, Drain
  <2>3. saved' \in Nat
    BY <2>1, DecodeNumbers
  <2>2. UNCHANGED <<content, unread, parser, found, unused, filtering>>
    BY <1>3 DEF EndOfBytes, DrainAtEnd
  <2> QED
    BY <1>0, <1>a, <2>1, <2>2, <2>3 DEF parser, DecodeTypeOK
<1>4. CASE DecodePacket
  <2>1. found' \in Nat /\ delayed' \in 0..Reorder /\ saved' \in Nat /\ unused' \in Nat
    BY <1>4, DecodeType DEF DecodePacket
  <2> QED
    BY <1>0, <1>b, <1>4, <2>1 DEF DecodePacket, parser, DecodeTypeOK
<1>5. CASE DecodeOne
  <2>1. PICK sent \in {0, 1}, got \in {0, 1} :
          /\ delayed + sent - got \in 0..Reorder
          /\ delayed' = delayed + sent - got
          /\ saved' = saved + got
          /\ unused' = unused + 1 - sent
    BY <1>5 DEF DecodeOne
  <2>2. found' \in Nat /\ delayed' \in 0..Reorder /\ saved' \in Nat /\ unused' \in Nat
    BY DecodeNumbers, <1>5, <2>1 DEF DecodeOne
  <2> QED
    BY <1>0, <1>b, <1>5, <2>2 DEF DecodeOne, parser, DecodeTypeOK
<1>6. CASE SaveAudio \/ SaveVideo
  <2>1. found' \in Nat /\ saved' \in Nat /\ unused' \in Nat
    BY DecodeNumbers, <1>6 DEF SaveAudio, SaveVideo
  <2>3. filtering' \in BOOLEAN
    BY <1>0, <1>6 DEF SaveAudio, SaveVideo
  <2>2. NextPacket /\ UNCHANGED <<content, parser, delayed, decoding>>
    BY <1>6 DEF SaveAudio, SaveVideo
  <2> QED
    BY <1>0, <1>b, <2>1, <2>2, <2>3 DEF parser, DecodeTypeOK
<1>7. CASE SkipPacket
  BY <1>0, <1>b, <1>7 DEF SkipPacket, parser, decoder, DecodeTypeOK
<1>8. CASE DecodeFails \/ Finish \/ UNCHANGED decVars
  BY <1>0, <1>8 DEF DecodeFails, Finish, decVars, parser, decoder, DecodeTypeOK
<1>9. CASE EncodeFrame
  <2>1. found' \in Nat /\ delayed' \in 0..Reorder /\ saved' \in Nat /\ unused' \in Nat
    BY <1>9, ThroughType, DecodeNumbers DEF EncodeFrame
  <2> QED
    BY <1>0, <1>b, <1>9, <2>1 DEF EncodeFrame, parser, DecodeTypeOK
<1>10. CASE EncodeFails
  <2>1. PICK n \in 0..delayed : saved' = saved + n
    BY <1>10 DEF EncodeFails
  <2>2. n \in Nat
    BY <2>1, DecodeNumbers
  <2>3. found' = found + 1 /\ unused' = unused + 1
    BY <1>10 DEF EncodeFails
  <2>4. found' \in Nat /\ saved' \in Nat /\ unused' \in Nat
    BY <2>1, <2>2, <2>3, DecodeNumbers
  <2> QED
    BY <1>0, <1>a, <1>b, <1>10, <2>4 DEF EncodeFails, parser, DecodeTypeOK
<1>11. CASE FilterFrame
  <2>1. found' \in Nat /\ saved' \in Nat
    BY <1>11, DecodeNumbers DEF FilterFrame
  <2> QED
    BY <1>0, <1>b, <1>11, <2>1 DEF FilterFrame, parser, DecodeTypeOK
<1>12. CASE FilterFails
  <2>1. found' = found + 1 /\ unused' = unused + 1
    BY <1>12 DEF FilterFails
  <2>2. found' \in Nat /\ unused' \in Nat
    BY <2>1, DecodeNumbers
  <2> QED
    BY <1>0, <1>b, <1>12, <2>2 DEF FilterFails, parser, DecodeTypeOK
<1> QED
  BY <1>1, <1>2, <1>3, <1>4, <1>5, <1>6, <1>7, <1>8, <1>9, <1>10, <1>11, <1>12 DEF DecodeNext

-----------------------------------------------------------------------------
(* Theorems                                                                *)

IInv == TypeOK /\ InStep /\ MixInv

LEMMA InitInv == Init => IInv
BY MuxInitType, MixInitType, MixInitInv, DecodeInitType DEF Init, TypeOK, IInv

LEMMA NextInv == IInv /\ [Next]_vars => IInv'
<1> SUFFICES ASSUME TypeOK, InStep, MixInv, [Next]_vars PROVE TypeOK' /\ InStep' /\ MixInv'
  BY DEF IInv
<1>1. Mp4Next \/ FlvNext \/ UNCHANGED muxVars
  BY DEF Next, Mp4Next, FlvNext, Mix, Run, vars
<1>2. MixNext \/ UNCHANGED mixVars
  BY DEF Next, MixNext, Mp4, Flv, Run, vars
<1>3. DecodeNext \/ UNCHANGED decVars
  BY DEF Next, DecodeNext, Mp4, Flv, Mix, vars
<1>4. MuxTypeOK' /\ InStep'
  BY <1>1, MuxNextType, MuxNextInStep DEF TypeOK
<1>5. MixTypeOK' /\ MixInv'
  BY <1>2, MixNextType, MixNextInv DEF TypeOK
<1>6. DecodeTypeOK'
  BY <1>3, DecodeNextType DEF TypeOK
<1> QED
  BY <1>4, <1>5, <1>6 DEF TypeOK

LEMMA Invariant == Spec => []IInv
BY InitInv, NextInv, PTL DEF Spec

\* All variables keep their types, for files of any length: an encoder never holds more
\* frames than its delay, amix cuts no frame longer than what it has, and data_size stays
\* within the buffer of decode_audio (07-05-decode_audio.h:213).
THEOREM TypeCorrect == Spec => []TypeOK
<1>1. IInv => TypeOK
  BY DEF IInv
<1> QED
  BY <1>1, Invariant, PTL

\* The muxing loops keep the streams within one frame of each other, whatever the rates of
\* their frames and however long the files (muxing_mp4.cpp:188,
\* 08-03-muxing_flv-ffmpeg4x.h:725).
THEOREM StreamsInStep == Spec => []InStep
<1>1. IInv => InStep
  BY DEF IInv
<1> QED
  BY <1>1, Invariant, PTL

\* The mix goes on when one file has ended, whichever it is and wherever in a chunk: at the
\* end all of the longer one was mixed but for less than two chunks (audio_mix.h:75), as
\* long as getFrame is given room for a chunk (audio_mix.h:87).
THEOREM MixToTheEnd == Spec => []MixGoesOn
<1>1. IInv => MixGoesOn
  BY MixEnds DEF IInv, TypeOK
<1> QED
  BY <1>1, Invariant, PTL
=============================================================================
