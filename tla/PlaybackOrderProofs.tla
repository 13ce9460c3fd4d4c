------------------------ MODULE PlaybackOrderProofs ------------------------
(***************************************************************************)
(* Theorems about Playback.tla, for any number of streams, any sizes of    *)
(* the queues, any file and any number of seeks: what is shown goes        *)
(* forward without a gap, all has been played when read_thread thinks so,  *)
(* and all together keeps the promise of Player.tla.                       *)
(*                                                                         *)
(* The argument.  A packet and its frame pass six stages: packet queue,    *)
(* hand of the decoder, codec, hand of the player, frame queue, shown.     *)
(* Each step moves the first of one stage to the end of the next, or drops *)
(* it as late, so that the numbers rise from the last stage back to the    *)
(* first (Ordered) and none between is missing (Covered).  Only the seeks  *)
(* lose data; what they lose is of an epoch that the serial of the queue   *)
(* no longer names, or goes while nothing later is on its way.             *)
(*                                                                         *)
(* The null packet comes after all data (NullInv); so a decoder that has   *)
(* finished the serial of its queue has nothing more to decode (Drained),  *)
(* and keeps so until the next seek: read_thread may look at one stream    *)
(* after the other (CheckInv).                                             *)
(*                                                                         *)
(* For Player a stream follows a seek when its flush packet is queued, and *)
(* the next frame it waits for is the first of the frame queue that the    *)
(* serial names: Ordered and Covered say so.                               *)
(***************************************************************************)
EXTENDS PlaybackProofs

------------------------------------------------------------------------------
(* The invariant *)

(* The frames and packets that the serial of the queue of s names: those   *)
(* read since the last flush packet was queued                             *)
FramesOf(sn) == {f \in Frames : f.epoch + 1 = sn}
DataOf(sn)   == {p \in Packets : p.kind = "data" /\ p.epoch + 1 = sn}

(* The numbers of those in a sequence, and in a place for one *)
Numbers(q, sel) == {q[i].n : i \in {j \in 1 .. Len(q) : q[j] \in sel}}
Number(x, sel)  == IF x \in sel THEN {x.n} ELSE {}

(* The stages on the way of a packet's frame, the last one first *)
Shown(s)   == Number(passed[s], FramesOf(serial[s]))
Waiting(s) == Numbers(frames[s], FramesOf(serial[s]))
Decoded(s) == IF dpc[s] = "push" THEN Number(frame[s], FramesOf(serial[s])) ELSE {}
Coded(s)   == Numbers(codec[s], FramesOf(serial[s]))
InHand(s)  == Number(pkt[s], DataOf(serial[s]))
Queued(s)  == Numbers(queue[s], DataOf(serial[s]))

Stages == 0 .. 5
Held(s) == [k \in Stages |->
    IF k = 0 THEN Shown(s) ELSE IF k = 1 THEN Waiting(s) ELSE IF k = 2 THEN Decoded(s)
    ELSE IF k = 3 THEN Coded(s) ELSE IF k = 4 THEN InHand(s) ELSE Queued(s)]

(* Those dropped as late *)
Gone(s) == {f.n : f \in dropped[s] \cap FramesOf(serial[s])}

(* What is further on the way was read earlier. *)
Ordered(H) == \A k, l \in Stages : k < l => \A a \in H[k], b \in H[l] : a < b

Rising(q, sel) == \A i, j \in 1 .. Len(q) :
    i < j /\ q[i] \in sel /\ q[j] \in sel => q[i].n < q[j].n

RisingInv(s) == /\ Rising(frames[s], FramesOf(serial[s]))
                /\ Rising(codec[s], FramesOf(serial[s]))
                /\ Rising(queue[s], DataOf(serial[s]))

(* Of the packets up to number r, and up to the last one that is on its    *)
(* way, each is on its way, shown or passed over, or in L.                 *)
Covered(H, L, r) == \A m \in Nat \ {0} :
    m <= r \/ (\E k \in Stages : \E n \in H[k] : m <= n) =>
        \/ \E n \in H[0] : m <= n
        \/ m \in L
        \/ \E k \in Stages \ {0} : m \in H[k]

OrderInv(s) == Ordered(Held(s)) /\ Covered(Held(s), Gone(s), sent[s])

(* Nothing is of a later epoch than the serial of the queue names, and the *)
(* codec is of an earlier one while a flush packet is in hand.             *)
EpochInv(s) ==
    /\ passed[s].epoch + 1 <= serial[s]
    /\ \A i \in 1 .. Len(frames[s]) : frames[s][i].epoch + 1 <= serial[s]
    /\ \A i \in 1 .. Len(codec[s]) : /\ codec[s][i].epoch + 1 <= pkt_serial[s]
                                     /\ pkt[s].kind = "flush" =>
                                            codec[s][i].epoch + 1 < pkt_serial[s]
    /\ finished[s] <= serial[s]

(* The queue of s is still to be flushed for a seek. *)
Flushing(s) == rpc \in {"flush", "put flush"} /\ s \in todo

NoData(q) == \A i \in 1 .. Len(q) : q[i].kind # "data"

(* All packets of the epoch were taken from the file and from the queue. *)
AllTaken(s) == remaining[s] = 0 /\ NoData(queue[s])

(* The decoder has nothing more to decode. *)
Drained(s) == /\ pkt_serial[s] = serial[s] /\ pkt[s].kind \in {"none", "null"}
              /\ codec[s] = <<>> /\ dpc[s] # "push"
              /\ AllTaken(s)

(* No number is beyond what was read of the epoch. *)
BoundInv(s) == \A k \in Stages : \A n \in Held(s)[k] : n <= sent[s]

(* After a null packet no data follow, ... *)
NullInv(s) == \A i \in 1 .. Len(queue[s]) : queue[s][i].kind = "null" =>
    remaining[s] = 0 /\ \A j \in i .. Len(queue[s]) : queue[s][j].kind # "data"

(* ... nor when the decoder has it, or drains since, or has finished. *)
DrainInv(s) ==
    /\ pkt_serial[s] = serial[s] /\ (pkt[s].kind = "null" \/ (draining[s] /\ pkt[s].kind # "flush"))
       => AllTaken(s)
    /\ finished[s] = serial[s] => Drained(s)

EndInv(s) == NullInv(s) /\ DrainInv(s) /\ BoundInv(s)

WayInv(s) == /\ RisingInv(s) /\ OrderInv(s) /\ EpochInv(s)
             /\ ~Flushing(s) => EndInv(s)

(* What read_thread knows while it looks whether all has been played *)
CheckInv ==
    /\ rpc \in {"flush", "put flush"} => \A s \in Streams : sent[s] = 0
    /\ rpc = "null" => \A s \in Streams : remaining[s] = 0
    /\ rpc \in {"finished?", "remaining?", "all played"} =>
          \A s \in Streams \ todo : finished[s] = serial[s] /\ frames[s] = <<>>
    /\ rpc = "remaining?" => \A s \in now : finished[s] = serial[s]
    /\ rpc = "all played" => todo = {}

PlayInv == CheckInv /\ \A s \in Streams : WayInv(s)

------------------------------------------------------------------------------
(* Numbers in sequences *)

(* Taking the head of a rising sequence takes the least of its numbers. *)
LEMMA TailNumbers ==
    ASSUME NEW T, NEW q \in Seq(T), q # <<>>, NEW sel, Rising(q, sel)
    PROVE  /\ Rising(Tail(q), sel)
           /\ q[1] \notin sel => Numbers(Tail(q), sel) = Numbers(q, sel)
           /\ q[1] \in sel =>
                 /\ q[1].n \in Numbers(q, sel)
                 /\ \A y \in Numbers(Tail(q), sel) : y \in Numbers(q, sel) /\ q[1].n < y
                 /\ \A y \in Numbers(q, sel) : y = q[1].n \/ y \in Numbers(Tail(q), sel)
<1> DEFINE t == Tail(q)
<1>1. /\ Len(q) \in Nat /\ Len(q) > 0 /\ Len(t) = Len(q) - 1
      /\ \A i \in 1 .. Len(q) - 1 : t[i] = q[i + 1]
  BY TakeHead
<1> HIDE DEF t
<1>2. \A i \in 1 .. Len(t) : t[i] = q[i + 1] /\ i + 1 \in 1 .. Len(q) /\ 1 < i + 1
  BY <1>1
<1>3. \A i \in 1 .. Len(q) : i = 1 \/ (i - 1 \in 1 .. Len(t) /\ t[i - 1] = q[i])
  BY <1>1
<1>4. 1 \in 1 .. Len(q)
  BY <1>1
<1>5. Rising(t, sel)
  <2> SUFFICES ASSUME NEW i \in 1 .. Len(t), NEW j \in 1 .. Len(t), i < j,
                      t[i] \in sel, t[j] \in sel
               PROVE  t[i].n < t[j].n
    BY DEF Rising
  <2>1. i + 1 \in 1 .. Len(q) /\ j + 1 \in 1 .. Len(q) /\ i + 1 < j + 1
    BY <1>2
  <2> QED BY <1>2, <2>1 DEF Rising
<1>6. \A y \in Numbers(t, sel) : y \in Numbers(q, sel) /\ (q[1] \in sel => q[1].n < y)
  <2> SUFFICES ASSUME NEW i \in 1 .. Len(t), t[i] \in sel
               PROVE  t[i].n \in Numbers(q, sel) /\ (q[1] \in sel => q[1].n < t[i].n)
    BY DEF Numbers
  <2> QED BY <1>2, <1>4 DEF Rising, Numbers
<1>7. \A y \in Numbers(q, sel) : (q[1] \in sel /\ y = q[1].n) \/ y \in Numbers(t, sel)
  <2> SUFFICES ASSUME NEW i \in 1 .. Len(q), q[i] \in sel
               PROVE  (q[1] \in sel /\ q[i].n = q[1].n) \/ q[i].n \in Numbers(t, sel)
    BY DEF Numbers
  <2>1. CASE i = 1
    BY <2>1
  <2>2. CASE i - 1 \in 1 .. Len(t) /\ t[i - 1] = q[i]
    BY <2>2 DEF Numbers
  <2> QED BY <1>3, <2>1, <2>2
<1>8. q[1] \in sel => q[1].n \in Numbers(q, sel)
  BY <1>4 DEF Numbers
<1> QED BY <1>5, <1>6, <1>7, <1>8 DEF t

(* An element more at the end, whose number is the greatest *)
LEMMA AppendNumbers ==
    ASSUME NEW T, NEW q \in Seq(T), NEW e \in T, NEW sel, Rising(q, sel),
           e \in sel => \A y \in Numbers(q, sel) : y < e.n
    PROVE  /\ Rising(Append(q, e), sel)
           /\ Numbers(Append(q, e), sel) = Numbers(q, sel) \cup Number(e, sel)
<1> DEFINE a == Append(q, e)
<1>1. /\ Len(q) \in Nat /\ Len(a) = Len(q) + 1
      /\ \A i \in 1 .. Len(q) : a[i] = q[i]
      /\ a[Len(q) + 1] = e
  BY AppendOne
<1> HIDE DEF a
<1>2. \A i \in 1 .. Len(a) : i \in 1 .. Len(q) \/ i = Len(a)
  BY <1>1
<1>3. a[Len(a)] = e /\ Len(a) \in 1 .. Len(a) /\ \A i \in 1 .. Len(q) : i \in 1 .. Len(a)
  BY <1>1
<1>4. Rising(a, sel)
  <2> SUFFICES ASSUME NEW i \in 1 .. Len(a), NEW j \in 1 .. Len(a), i < j,
                      a[i] \in sel, a[j] \in sel
               PROVE  a[i].n < a[j].n
    BY DEF Rising
  <2>1. i \in 1 .. Len(q)
    BY <1>1, <1>2
  <2>2. CASE j \in 1 .. Len(q)
    BY <1>1, <2>1, <2>2 DEF Rising
  <2>3. CASE j = Len(a)
    <3>1. q[i] \in sel /\ a[i] = q[i]
      BY <1>1, <2>1
    <3>2. q[i].n \in Numbers(q, sel)
      BY <2>1, <3>1 DEF Numbers
    <3> QED BY <1>3, <2>3, <3>1, <3>2
  <2> QED BY <1>2, <2>2, <2>3
<1>5. \A y \in Numbers(a, sel) : y \in Numbers(q, sel) \cup Number(e, sel)
  <2> SUFFICES ASSUME NEW i \in 1 .. Len(a), a[i] \in sel
               PROVE  a[i].n \in Numbers(q, sel) \cup Number(e, sel)
    BY DEF Numbers
  <2>1. CASE i \in 1 .. Len(q)
    BY <1>1, <2>1 DEF Numbers
  <2>2. CASE i = Len(a)
    BY <1>3, <2>2 DEF Number
  <2> QED BY <1>2, <2>1, <2>2
<1>6. \A y \in Numbers(q, sel) \cup Number(e, sel) : y \in Numbers(a, sel)
  <2>1. ASSUME NEW i \in 1 .. Len(q), q[i] \in sel PROVE q[i].n \in Numbers(a, sel)
    BY <1>1, <1>3, <2>1 DEF Numbers
  <2>2. e \in sel => e.n \in Numbers(a, sel)
    BY <1>3 DEF Numbers
  <2> QED BY <2>1, <2>2 DEF Numbers, Number
<1> QED BY <1>4, <1>5, <1>6 DEF a

(* The empty sequence has none, nor one of which nothing counts. *)
LEMMA NoNumbers ==
    ASSUME NEW q, NEW sel, \A i \in 1 .. Len(q) : q[i] \notin sel
    PROVE  Numbers(q, sel) = {} /\ Rising(q, sel)
BY DEF Numbers, Rising

(* Numbers are natural. *)
LEMMA NumbersType ==
    /\ \A q \in Seq(Frames) : \A sn : Numbers(q, FramesOf(sn)) \in SUBSET Nat
    /\ \A q \in Seq(Packets) : \A sn : Numbers(q, DataOf(sn)) \in SUBSET Nat
    /\ \A x, sn : Number(x, FramesOf(sn)) \in SUBSET Nat /\ Number(x, DataOf(sn)) \in SUBSET Nat
BY DEF Numbers, Number, FramesOf, DataOf, Frames, Packets

------------------------------------------------------------------------------
(* Stages *)

Holdings == [Stages -> SUBSET Nat]

(* x, the least of stage k + 1, goes on to stage k. *)
Moved(H, G, k, x) ==
    /\ x \in H[k + 1]
    /\ \A y \in H[k + 1] : y = x \/ y \in G[k + 1]
    /\ \A y \in G[k + 1] : y \in H[k + 1] /\ x < y
    /\ x \in G[k]
    /\ \A y \in G[k] : y = x \/ y \in H[k]
    /\ k # 0 => H[k] \subseteq G[k]
    /\ \A j \in Stages : j # k /\ j # k + 1 => G[j] = H[j]

(* Stage k loses x. *)
Lost(H, G, k, x) ==
    /\ \A y \in H[k] : y = x \/ y \in G[k]
    /\ G[k] \subseteq H[k]
    /\ \A j \in Stages : j # k => G[j] = H[j]

(* A move adds nothing elsewhere, and only the stage before the move loses. *)
LEMMA MovedFrom ==
    ASSUME NEW H \in Holdings, NEW G \in Holdings, NEW k \in 0 .. 4, NEW x, Moved(H, G, k, x)
    PROVE  /\ k \in Stages /\ k + 1 \in Stages /\ k # k + 1
           /\ \A j \in Stages : \A y \in G[j] : y \in H[j] \/ (j = k /\ y = x)
           /\ \A j \in Stages : \A y \in H[j] :
                 j = 0 \/ y \in G[j] \/ (j = k + 1 /\ y = x)
<1>1. k \in Stages /\ k + 1 \in Stages /\ k # k + 1 /\ 0 \in Stages /\ k + 1 # 0
  BY DEF Stages
<1> QED BY <1>1 DEF Moved

(* A move keeps the order, and loses nothing. *)
LEMMA MovedOrdered ==
    ASSUME NEW H \in Holdings, NEW G \in Holdings, NEW k \in 0 .. 4, NEW x, Moved(H, G, k, x),
           Ordered(H)
    PROVE  Ordered(G)
<1> SUFFICES ASSUME NEW i \in Stages, NEW j \in Stages, i < j, NEW a \in G[i], NEW b \in G[j]
             PROVE  a < b
  BY DEF Ordered
<1>1. k + 1 \in Stages /\ k \in Stages
  BY DEF Stages
<1>2. a \in H[i] \/ (i = k /\ a = x)
  BY MovedFrom
<1>3. b \in H[j] \/ (j = k /\ b = x)
  BY MovedFrom
<1>4. x \in H[k + 1]
  BY DEF Moved
<1>5. CASE a \in H[i] /\ b \in H[j]
  BY <1>5 DEF Ordered
<1>6. CASE i = k /\ a = x /\ b \in H[j]
  <2>1. CASE j = k + 1
    BY <1>6, <2>1 DEF Moved
  <2>2. CASE j # k + 1
    <3>1. k + 1 < j
      BY <1>6, <2>2 DEF Stages
    <3> QED BY <1>1, <1>4, <1>6, <3>1 DEF Ordered
  <2> QED BY <2>1, <2>2
<1>7. CASE a \in H[i] /\ j = k /\ b = x
  <2>1. i < k + 1
    BY <1>7 DEF Stages
  <2> QED BY <1>1, <1>4, <1>7, <2>1 DEF Ordered
<1>8. CASE i = k /\ j = k
  BY <1>8 DEF Stages
<1> QED BY <1>2, <1>3, <1>5, <1>6, <1>7, <1>8

(* A move leaves no gap: what it takes from one stage it brings to the next. *)
LEMMA MovedCovered ==
    ASSUME NEW H \in Holdings, NEW G \in Holdings, NEW k \in 0 .. 4, NEW x, Moved(H, G, k, x),
           Ordered(H), NEW L, NEW r \in Nat, Covered(H, L, r)
    PROVE  Covered(G, L, r)
<1> SUFFICES ASSUME NEW m \in Nat \ {0},
                    m <= r \/ (\E i \in Stages : \E n \in G[i] : m <= n)
             PROVE  \/ \E n \in G[0] : m <= n
                    \/ m \in L
                    \/ \E i \in Stages \ {0} : m \in G[i]
  BY DEF Covered
<1>0. k \in Stages /\ k + 1 \in Stages /\ x \in H[k + 1] /\ x \in G[k] /\ 0 \in Stages /\ k # k + 1
  BY DEF Moved, Stages
<1>1. m <= r \/ (\E i \in Stages : \E n \in H[i] : m <= n)
  <2>1. ASSUME NEW i \in Stages, NEW n \in G[i], m <= n
        PROVE  \E j \in Stages : \E p \in H[j] : m <= p
    <3>1. n \in H[i] \/ n = x
      BY MovedFrom
    <3> QED BY <1>0, <2>1, <3>1
  <2> QED BY <2>1
<1>2. \/ \E n \in H[0] : m <= n
      \/ m \in L
      \/ \E i \in Stages \ {0} : m \in H[i]
  BY <1>1 DEF Covered
<1>3. ASSUME NEW n \in H[0], m <= n PROVE \E p \in G[0] : m <= p
  <2>1. CASE k = 0
    <3>1. n < x
      <4>1. 0 < k + 1
        BY <2>1
      <4> QED BY <1>0, <1>3, <4>1 DEF Ordered
    <3>2. n \in Nat /\ x \in Nat
      BY <1>0, <1>3 DEF Holdings
    <3>3. m <= x
      BY <1>3, <3>1, <3>2
    <3> QED BY <1>0, <2>1, <3>3
  <2>2. CASE k # 0
    <3>1. G[0] = H[0]
      <4>1. 0 # k + 1
        BY DEF Stages
      <4> QED BY <1>0, <2>2, <4>1 DEF Moved
    <3> QED BY <1>3, <3>1
  <2> QED BY <2>1, <2>2
<1>4. ASSUME NEW i \in Stages \ {0}, m \in H[i]
      PROVE  (\E p \in G[0] : m <= p) \/ (\E j \in Stages \ {0} : m \in G[j])
  <2>1. m \in G[i] \/ (i = k + 1 /\ m = x)
    BY <1>4, MovedFrom
  <2>2. CASE m = x
    <3>1. CASE k = 0
      <4>1. m <= x
        BY <2>2
      <4> QED BY <1>0, <3>1, <4>1
    <3>2. CASE k # 0
      BY <1>0, <2>2, <3>2
    <3> QED BY <3>1, <3>2
  <2> QED BY <2>1, <2>2
<1> QED BY <1>2, <1>3, <1>4

(* Dropping one keeps the order, and the one is in the list. *)
LEMMA LostKeeps ==
    ASSUME NEW H \in Holdings, NEW G \in Holdings, NEW k \in Stages \ {0}, NEW x,
           Lost(H, G, k, x), Ordered(H),
           NEW L, NEW M, L \subseteq M, x \in M, NEW r \in Nat, Covered(H, L, r)
    PROVE  Ordered(G) /\ Covered(G, M, r)
<1>1. \A j \in Stages : G[j] \subseteq H[j]
  BY DEF Lost
<1>2. Ordered(G)
  BY <1>1 DEF Ordered
<1>3. G[0] = H[0]
  BY DEF Lost, Stages
<1>4. \A j \in Stages \ {0} : \A m \in H[j] : m \in G[j] \/ m \in M
  BY DEF Lost
<1>5. Covered(G, M, r)
  <2> SUFFICES ASSUME NEW m \in Nat \ {0},
                      m <= r \/ (\E i \in Stages : \E n \in G[i] : m <= n)
               PROVE  \/ \E n \in G[0] : m <= n
                      \/ m \in M
                      \/ \E i \in Stages \ {0} : m \in G[i]
    BY DEF Covered
  <2>1. \/ \E n \in H[0] : m <= n
        \/ m \in L
        \/ \E i \in Stages \ {0} : m \in H[i]
    BY <1>1 DEF Covered
  <2> QED BY <1>3, <1>4, <2>1
<1> QED BY <1>2, <1>5

(* Emptying the last stage keeps the order and what comes before. *)
LEMMA EmptiedKeeps ==
    ASSUME NEW H \in Holdings, NEW G \in Holdings, Ordered(H),
           G[5] = {}, \A j \in Stages : j # 5 => G[j] = H[j],
           NEW L, Covered(H, L, 0)
    PROVE  Ordered(G) /\ Covered(G, L, 0)
<1>0. 5 \in Stages /\ 0 \in Stages /\ 0 # 5
  BY DEF Stages
<1>1. \A j \in Stages : G[j] \subseteq H[j]
  BY <1>0
<1>2. Ordered(G)
  BY <1>1 DEF Ordered
<1>3. G[0] = H[0]
  BY <1>0
<1>4. Covered(G, L, 0)
  <2> SUFFICES ASSUME NEW m \in Nat \ {0}, NEW i \in Stages, NEW n \in G[i], m <= n
               PROVE  \/ \E p \in G[0] : m <= p
                      \/ m \in L
                      \/ \E j \in Stages \ {0} : m \in G[j]
    BY DEF Covered
  <2>1. i # 5 /\ n \in H[i] /\ n \in Nat
    BY <1>1 DEF Holdings
  <2>2. m \notin H[5]
    <3> SUFFICES ASSUME m \in H[5] PROVE FALSE
      OBVIOUS
    <3>1. i < 5
      BY <2>1 DEF Stages
    <3>2. n < m
      BY <1>0, <2>1, <3>1 DEF Ordered
    <3> QED BY <2>1, <3>2
  <2>3. \/ \E p \in H[0] : m <= p
        \/ m \in L
        \/ \E j \in Stages \ {0} : m \in H[j]
    BY <2>1 DEF Covered
  <2> QED BY <1>3, <2>2, <2>3
<1> QED BY <1>2, <1>4

(* So does the next number at the end. *)
LEMMA GrownKeeps ==
    ASSUME NEW H \in Holdings, NEW G \in Holdings, NEW r \in Nat, Ordered(H),
           \A j \in Stages : \A n \in H[j] : n <= r,
           G[5] = H[5] \cup {r + 1}, \A j \in Stages : j # 5 => G[j] = H[j],
           NEW L, Covered(H, L, r)
    PROVE  /\ Ordered(G) /\ Covered(G, L, r + 1)
           /\ \A j \in Stages : \A n \in G[j] : n <= r + 1
<1>0. 5 \in Stages /\ 0 \in Stages /\ 0 # 5
  BY DEF Stages
<1>1. \A j \in Stages : \A n \in G[j] : n \in H[j] \/ (j = 5 /\ n = r + 1)
  BY <1>0
<1>2. \A j \in Stages : H[j] \subseteq G[j]
  BY <1>0
<1>3. \A j \in Stages : \A n \in H[j] : n \in Nat /\ n <= r
  BY DEF Holdings
<1>4. \A j \in Stages : \A n \in G[j] : n <= r + 1
  BY <1>1, <1>3
<1>5. Ordered(G)
  <2> SUFFICES ASSUME NEW i \in Stages, NEW j \in Stages, i < j, NEW a \in G[i], NEW b \in G[j]
               PROVE  a < b
    BY DEF Ordered
  <2>1. a \in H[i]
    <3>1. i # 5
      BY DEF Stages
    <3> QED BY <1>1, <3>1
  <2>2. CASE b \in H[j]
    BY <2>1, <2>2 DEF Ordered
  <2>3. CASE b = r + 1
    BY <1>3, <2>1, <2>3
  <2> QED BY <1>1, <2>2, <2>3
<1>6. Covered(G, L, r + 1)
  <2> SUFFICES ASSUME NEW m \in Nat \ {0},
                      m <= r + 1 \/ (\E i \in Stages : \E n \in G[i] : m <= n)
               PROVE  \/ \E n \in G[0] : m <= n
                      \/ m \in L
                      \/ \E i \in Stages \ {0} : m \in G[i]
    BY DEF Covered
  <2>1. m <= r + 1
    <3>1. ASSUME NEW i \in Stages, NEW n \in G[i], m <= n PROVE m <= r + 1
      <4>1. n <= r + 1 /\ n \in Nat
        BY <1>4 DEF Holdings
      <4> QED BY <3>1, <4>1
    <3> QED BY <3>1
  <2>2. CASE m = r + 1
    BY <1>0, <2>2
  <2>3. CASE m <= r
    <3>1. \/ \E n \in H[0] : m <= n
          \/ m \in L
          \/ \E i \in Stages \ {0} : m \in H[i]
      BY <2>3 DEF Covered
    <3> QED BY <1>2, <1>0, <3>1
  <2> QED BY <2>1, <2>2, <2>3
<1> QED BY <1>4, <1>5, <1>6

(* When nothing of a new epoch has been read all is in order. *)
LEMMA NothingHeld ==
    ASSUME NEW G \in Holdings, \A j \in Stages : G[j] = {}, NEW L
    PROVE  Ordered(G) /\ Covered(G, L, 0)
BY DEF Ordered, Covered

------------------------------------------------------------------------------
(* The stages of a stream *)

(* The stages one by one, ... *)
LEMMA HeldParts == \A s \in Streams :
    /\ Held(s)[0] = Shown(s) /\ Held(s)[1] = Waiting(s) /\ Held(s)[2] = Decoded(s)
    /\ Held(s)[3] = Coded(s) /\ Held(s)[4] = InHand(s) /\ Held(s)[5] = Queued(s)
BY DEF Held, Stages

(* ... and after a step *)
LEMMA HeldPartsNext == (\A s \in Streams :
    /\ Held(s)[0] = Shown(s) /\ Held(s)[1] = Waiting(s) /\ Held(s)[2] = Decoded(s)
    /\ Held(s)[3] = Coded(s) /\ Held(s)[4] = InHand(s) /\ Held(s)[5] = Queued(s))'
BY HeldParts, PTL

(* They hold natural numbers, ... *)
LEMMA HeldType == TypeOK => \A s \in Streams : Held(s) \in Holdings
<1> SUFFICES ASSUME TypeOK, NEW s \in Streams PROVE Held(s) \in Holdings
  OBVIOUS
<1>1. /\ frames[s] \in Seq(Frames) /\ codec[s] \in Seq(Frames) /\ queue[s] \in Seq(Packets)
  BY DEF TypeOK
<1>2. /\ Shown(s) \in SUBSET Nat /\ Waiting(s) \in SUBSET Nat /\ Decoded(s) \in SUBSET Nat
      /\ Coded(s) \in SUBSET Nat /\ InHand(s) \in SUBSET Nat /\ Queued(s) \in SUBSET Nat
  BY <1>1, NumbersType DEF Shown, Waiting, Decoded, Coded, InHand, Queued
<1> QED BY <1>2 DEF Held, Holdings

(* ... after a step as well. *)
LEMMA HeldTypeNext == (TypeOK => \A s \in Streams : Held(s) \in Holdings)'
BY HeldType, PTL

(* The stages, and what was dropped, are as before. *)
HeldSame(s) ==
    /\ Shown(s)' = Shown(s) /\ Waiting(s)' = Waiting(s) /\ Decoded(s)' = Decoded(s)
    /\ Coded(s)' = Coded(s) /\ InHand(s)' = InHand(s) /\ Queued(s)' = Queued(s)
    /\ Gone(s)' = Gone(s)

(* There are six of them. *)
LEMMA StageCases == \A j \in Stages : j = 0 \/ j = 1 \/ j = 2 \/ j = 3 \/ j = 4 \/ j = 5
BY DEF Stages

(* If no stage changes, neither does the function of them. *)
LEMMA HeldKept ==
    ASSUME NEW s \in Streams, HeldSame(s) PROVE Held(s)' = Held(s)
BY DEF HeldSame, Held

(* How a step of a thread may change them. *)
LEMMA OrderKept ==
    ASSUME TypeOK, TypeOK', NEW s \in Streams, OrderInv(s), sent'[s] = sent[s],
           \/ HeldSame(s)
           \/ /\ \E k \in 0 .. 4 : \E x : Moved(Held(s), Held(s)', k, x)
              /\ Gone(s)' = Gone(s)
           \/ \E x : Lost(Held(s), Held(s)', 2, x) /\ Gone(s)' = Gone(s) \cup {x}
    PROVE  OrderInv(s)' /\ (BoundInv(s) => BoundInv(s)')
<1> DEFINE H == Held(s)
           G == Held(s)'
<1>1. H \in Holdings /\ G \in Holdings
  BY HeldType, HeldTypeNext
<1>2. Ordered(H) /\ Covered(H, Gone(s), sent[s])
  BY DEF OrderInv
<1>3. sent[s] \in Nat
  BY DEF TypeOK
<1>4. CASE HeldSame(s)
  <2>1. G = H /\ Gone(s)' = Gone(s)
    BY <1>4, HeldKept DEF HeldSame
  <2> QED BY <1>2, <2>1 DEF OrderInv, BoundInv
<1>5. ASSUME NEW k \in 0 .. 4, NEW x, Moved(H, G, k, x), Gone(s)' = Gone(s)
      PROVE  OrderInv(s)' /\ (BoundInv(s) => BoundInv(s)')
  <2> HIDE DEF H, G
  <2>1. Ordered(G)
    BY <1>1, <1>2, <1>5, MovedOrdered
  <2>2. Covered(G, Gone(s), sent[s])
    BY <1>1, <1>2, <1>3, <1>5, MovedCovered
  <2>3. OrderInv(s)'
    BY <1>5, <2>1, <2>2 DEF OrderInv, G
  <2>4. \A j \in Stages : \A n \in G[j] : n \in H[j] \/ (n \in H[k + 1] /\ k + 1 \in Stages)
    BY <1>1, <1>5, MovedFrom DEF Moved
  <2>5. BoundInv(s) => BoundInv(s)'
    BY <2>4 DEF BoundInv, G, H
  <2> QED BY <2>3, <2>5
<1>6. ASSUME NEW x, Lost(H, G, 2, x), Gone(s)' = Gone(s) \cup {x}
      PROVE  OrderInv(s)' /\ (BoundInv(s) => BoundInv(s)')
  <2> HIDE DEF H, G
  <2>0. 2 \in Stages \ {0}
    BY DEF Stages
  <2>1. Ordered(G) /\ Covered(G, Gone(s) \cup {x}, sent[s])
    BY <1>1, <1>2, <1>3, <1>6, <2>0, LostKeeps
  <2>2. OrderInv(s)'
    BY <1>6, <2>1 DEF OrderInv, G
  <2>3. \A j \in Stages : G[j] \subseteq H[j]
    BY <1>6 DEF Lost
  <2>4. BoundInv(s) => BoundInv(s)'
    BY <2>3 DEF BoundInv, G, H
  <2> QED BY <2>2, <2>4
<1> QED BY <1>4, <1>5, <1>6

(* What WayInv(t) speaks of besides what Same(t) does is left alone. *)
SameWay(t) ==
    /\ Same(t)
    /\ finished'[t] = finished[t] /\ passed'[t] = passed[t] /\ dropped'[t] = dropped[t]
    /\ remaining'[t] = remaining[t] /\ sent'[t] = sent[t]

SamePhase(t) == Flushing(t)' = Flushing(t)

(* A step that leaves the variables of a stream alone keeps its stages ... *)
LEMMA SameHeld ==
    ASSUME NEW t \in Streams, Same(t), passed'[t] = passed[t], dropped'[t] = dropped[t]
    PROVE  HeldSame(t)
BY DEF Same, HeldSame, Shown, Waiting, Decoded, Coded, InHand, Queued, Gone

(* ... and its invariant. *)
LEMMA SameWayKept ==
    ASSUME NEW t \in Streams, WayInv(t), SameWay(t), Flushing(t)' \/ SamePhase(t)
    PROVE  WayInv(t)'
<1>1. Held(t)' = Held(t) /\ Gone(t)' = Gone(t)
  BY SameHeld, HeldKept DEF SameWay, HeldSame
<1>2. RisingInv(t)' /\ EpochInv(t)'
  BY DEF WayInv, RisingInv, EpochInv, SameWay, Same
<1>3. OrderInv(t)'
  BY <1>1 DEF WayInv, OrderInv, SameWay
<1>4. EndInv(t) => EndInv(t)'
  BY <1>1 DEF EndInv, NullInv, DrainInv, BoundInv, Drained, AllTaken, SameWay, Same
<1>5. ~Flushing(t)' => ~Flushing(t)
  BY DEF SamePhase
<1> QED BY <1>2, <1>3, <1>4, <1>5 DEF WayInv

(* A decoder or consumer step of one stream leaves the others alone. *)
LEMMA OthersSameWay ==
    ASSUME TypeOK, NEW s \in Streams, DecoderStep(s) \/ Consume(s),
           NEW t \in Streams, t # s
    PROVE  SameWay(t) /\ SamePhase(t)
<1>1. Same(t)
  BY OthersSame
<1>2. UNCHANGED <<rpc, todo, remaining, sent>>
  BY DEF DecoderStep, CheckSerial, ReceiveFrame, DropEarly, PushFrame, GetPacket, ComparePacket,
         CompareAgain, FlushCodec, SendPacket, Consume, readVars
<1>3. finished'[t] = finished[t]
  <2>1. UNCHANGED finished \/ \E e : finished' = [finished EXCEPT ![s] = e]
    BY DEF DecoderStep, CheckSerial, ReceiveFrame, DropEarly, PushFrame, GetPacket, ComparePacket,
           CompareAgain, FlushCodec, SendPacket, Consume, decVars
  <2> QED BY <2>1 DEF TypeOK
<1>4. passed'[t] = passed[t]
  <2>1. UNCHANGED passed \/ \E e : passed' = [passed EXCEPT ![s] = e]
    BY DEF DecoderStep, CheckSerial, ReceiveFrame, DropEarly, PushFrame, GetPacket, ComparePacket,
           CompareAgain, FlushCodec, SendPacket, Consume, history
  <2> QED BY <2>1 DEF TypeOK
<1>5. dropped'[t] = dropped[t]
  <2>1. UNCHANGED dropped \/ \E e : dropped' = [dropped EXCEPT ![s] = e]
    BY DEF DecoderStep, CheckSerial, ReceiveFrame, DropEarly, PushFrame, GetPacket, ComparePacket,
           CompareAgain, FlushCodec, SendPacket, Consume, history
  <2> QED BY <2>1 DEF TypeOK
<1> QED BY <1>1, <1>2, <1>3, <1>4, <1>5 DEF SameWay, SamePhase, Flushing

------------------------------------------------------------------------------
(* The decoder thread and the consumer *)

(* What follows from IInv for the stream of a step *)
LEMMA StreamFacts ==
    ASSUME IInv, NEW s \in Streams
    PROVE  /\ TypeOK /\ StreamInv(s)
           /\ serial[s] \in Nat /\ pkt_serial[s] \in Int /\ pkt_serial[s] <= serial[s]
           /\ finished[s] \in Int /\ sent[s] \in Nat /\ remaining[s] \in Nat /\ epoch \in Nat
           /\ queue[s] \in Seq(Packets) /\ codec[s] \in Seq(Frames) /\ frames[s] \in Seq(Frames)
           /\ pkt[s] \in Packets /\ frame[s] \in Frames /\ passed[s] \in Frames
BY DEF IInv, TypeOK, StreamInv, StaleInv

(* decoder_decode_frame compares the serials: nothing moves. *)
LEMMA CheckSerialWay ==
    ASSUME IInv, IInv', NEW s \in Streams, WayInv(s), CheckSerial(s) PROVE WayInv(s)'
<1>1. /\ dpc[s] = "check" /\ dpc'[s] \in {"receive", "get"}
      /\ UNCHANGED <<queue, serial, pkt_serial, finished, pkt, codec, draining, frame, frames,
                     rpc, todo, remaining, sent, passed, dropped>>
  BY DEF IInv, TypeOK, CheckSerial, readVars, history
<1>2. HeldSame(s)
  BY <1>1 DEF HeldSame, Shown, Waiting, Decoded, Coded, InHand, Queued, Gone
<1>3. OrderInv(s)' /\ (BoundInv(s) => BoundInv(s)')
  BY <1>1, <1>2, OrderKept DEF WayInv, IInv
<1>4. RisingInv(s)' /\ EpochInv(s)'
  BY <1>1 DEF WayInv, RisingInv, EpochInv
<1>5. EndInv(s) => EndInv(s)'
  BY <1>1, <1>3 DEF EndInv, NullInv, DrainInv, Drained, AllTaken
<1>6. Flushing(s)' = Flushing(s)
  BY <1>1 DEF Flushing
<1> QED BY <1>3, <1>4, <1>5, <1>6 DEF WayInv

(* avcodec_receive_frame takes the first frame of the codec, or the drain  *)
(* has come to its end.                                                    *)
LEMMA ReceiveFrameWay ==
    ASSUME IInv, IInv', NEW s \in Streams, WayInv(s), ReceiveFrame(s) PROVE WayInv(s)'
<1> DEFINE sel == FramesOf(serial[s])
<1>1. /\ dpc[s] = "receive"
      /\ UNCHANGED <<queue, serial, pkt_serial, pkt, frames, rpc, todo, remaining, sent, passed,
                     dropped>>
  BY DEF ReceiveFrame, readVars, history
<1>2. /\ serial[s] \in Nat /\ pkt_serial[s] \in Int /\ pkt_serial[s] <= serial[s]
      /\ codec[s] \in Seq(Frames) /\ frame[s] \in Frames
  BY StreamFacts
<1>3. Clean(s) /\ pkt[s].kind = "none"
  BY <1>1, StreamFacts DEF StreamInv, CodecInv, HandInv
<1>4. Flushing(s)' = Flushing(s)
  BY <1>1 DEF Flushing
<1>5. CASE dpc'[s] = "push"
  <2>1. /\ Len(codec[s]) > CodecDelay \/ codec[s] # <<>>
        /\ frame'[s] = Head(codec[s]) /\ codec'[s] = Tail(codec[s])
        /\ UNCHANGED <<finished, draining>>
    BY <1>1, <1>5 DEF ReceiveFrame, IInv, TypeOK
  <2>2. codec[s] # <<>>
    BY <1>2, <2>1, CodecFilled, Zenon
  <2> DEFINE f == codec[s][1]
  <2>3. /\ frame'[s] = f /\ f \in Frames /\ Len(codec[s]) \in Nat /\ Len(codec[s]) > 0
        /\ Len(codec'[s]) = Len(codec[s]) - 1
        /\ \A i \in 1 .. Len(codec[s]) - 1 : codec'[s][i] = codec[s][i + 1]
    BY <1>2, <2>1, <2>2, TakeHead
  <2>4. Rising(codec[s], sel)
    BY DEF WayInv, RisingInv
  <2>5. /\ Rising(codec'[s], sel)
        /\ f \notin sel => Numbers(codec'[s], sel) = Numbers(codec[s], sel)
        /\ f \in sel =>
              /\ f.n \in Numbers(codec[s], sel)
              /\ \A y \in Numbers(codec'[s], sel) : y \in Numbers(codec[s], sel) /\ f.n < y
              /\ \A y \in Numbers(codec[s], sel) : y = f.n \/ y \in Numbers(codec'[s], sel)
    BY <1>2, <2>1, <2>2, <2>4, TailNumbers
  <2>6. /\ Coded(s) = Numbers(codec[s], sel) /\ Coded(s)' = Numbers(codec'[s], sel)
        /\ Decoded(s) = {} /\ Decoded(s)' = Number(f, sel)
        /\ Shown(s)' = Shown(s) /\ Waiting(s)' = Waiting(s) /\ InHand(s)' = InHand(s)
        /\ Queued(s)' = Queued(s) /\ Gone(s)' = Gone(s)
    BY <1>1, <1>5, <2>3 DEF Coded, Decoded, Shown, Waiting, InHand, Queued, Gone
  <2> HIDE DEF f, sel
  <2>7. OrderInv(s)' /\ (BoundInv(s) => BoundInv(s)')
    <3>1. CASE f \in sel
      <4>1. Decoded(s)' = {f.n}
        BY <2>6, <3>1 DEF Number
      <4>2. 2 \in 0 .. 4 /\ 2 \in Stages /\ 2 # 0 /\ 2 + 1 = 3
        BY DEF Stages
      <4>3. Moved(Held(s), Held(s)', 2, f.n)
        BY <2>5, <2>6, <3>1, <4>1, <4>2, HeldParts, HeldPartsNext, StageCases DEF Moved
      <4> QED BY <1>1, <2>6, <4>2, <4>3, OrderKept DEF WayInv, IInv
    <3>2. CASE f \notin sel
      <4>1. HeldSame(s)
        BY <2>5, <2>6, <3>2 DEF HeldSame, Number
      <4> QED BY <1>1, <4>1, OrderKept DEF WayInv, IInv
    <3> QED BY <3>1, <3>2
  <2>8. RisingInv(s)'
    BY <1>1, <2>5 DEF WayInv, RisingInv, sel
  <2>9. EpochInv(s)'
    <3>1. \A i \in 1 .. Len(codec'[s]) : codec'[s][i].epoch + 1 <= pkt_serial[s]
      <4>1. \A i \in 1 .. Len(codec'[s]) :
                i + 1 \in 1 .. Len(codec[s]) /\ codec'[s][i] = codec[s][i + 1]
        BY <2>3
      <4> QED BY <4>1 DEF WayInv, EpochInv
    <3>2. pkt'[s].kind # "flush"
      BY <1>1, <1>3
    <3> QED BY <1>1, <2>1, <3>1, <3>2 DEF WayInv, EpochInv
  <2>10. EndInv(s) => EndInv(s)'
    <3>1. DrainInv(s) => finished[s] # serial[s]
      BY <2>2 DEF DrainInv, Drained
    <3> QED BY <1>1, <2>1, <2>7, <3>1 DEF EndInv, NullInv, DrainInv, AllTaken
  <2> QED BY <1>4, <2>7, <2>8, <2>9, <2>10 DEF WayInv
<1>6. CASE dpc'[s] # "push"
  <2>1. /\ codec' = codec /\ frame' = frame
        /\ \/ /\ draining[s] /\ codec[s] = <<>> /\ finished'[s] = pkt_serial[s]
              /\ draining'[s] = FALSE
           \/ finished' = finished /\ draining' = draining
    BY <1>1, <1>6 DEF ReceiveFrame, IInv, TypeOK
  <2>2. HeldSame(s)
    BY <1>1, <1>6, <2>1 DEF HeldSame, Shown, Waiting, Decoded, Coded, InHand, Queued, Gone
  <2>3. OrderInv(s)' /\ (BoundInv(s) => BoundInv(s)')
    BY <1>1, <2>2, OrderKept DEF WayInv, IInv
  <2>4. finished'[s] <= serial[s]
    BY <1>2, <2>1 DEF WayInv, EpochInv
  <2>5. RisingInv(s)' /\ EpochInv(s)'
    BY <1>1, <2>1, <2>4 DEF WayInv, RisingInv, EpochInv
  <2>6. AllTaken(s)' = AllTaken(s)
    BY <1>1 DEF AllTaken
  <2>7. DrainInv(s) => DrainInv(s)'
    <3>1. CASE finished' = finished /\ draining' = draining
      BY <1>1, <1>6, <2>1, <2>6, <3>1 DEF DrainInv, Drained
    <3>2. CASE /\ draining[s] /\ codec[s] = <<>> /\ finished'[s] = pkt_serial[s]
               /\ draining'[s] = FALSE
      <4>1. DrainInv(s) /\ pkt_serial[s] = serial[s] => AllTaken(s)
        BY <1>3, <3>2 DEF DrainInv
      <4> QED BY <1>1, <1>3, <1>6, <2>1, <2>6, <3>2, <4>1 DEF DrainInv, Drained
    <3> QED BY <2>1, <3>1, <3>2
  <2>8. EndInv(s) => EndInv(s)'
    BY <1>1, <2>3, <2>7 DEF EndInv, NullInv
  <2> QED BY <1>4, <2>3, <2>5, <2>8 DEF WayInv
<1> QED BY <1>5, <1>6

(* A frame dropped as late is on the list. *)
LEMMA DropEarlyWay ==
    ASSUME IInv, IInv', NEW s \in Streams, WayInv(s), DropEarly(s) PROVE WayInv(s)'
<1> DEFINE sel == FramesOf(serial[s])
<1>1. /\ dpc[s] = "push" /\ dpc'[s] = "check" /\ dropped'[s] = dropped[s] \cup {frame[s]}
      /\ UNCHANGED <<queue, serial, pkt_serial, finished, pkt, codec, draining, frames,
                     rpc, todo, remaining, sent, passed>>
  BY DEF IInv, TypeOK, DropEarly, readVars
<1>2. /\ Decoded(s) = Number(frame[s], sel) /\ Decoded(s)' = {}
      /\ Shown(s)' = Shown(s) /\ Waiting(s)' = Waiting(s) /\ Coded(s)' = Coded(s)
      /\ InHand(s)' = InHand(s) /\ Queued(s)' = Queued(s)
  BY <1>1 DEF Decoded, Shown, Waiting, Coded, InHand, Queued
<1>3. Gone(s)' = Gone(s) \cup Number(frame[s], sel)
  BY <1>1 DEF Gone, Number
<1> HIDE DEF sel
<1>4. OrderInv(s)' /\ (BoundInv(s) => BoundInv(s)')
  <2>1. CASE frame[s] \in sel
    <3>1. Decoded(s) = {frame[s].n} /\ Gone(s)' = Gone(s) \cup {frame[s].n}
      BY <1>2, <1>3, <2>1 DEF Number
    <3>2. Lost(Held(s), Held(s)', 2, frame[s].n)
      BY <1>2, <3>1, HeldParts, HeldPartsNext, StageCases DEF Lost
    <3> QED BY <1>1, <3>1, <3>2, OrderKept DEF WayInv, IInv
  <2>2. CASE frame[s] \notin sel
    <3>1. HeldSame(s)
      BY <1>2, <1>3, <2>2 DEF HeldSame, Number
    <3> QED BY <1>1, <3>1, OrderKept DEF WayInv, IInv
  <2> QED BY <2>1, <2>2
<1>5. RisingInv(s)' /\ EpochInv(s)'
  BY <1>1 DEF WayInv, RisingInv, EpochInv
<1>6. EndInv(s) => EndInv(s)'
  BY <1>1, <1>4 DEF EndInv, NullInv, DrainInv, Drained, AllTaken
<1>7. Flushing(s)' = Flushing(s)
  BY <1>1 DEF Flushing
<1> QED BY <1>4, <1>5, <1>6, <1>7 DEF WayInv

(* A frame goes to the end of the frame queue. *)
LEMMA PushFrameWay ==
    ASSUME IInv, IInv', NEW s \in Streams, WayInv(s), PushFrame(s) PROVE WayInv(s)'
<1> DEFINE sel == FramesOf(serial[s])
           f   == Frame(pkt_serial[s], frame[s].epoch, frame[s].n)
<1>1. /\ dpc[s] = "push" /\ dpc'[s] = "check" /\ frames'[s] = Append(frames[s], f)
      /\ UNCHANGED <<queue, serial, pkt_serial, finished, pkt, codec, draining,
                     rpc, todo, remaining, sent, passed, dropped>>
  BY DEF IInv, TypeOK, PushFrame, readVars, history
<1>2. /\ serial[s] \in Nat /\ pkt_serial[s] \in Int /\ pkt_serial[s] <= serial[s]
      /\ frames[s] \in Seq(Frames) /\ frame[s] \in Frames
  BY StreamFacts
<1>3. frame[s].epoch + 1 = pkt_serial[s]
  BY <1>1, StreamFacts DEF StreamInv, FrameInv
<1>4. /\ f \in Frames /\ f.n = frame[s].n /\ f.epoch + 1 = pkt_serial[s]
      /\ Number(f, sel) = Number(frame[s], sel)
  BY <1>2, <1>3 DEF Frame, Frames, FramesOf, Number
<1>5. /\ Decoded(s) = Number(frame[s], sel) /\ Decoded(s)' = {}
      /\ Waiting(s) = Numbers(frames[s], sel) /\ Waiting(s)' = Numbers(frames'[s], sel)
      /\ Shown(s)' = Shown(s) /\ Coded(s)' = Coded(s)
      /\ InHand(s)' = InHand(s) /\ Queued(s)' = Queued(s) /\ Gone(s)' = Gone(s)
  BY <1>1 DEF Decoded, Shown, Waiting, Coded, InHand, Queued, Gone
<1>6. Rising(frames[s], sel) /\ Ordered(Held(s))
  BY DEF WayInv, RisingInv, OrderInv
<1> HIDE DEF f, sel
<1>7. f \in sel => \A y \in Numbers(frames[s], sel) : y < f.n
  <2>1. f \in sel => f.n \in Held(s)[2]
    BY <1>4, <1>5, HeldParts DEF Number
  <2>2. 1 \in Stages /\ 2 \in Stages /\ 1 < 2
    BY DEF Stages
  <2>3. Numbers(frames[s], sel) = Held(s)[1]
    BY <1>5, HeldParts
  <2> QED BY <1>6, <2>1, <2>2, <2>3 DEF Ordered
<1>8. Rising(frames'[s], sel) /\ Waiting(s)' = Waiting(s) \cup Number(f, sel)
  BY <1>1, <1>2, <1>4, <1>5, <1>6, <1>7, AppendNumbers
<1>9. OrderInv(s)' /\ (BoundInv(s) => BoundInv(s)')
  <2>1. CASE f \in sel
    <3>1. Decoded(s) = {f.n} /\ Waiting(s)' = Waiting(s) \cup {f.n}
      BY <1>4, <1>5, <1>8, <2>1 DEF Number
    <3>2. 1 \in 0 .. 4 /\ 1 \in Stages /\ 1 # 0 /\ 1 + 1 = 2
      BY DEF Stages
    <3>3. Moved(Held(s), Held(s)', 1, f.n)
      BY <1>5, <3>1, <3>2, HeldParts, HeldPartsNext, StageCases DEF Moved
    <3> QED BY <1>1, <1>5, <3>2, <3>3, OrderKept DEF WayInv, IInv
  <2>2. CASE f \notin sel
    <3>1. HeldSame(s)
      BY <1>4, <1>5, <1>8, <2>2 DEF HeldSame, Number
    <3> QED BY <1>1, <3>1, OrderKept DEF WayInv, IInv
  <2> QED BY <2>1, <2>2
<1>10. RisingInv(s)'
  BY <1>1, <1>8 DEF WayInv, RisingInv, sel
<1>11. EpochInv(s)'
  <2>1. /\ Len(frames[s]) \in Nat /\ Len(frames'[s]) = Len(frames[s]) + 1
        /\ \A i \in 1 .. Len(frames[s]) : frames'[s][i] = frames[s][i]
        /\ frames'[s][Len(frames[s]) + 1] = f
    BY <1>1, <1>2, <1>4, AppendOne
  <2>2. f.epoch + 1 <= serial[s]
    BY <1>2, <1>4
  <2>3. \A i \in 1 .. Len(frames[s]) : frames[s][i].epoch + 1 <= serial[s]
    BY DEF WayInv, EpochInv
  <2>4. \A i \in 1 .. Len(frames'[s]) : i \in 1 .. Len(frames[s]) \/ i = Len(frames[s]) + 1
    BY <2>1
  <2>5. \A i \in 1 .. Len(frames'[s]) : frames'[s][i].epoch + 1 <= serial[s]
    BY <2>1, <2>2, <2>3, <2>4
  <2> QED BY <1>1, <2>5 DEF WayInv, EpochInv
<1>12. EndInv(s) => EndInv(s)'
  BY <1>1, <1>9 DEF EndInv, NullInv, DrainInv, Drained, AllTaken
<1>13. Flushing(s)' = Flushing(s)
  BY <1>1 DEF Flushing
<1> QED BY <1>9, <1>10, <1>11, <1>12, <1>13 DEF WayInv

(* The first packet of the queue goes to the decoder. *)
LEMMA GetPacketWay ==
    ASSUME IInv, IInv', NEW s \in Streams, WayInv(s), GetPacket(s) PROVE WayInv(s)'
<1> DEFINE sel == DataOf(serial[s])
           p   == queue[s][1]
<1>1. /\ dpc[s] = "get" /\ dpc'[s] = "compare"
      /\ UNCHANGED <<serial, finished, codec, draining, frame, frames, rpc, todo, remaining,
                     sent, passed, dropped>>
  BY DEF IInv, TypeOK, GetPacket, readVars, history
<1>2. ~packet_pending[s] /\ pkt[s].kind = "none"
  BY <1>1, StreamFacts DEF StreamInv, HandInv
<1>3. /\ queue[s] # <<>> /\ queue'[s] = Tail(queue[s])
      /\ pkt'[s] = Head(queue[s]) /\ pkt_serial'[s] = Head(queue[s]).serial
  BY <1>2 DEF IInv, TypeOK, GetPacket
<1>4. /\ serial[s] \in Nat /\ pkt_serial[s] \in Int /\ pkt_serial[s] <= serial[s]
      /\ queue[s] \in Seq(Packets)
  BY StreamFacts
<1>5. /\ p \in Packets /\ pkt'[s] = p /\ pkt_serial'[s] = p.serial
      /\ Len(queue[s]) \in Nat /\ Len(queue[s]) > 0 /\ Len(queue'[s]) = Len(queue[s]) - 1
      /\ \A i \in 1 .. Len(queue[s]) - 1 : queue'[s][i] = queue[s][i + 1]
  BY <1>3, <1>4, TakeHead
<1>6. 1 \in 1 .. Len(queue[s]) /\ \A i \in 1 .. Len(queue'[s]) :
          i + 1 \in 1 .. Len(queue[s]) /\ queue'[s][i] = queue[s][i + 1]
  BY <1>5
<1>7. /\ p.serial = serial[s] /\ p.kind # "none" /\ (p.kind = "data" => p.epoch + 1 = serial[s])
      /\ p.kind = "flush" => pkt_serial[s] < serial[s]
  BY <1>6, StreamFacts DEF StreamInv, QueueInv
<1>8. p.kind # "flush" => pkt_serial[s] = serial[s]
  <2>1. pkt_serial[s] < serial[s] => p.kind = "flush"
    BY <1>3, StreamFacts, Zenon DEF StreamInv, StaleInv
  <2> QED BY <1>4, <2>1
<1>9. pkt_serial'[s] = serial[s]
  BY <1>5, <1>7
<1>10. p \in sel <=> p.kind = "data"
  BY <1>5, <1>7 DEF DataOf
<1>11. Rising(queue[s], sel)
  BY DEF WayInv, RisingInv
<1>12. /\ Rising(queue'[s], sel)
       /\ p \notin sel => Numbers(queue'[s], sel) = Numbers(queue[s], sel)
       /\ p \in sel =>
             /\ p.n \in Numbers(queue[s], sel)
             /\ \A y \in Numbers(queue'[s], sel) : y \in Numbers(queue[s], sel) /\ p.n < y
             /\ \A y \in Numbers(queue[s], sel) : y = p.n \/ y \in Numbers(queue'[s], sel)
  BY <1>3, <1>4, <1>11, TailNumbers
<1>13. /\ Queued(s) = Numbers(queue[s], sel) /\ Queued(s)' = Numbers(queue'[s], sel)
       /\ InHand(s) = {} /\ InHand(s)' = Number(p, sel)
  BY <1>1, <1>2, <1>5 DEF InHand, Queued, Number, DataOf
<1>14. /\ Shown(s)' = Shown(s) /\ Waiting(s)' = Waiting(s) /\ Decoded(s)' = Decoded(s)
       /\ Coded(s)' = Coded(s) /\ Gone(s)' = Gone(s)
  BY <1>1 DEF Coded, Decoded, Shown, Waiting, Gone
<1> HIDE DEF p, sel
<1>15. OrderInv(s)' /\ (BoundInv(s) => BoundInv(s)')
  <2>1. CASE p \in sel
    <3>1. InHand(s)' = {p.n}
      BY <1>13, <2>1 DEF Number
    <3>2. 4 \in 0 .. 4 /\ 4 \in Stages /\ 4 # 0 /\ 4 + 1 = 5
      BY DEF Stages
    <3>3. Moved(Held(s), Held(s)', 4, p.n)
      BY <1>12, <1>13, <1>14, <2>1, <3>1, <3>2, HeldParts, HeldPartsNext, StageCases DEF Moved
    <3> QED BY <1>1, <1>14, <3>2, <3>3, OrderKept DEF WayInv, IInv
  <2>2. CASE p \notin sel
    <3>1. HeldSame(s)
      BY <1>12, <1>13, <1>14, <2>2 DEF HeldSame, Number
    <3> QED BY <1>1, <3>1, OrderKept DEF WayInv, IInv
  <2> QED BY <2>1, <2>2
<1>16. RisingInv(s)'
  BY <1>1, <1>12 DEF WayInv, RisingInv, sel
<1>17. EpochInv(s)'
  <2>1. ASSUME NEW i \in 1 .. Len(codec[s])
        PROVE  /\ codec[s][i].epoch + 1 <= serial[s]
               /\ p.kind = "flush" => codec[s][i].epoch + 1 < serial[s]
    <3>1. codec[s][i].epoch + 1 <= pkt_serial[s]
      BY DEF WayInv, EpochInv
    <3>2. codec[s][i].epoch \in Nat
      <4>1. codec[s][i] \in Frames
        BY StreamFacts
      <4> QED BY <4>1 DEF Frames
    <3> QED BY <1>4, <1>7, <3>1, <3>2
  <2> QED BY <1>1, <1>5, <1>9, <2>1 DEF WayInv, EpochInv
<1>18. NullInv(s) => NullInv(s)'
  <2> SUFFICES ASSUME NullInv(s), NEW i \in 1 .. Len(queue'[s]), queue'[s][i].kind = "null"
               PROVE  remaining[s] = 0 /\ \A j \in i .. Len(queue'[s]) : queue'[s][j].kind # "data"
    BY <1>1 DEF NullInv
  <2>1. i + 1 \in 1 .. Len(queue[s]) /\ queue[s][i + 1].kind = "null"
    BY <1>6
  <2>2. remaining[s] = 0 /\ \A j \in i + 1 .. Len(queue[s]) : queue[s][j].kind # "data"
    BY <2>1 DEF NullInv
  <2>3. \A j \in i .. Len(queue'[s]) : j \in 1 .. Len(queue'[s]) /\ j + 1 \in i + 1 .. Len(queue[s])
    BY <1>5
  <2> QED BY <1>6, <2>2, <2>3
<1>19. NoData(queue[s]) => NoData(queue'[s]) /\ p.kind # "data"
  BY <1>6 DEF NoData, p
<1>20. AllTaken(s) => AllTaken(s)' /\ p.kind # "data"
  BY <1>1, <1>19 DEF AllTaken
<1>21. NullInv(s) /\ p.kind = "null" => AllTaken(s)
  BY <1>6 DEF NullInv, AllTaken, NoData, p
<1>22. NullInv(s) /\ DrainInv(s) => DrainInv(s)'
  <2> SUFFICES ASSUME NullInv(s), DrainInv(s) PROVE DrainInv(s)'
    OBVIOUS
  <2>1. p.kind = "null" \/ (draining[s] /\ p.kind # "flush") => AllTaken(s)
    BY <1>2, <1>8, <1>21 DEF DrainInv
  <2>2. finished[s] = serial[s] => Drained(s)
    BY DEF DrainInv
  <2>3. Drained(s) => Drained(s)'
    <3>1. Drained(s) => p.kind # "flush"
      BY <1>4, <1>7 DEF Drained
    <3>2. Drained(s) => p.kind \in {"none", "null"}
      <4>1. p.kind \in {"none", "flush", "data", "null"}
        BY <1>5 DEF Packets
      <4> QED BY <1>20, <3>1, <4>1 DEF Drained
    <3> QED BY <1>1, <1>5, <1>9, <1>20, <3>2 DEF Drained
  <2> QED BY <1>1, <1>5, <1>9, <1>20, <2>1, <2>2, <2>3 DEF DrainInv
<1>23. Flushing(s)' = Flushing(s)
  BY <1>1 DEF Flushing
<1> QED BY <1>15, <1>16, <1>17, <1>18, <1>22, <1>23 DEF WayInv, EndInv

(* A packet that is thrown away is of an earlier epoch. *)
LEMMA CompareWay ==
    ASSUME IInv, IInv', NEW s \in Streams, WayInv(s), ComparePacket(s) \/ CompareAgain(s)
    PROVE  WayInv(s)'
<1>1. /\ dpc[s] \in {"compare", "again"} /\ dpc'[s] \in {"again", "get", "send"}
      /\ UNCHANGED <<queue, serial, pkt_serial, finished, codec, draining, frame, frames,
                     rpc, todo, remaining, sent, passed, dropped>>
  BY DEF IInv, TypeOK, ComparePacket, CompareAgain, readVars, history
<1>2. pkt'[s] = pkt[s] \/ (pkt'[s] = NoPacket /\ pkt_serial[s] # serial[s])
  <2>1. pkt \in [Streams -> Packets]
    BY DEF IInv, TypeOK
  <2>2. \/ pkt' = pkt
        \/ pkt' = [pkt EXCEPT ![s] = NoPacket] /\ serial[s] # pkt_serial[s]
    <3>1. CASE ComparePacket(s)
      BY <3>1, Zenon DEF ComparePacket
    <3>2. CASE CompareAgain(s)
      BY <3>2, Zenon DEF CompareAgain
    <3> QED BY <3>1, <3>2
  <2> QED BY <2>1, <2>2
<1>3. NoPacket.kind = "none"
  BY DEF NoPacket, Packet
<1>4. /\ serial[s] \in Nat /\ pkt_serial[s] \in Int
      /\ pkt[s].kind = "data" => pkt[s].epoch + 1 = pkt_serial[s]
  BY StreamFacts DEF StreamInv, HandInv
<1>5. InHand(s)' = InHand(s)
  BY <1>1, <1>2, <1>3, <1>4 DEF InHand, Number, DataOf
<1>6. HeldSame(s)
  BY <1>1, <1>5 DEF HeldSame, Shown, Waiting, Decoded, Coded, Queued, Gone
<1>7. OrderInv(s)' /\ (BoundInv(s) => BoundInv(s)')
  BY <1>1, <1>6, OrderKept DEF WayInv, IInv
<1>8. RisingInv(s)'
  BY <1>1 DEF WayInv, RisingInv
<1>9. EpochInv(s)'
  <2>1. pkt'[s].kind = "flush" => pkt[s].kind = "flush"
    BY <1>2, <1>3
  <2> QED BY <1>1, <2>1 DEF WayInv, EpochInv
<1>10. AllTaken(s)' = AllTaken(s)
  BY <1>1 DEF AllTaken
<1>11. DrainInv(s) => DrainInv(s)'
  BY <1>1, <1>2, <1>10 DEF DrainInv, Drained
<1>12. EndInv(s) => EndInv(s)'
  BY <1>1, <1>7, <1>11 DEF EndInv, NullInv
<1>13. Flushing(s)' = Flushing(s)
  BY <1>1 DEF Flushing
<1> QED BY <1>7, <1>8, <1>9, <1>12, <1>13 DEF WayInv

(* What avcodec_flush_buffers throws away is of an earlier epoch. *)
LEMMA FlushCodecWay ==
    ASSUME IInv, IInv', NEW s \in Streams, WayInv(s), FlushCodec(s) PROVE WayInv(s)'
<1> DEFINE sel == FramesOf(serial[s])
<1>1. /\ dpc[s] = "send" /\ dpc'[s] = "check" /\ pkt[s].kind = "flush"
      /\ codec'[s] = <<>> /\ draining'[s] = FALSE /\ finished'[s] = 0 /\ pkt'[s] = NoPacket
      /\ UNCHANGED <<queue, serial, pkt_serial, frame, frames, rpc, todo, remaining, sent, passed,
                     dropped>>
  BY DEF IInv, TypeOK, FlushCodec, readVars, history
<1>2. NoPacket.kind = "none"
  BY DEF NoPacket, Packet
<1>3. /\ serial[s] \in Nat /\ pkt_serial[s] \in Int /\ pkt_serial[s] <= serial[s]
      /\ codec[s] \in Seq(Frames)
  BY StreamFacts
<1>4. \A i \in 1 .. Len(codec[s]) : codec[s][i] \notin sel
  <2> SUFFICES ASSUME NEW i \in 1 .. Len(codec[s]) PROVE codec[s][i].epoch + 1 # serial[s]
    BY DEF FramesOf
  <2>1. codec[s][i].epoch + 1 < pkt_serial[s]
    BY <1>1 DEF WayInv, EpochInv
  <2>2. codec[s][i].epoch \in Nat
    <3>1. codec[s][i] \in Frames
      BY <1>3
    <3> QED BY <3>1 DEF Frames
  <2> QED BY <1>3, <2>1, <2>2
<1>5. Len(<<>>) = 0
  OBVIOUS
<1>6. \A i \in 1 .. Len(codec'[s]) : codec'[s][i] \notin sel
  BY <1>1, <1>5
<1> HIDE DEF sel
<1>7. Numbers(codec[s], sel) = {} /\ Numbers(codec'[s], sel) = {} /\ Rising(codec'[s], sel)
  BY <1>4, <1>6, NoNumbers
<1>8. Coded(s) = {} /\ Coded(s)' = {}
  BY <1>1, <1>7 DEF Coded, sel
<1>9. InHand(s) = {} /\ InHand(s)' = {}
  BY <1>1, <1>2 DEF InHand, Number, DataOf
<1>10. HeldSame(s)
  BY <1>1, <1>8, <1>9 DEF HeldSame, Shown, Waiting, Decoded, Queued, Gone
<1>11. OrderInv(s)' /\ (BoundInv(s) => BoundInv(s)')
  BY <1>1, <1>10, OrderKept DEF WayInv, IInv
<1>12. RisingInv(s)'
  BY <1>1, <1>7 DEF WayInv, RisingInv, sel
<1>13. EpochInv(s)'
  <2>1. ~ \E i \in 1 .. Len(codec'[s]) : TRUE
    BY <1>1, <1>5
  <2>2. finished'[s] <= serial[s]
    BY <1>1, <1>3
  <2> QED BY <1>1, <2>1, <2>2 DEF WayInv, EpochInv
<1>14. ~Flushing(s) => serial[s] # 0
  <2>1. ~Flushing(s) => serial[s] = epoch + 1
    BY DEF IInv, PhaseInv, Flushing
  <2> QED BY <2>1, StreamFacts
<1>15. ~Flushing(s) => DrainInv(s)'
  BY <1>1, <1>2, <1>14 DEF DrainInv
<1>16. ~Flushing(s) => EndInv(s)'
  BY <1>1, <1>11, <1>15 DEF WayInv, EndInv, NullInv
<1>17. Flushing(s)' = Flushing(s)
  BY <1>1 DEF Flushing
<1> QED BY <1>11, <1>12, <1>13, <1>16, <1>17 DEF WayInv

(* A packet goes to the codec, which is ready for it; a null packet starts *)
(* the drain.                                                              *)
LEMMA SendPacketWay ==
    ASSUME IInv, IInv', NEW s \in Streams, WayInv(s), SendPacket(s) PROVE WayInv(s)'
<1> DEFINE sel == FramesOf(serial[s])
           f   == Frame(0, pkt[s].epoch, pkt[s].n)
<1>1. /\ dpc[s] = "send" /\ dpc'[s] = "check" /\ pkt[s].kind \in {"data", "null"}
      /\ UNCHANGED <<queue, serial, pkt_serial, finished, frame, frames, rpc, todo, remaining,
                     sent, passed, dropped>>
  BY DEF IInv, TypeOK, SendPacket, readVars, history
<1>2. /\ serial[s] \in Nat /\ pkt_serial[s] \in Int /\ pkt_serial[s] <= serial[s]
      /\ codec[s] \in Seq(Frames) /\ pkt[s] \in Packets
  BY StreamFacts
<1>3. Len(codec[s]) <= CodecDelay /\ ~draining[s]
  BY <1>1, StreamFacts DEF StreamInv, ReadyInv, Ready
<1>4. ~(Len(codec[s]) > CodecDelay)
  BY <1>2, <1>3, SizesAssumption
<1>5. /\ codec'[s] = IF pkt[s].kind = "data" THEN Append(codec[s], f) ELSE codec[s]
      /\ draining'[s] <=> pkt[s].kind = "null"
      /\ pkt'[s] = NoPacket
  <2>1. /\ codec' = IF pkt[s].kind = "data" /\ ~draining[s]
                    THEN [codec EXCEPT ![s] = Append(codec[s], f)]
                    ELSE codec
        /\ draining' = [draining EXCEPT ![s] = draining[s] \/ pkt[s].kind = "null"]
        /\ pkt' = [pkt EXCEPT ![s] = NoPacket]
    BY <1>4, Zenon DEF SendPacket
  <2>2. /\ codec \in [Streams -> Seq(Frames)] /\ draining \in [Streams -> BOOLEAN]
        /\ pkt \in [Streams -> Packets]
    BY DEF IInv, TypeOK
  <2>3. draining'[s] <=> pkt[s].kind = "null"
    <3>1. draining'[s] = (draining[s] \/ pkt[s].kind = "null")
      BY <2>1, <2>2, Zenon
    <3> QED BY <1>3, <3>1, Zenon
  <2>4. pkt'[s] = NoPacket
    BY <2>1, <2>2
  <2>5. codec'[s] = IF pkt[s].kind = "data" THEN Append(codec[s], f) ELSE codec[s]
    BY <1>3, <2>1, <2>2
  <2> QED BY <2>3, <2>4, <2>5
<1>6. NoPacket.kind = "none"
  BY DEF NoPacket, Packet
<1>7. pkt[s].kind = "data" => pkt[s].epoch + 1 = pkt_serial[s]
  BY StreamFacts DEF StreamInv, HandInv
<1>8. f \in Frames /\ f.n = pkt[s].n /\ f.epoch = pkt[s].epoch
  BY <1>2 DEF Frame, Frames, Packets
<1>9. /\ Coded(s) = Numbers(codec[s], sel) /\ Coded(s)' = Numbers(codec'[s], sel)
      /\ InHand(s)' = {}
      /\ InHand(s) = IF pkt[s].kind = "data" THEN Number(f, sel) ELSE {}
  BY <1>1, <1>2, <1>5, <1>6, <1>8 DEF Coded, InHand, Number, DataOf, FramesOf
<1>10. /\ Shown(s)' = Shown(s) /\ Waiting(s)' = Waiting(s) /\ Decoded(s)' = {} /\ Decoded(s) = {}
       /\ Queued(s)' = Queued(s) /\ Gone(s)' = Gone(s)
  BY <1>1 DEF Decoded, Shown, Waiting, Queued, Gone
<1>11. Rising(codec[s], sel) /\ Ordered(Held(s))
  BY DEF WayInv, RisingInv, OrderInv
<1> HIDE DEF f, sel
<1>12. AllTaken(s)' = AllTaken(s)
  BY <1>1 DEF AllTaken
<1>13. DrainInv(s) => DrainInv(s)'
  <2> SUFFICES ASSUME DrainInv(s) PROVE DrainInv(s)'
    OBVIOUS
  <2>1. pkt_serial[s] = serial[s] /\ pkt[s].kind = "null" => AllTaken(s)
    BY DEF DrainInv
  <2>2. Drained(s) => Drained(s)'
    BY <1>1, <1>5, <1>6, <1>12 DEF Drained
  <2> QED BY <1>1, <1>5, <1>6, <1>12, <2>1, <2>2 DEF DrainInv
<1>14. Flushing(s)' = Flushing(s)
  BY <1>1 DEF Flushing
<1>15. CASE pkt[s].kind = "data"
  <2>1. f \in sel => \A y \in Numbers(codec[s], sel) : y < f.n
    <3>1. f \in sel => f.n \in Held(s)[4]
      BY <1>9, <1>15, HeldParts DEF Number
    <3>2. 3 \in Stages /\ 4 \in Stages /\ 3 < 4
      BY DEF Stages
    <3>3. Numbers(codec[s], sel) = Held(s)[3]
      BY <1>9, HeldParts
    <3> QED BY <1>11, <3>1, <3>2, <3>3 DEF Ordered
  <2>2. codec'[s] = Append(codec[s], f)
    BY <1>5, <1>15
  <2>3. Rising(codec'[s], sel) /\ Coded(s)' = Coded(s) \cup Number(f, sel)
    BY <1>2, <1>8, <1>9, <1>11, <2>1, <2>2, AppendNumbers
  <2>4. OrderInv(s)' /\ (BoundInv(s) => BoundInv(s)')
    <3>1. CASE f \in sel
      <4>1. InHand(s) = {f.n} /\ InHand(s)' = {} /\ Coded(s)' = Coded(s) \cup {f.n}
        BY <1>9, <1>15, <2>3, <3>1 DEF Number
      <4>2. 3 \in 0 .. 4 /\ 3 \in Stages /\ 3 # 0 /\ 3 + 1 = 4
        BY DEF Stages
      <4>3. Moved(Held(s), Held(s)', 3, f.n)
        BY <1>10, <4>1, <4>2, HeldParts, HeldPartsNext, StageCases DEF Moved
      <4> QED BY <1>1, <1>10, <4>2, <4>3, OrderKept DEF WayInv, IInv
    <3>2. CASE f \notin sel
      <4>1. HeldSame(s)
        BY <1>9, <1>10, <1>15, <2>3, <3>2 DEF HeldSame, Number
      <4> QED BY <1>1, <4>1, OrderKept DEF WayInv, IInv
    <3> QED BY <3>1, <3>2
  <2>5. RisingInv(s)'
    BY <1>1, <2>3 DEF WayInv, RisingInv, sel
  <2>6. EpochInv(s)'
    <3>1. /\ Len(codec[s]) \in Nat /\ Len(codec'[s]) = Len(codec[s]) + 1
          /\ \A i \in 1 .. Len(codec[s]) : codec'[s][i] = codec[s][i]
          /\ codec'[s][Len(codec[s]) + 1] = f
      BY <1>2, <1>8, <2>2, AppendOne
    <3>2. f.epoch + 1 <= pkt_serial[s]
      BY <1>2, <1>7, <1>8, <1>15
    <3>3. \A i \in 1 .. Len(codec[s]) : codec[s][i].epoch + 1 <= pkt_serial[s]
      BY DEF WayInv, EpochInv
    <3>4. \A i \in 1 .. Len(codec'[s]) : i \in 1 .. Len(codec[s]) \/ i = Len(codec[s]) + 1
      BY <3>1
    <3>5. \A i \in 1 .. Len(codec'[s]) : codec'[s][i].epoch + 1 <= pkt_serial[s]
      BY <3>1, <3>2, <3>3, <3>4
    <3>6. pkt'[s].kind # "flush"
      BY <1>5, <1>6
    <3> QED BY <1>1, <3>5, <3>6 DEF WayInv, EpochInv
  <2>7. EndInv(s) => EndInv(s)'
    BY <1>1, <1>13, <2>4 DEF EndInv, NullInv
  <2> QED BY <1>14, <2>4, <2>5, <2>6, <2>7 DEF WayInv
<1>16. CASE pkt[s].kind = "null"
  <2>1. codec'[s] = codec[s]
    BY <1>5, <1>16
  <2>2. HeldSame(s)
    BY <1>9, <1>10, <1>16, <2>1 DEF HeldSame
  <2>3. OrderInv(s)' /\ (BoundInv(s) => BoundInv(s)')
    BY <1>1, <2>2, OrderKept DEF WayInv, IInv
  <2>4. pkt'[s].kind # "flush"
    BY <1>5, <1>6
  <2>5. RisingInv(s)' /\ EpochInv(s)'
    BY <1>1, <2>1, <2>4 DEF WayInv, RisingInv, EpochInv
  <2>6. EndInv(s) => EndInv(s)'
    BY <1>1, <1>13, <2>3 DEF EndInv, NullInv
  <2> QED BY <1>14, <2>3, <2>5, <2>6 DEF WayInv
<1> QED BY <1>1, <1>15, <1>16

(* The first frame of the frame queue is shown, or is of an earlier epoch. *)
LEMMA ConsumeWay ==
    ASSUME IInv, IInv', NEW s \in Streams, WayInv(s), Consume(s) PROVE WayInv(s)'
<1> DEFINE sel == FramesOf(serial[s])
           f   == frames[s][1]
<1>1. /\ frames[s] # <<>> /\ frames'[s] = Tail(frames[s])
      /\ UNCHANGED <<queue, serial, dpc, pkt_serial, finished, pkt, codec, draining, frame,
                     rpc, todo, remaining, sent, dropped>>
  BY DEF IInv, TypeOK, Consume, readVars, decVars
<1>2. /\ serial[s] \in Nat /\ frames[s] \in Seq(Frames)
  BY StreamFacts
<1>3. /\ f \in Frames /\ f = Head(frames[s])
      /\ Len(frames[s]) \in Nat /\ Len(frames[s]) > 0 /\ Len(frames'[s]) = Len(frames[s]) - 1
      /\ \A i \in 1 .. Len(frames[s]) - 1 : frames'[s][i] = frames[s][i + 1]
  BY <1>1, <1>2, TakeHead
<1>4. f.serial = f.epoch + 1
  <2>1. 1 \in 1 .. Len(frames[s])
    BY <1>3
  <2> QED BY <2>1, StreamFacts DEF StreamInv, FrameInv
<1>5. f \in sel <=> f.serial = serial[s]
  BY <1>3, <1>4 DEF FramesOf
<1>6. passed'[s] = IF f \in sel THEN f ELSE passed[s]
  <2>1. passed' = IF f \in sel THEN [passed EXCEPT ![s] = f] ELSE passed
    BY <1>3, <1>5, Zenon DEF Consume
  <2>2. passed \in [Streams -> Frames]
    BY DEF IInv, TypeOK
  <2> QED BY <2>1, <2>2
<1>7. Rising(frames[s], sel)
  BY DEF WayInv, RisingInv
<1>8. /\ Rising(frames'[s], sel)
      /\ f \notin sel => Numbers(frames'[s], sel) = Numbers(frames[s], sel)
      /\ f \in sel =>
            /\ f.n \in Numbers(frames[s], sel)
            /\ \A y \in Numbers(frames'[s], sel) : y \in Numbers(frames[s], sel) /\ f.n < y
            /\ \A y \in Numbers(frames[s], sel) : y = f.n \/ y \in Numbers(frames'[s], sel)
  BY <1>1, <1>2, <1>7, TailNumbers
<1>9. /\ Waiting(s) = Numbers(frames[s], sel) /\ Waiting(s)' = Numbers(frames'[s], sel)
      /\ Shown(s)' = Number(passed'[s], sel) /\ Shown(s) = Number(passed[s], sel)
      /\ Decoded(s)' = Decoded(s) /\ Coded(s)' = Coded(s)
      /\ InHand(s)' = InHand(s) /\ Queued(s)' = Queued(s) /\ Gone(s)' = Gone(s)
  BY <1>1 DEF Decoded, Shown, Waiting, Coded, InHand, Queued, Gone
<1>10. f \in sel => f.epoch + 1 <= serial[s]
  BY <1>2 DEF FramesOf
<1> HIDE DEF f, sel
<1>11. OrderInv(s)' /\ (BoundInv(s) => BoundInv(s)')
  <2>1. CASE f \in sel
    <3>1. Shown(s)' = {f.n}
      BY <1>6, <1>9, <2>1 DEF Number
    <3>2. 0 \in 0 .. 4 /\ 0 \in Stages /\ 0 + 1 = 1
      BY DEF Stages
    <3>3. Moved(Held(s), Held(s)', 0, f.n)
      BY <1>8, <1>9, <2>1, <3>1, <3>2, HeldParts, HeldPartsNext, StageCases DEF Moved
    <3> QED BY <1>1, <1>9, <3>2, <3>3, OrderKept DEF WayInv, IInv
  <2>2. CASE f \notin sel
    <3>1. HeldSame(s)
      BY <1>6, <1>8, <1>9, <2>2 DEF HeldSame
    <3> QED BY <1>1, <3>1, OrderKept DEF WayInv, IInv
  <2> QED BY <2>1, <2>2
<1>12. RisingInv(s)'
  BY <1>1, <1>8 DEF WayInv, RisingInv, sel
<1>13. EpochInv(s)'
  <2>1. passed'[s].epoch + 1 <= serial[s]
    BY <1>6, <1>10 DEF WayInv, EpochInv
  <2>2. \A i \in 1 .. Len(frames'[s]) : frames'[s][i].epoch + 1 <= serial[s]
    <3>1. \A i \in 1 .. Len(frames'[s]) :
              i + 1 \in 1 .. Len(frames[s]) /\ frames'[s][i] = frames[s][i + 1]
      BY <1>3
    <3> QED BY <3>1 DEF WayInv, EpochInv
  <2> QED BY <1>1, <2>1, <2>2 DEF WayInv, EpochInv
<1>14. EndInv(s) => EndInv(s)'
  BY <1>1, <1>11 DEF EndInv, NullInv, DrainInv, Drained, AllTaken
<1>15. Flushing(s)' = Flushing(s)
  BY <1>1 DEF Flushing
<1> QED BY <1>11, <1>12, <1>13, <1>14, <1>15 DEF WayInv

------------------------------------------------------------------------------
(* read_thread *)

(* A flushed queue loses what was last on the way. *)
LEMMA FlushQueueWay ==
    ASSUME IInv, IInv', CheckInv, NEW s \in Streams, WayInv(s), FlushQueue(s) PROVE WayInv(s)'
<1>1. /\ queue'[s] = <<>> /\ rpc = "flush" /\ rpc' = "put flush" /\ s \in todo
      /\ UNCHANGED <<serial, dpc, pkt_serial, finished, pkt, codec, frame, frames, todo, sent,
                     passed, dropped>>
  BY DEF IInv, TypeOK, FlushQueue, decVars, history
<1>2. sent[s] = 0
  BY <1>1 DEF CheckInv
<1>3. Len(<<>>) = 0
  OBVIOUS
<1>4. \A i \in 1 .. Len(queue'[s]) : FALSE
  <2>1. queue'[s] = <<>>
    BY <1>1
  <2>2. Len(queue'[s]) = 0
    BY <1>3, <2>1, Zenon
  <2> QED BY <2>2
<1>5. Numbers(queue'[s], DataOf(serial[s])) = {} /\ Rising(queue'[s], DataOf(serial[s]))
  BY <1>4, NoNumbers
<1>6. Queued(s)' = {}
  BY <1>1, <1>5 DEF Queued
<1>7. /\ Shown(s)' = Shown(s) /\ Waiting(s)' = Waiting(s) /\ Decoded(s)' = Decoded(s)
      /\ Coded(s)' = Coded(s) /\ InHand(s)' = InHand(s) /\ Gone(s)' = Gone(s)
  BY <1>1 DEF Decoded, Shown, Waiting, Coded, InHand, Gone
<1>8. Held(s)'[5] = {} /\ \A j \in Stages : j # 5 => Held(s)'[j] = Held(s)[j]
  BY <1>6, <1>7, HeldParts, HeldPartsNext, StageCases
<1>9. Held(s) \in Holdings /\ Held(s)' \in Holdings
  BY HeldType, HeldTypeNext DEF IInv
<1>10. Ordered(Held(s)) /\ Covered(Held(s), Gone(s), 0)
  BY <1>2 DEF WayInv, OrderInv
<1>11. Ordered(Held(s)') /\ Covered(Held(s)', Gone(s), 0)
  BY <1>8, <1>9, <1>10, EmptiedKeeps
<1>12. OrderInv(s)'
  BY <1>1, <1>2, <1>7, <1>11 DEF OrderInv
<1>13. RisingInv(s)' /\ EpochInv(s)'
  BY <1>1, <1>5 DEF WayInv, RisingInv, EpochInv
<1>14. Flushing(s)'
  BY <1>1 DEF Flushing
<1> QED BY <1>12, <1>13, <1>14 DEF WayInv

(* With the flush packet nothing has been read of the new epoch, and       *)
(* everything on the way is of an earlier one.                             *)
LEMMA PutFlushWay ==
    ASSUME IInv, IInv', CheckInv, NEW s \in Streams, WayInv(s), PutFlush(s) PROVE WayInv(s)'
<1> DEFINE sel == FramesOf(serial[s] + 1)
           p   == Packet("flush", serial[s] + 1, 0, 0)
<1>1. /\ queue[s] = <<>> /\ now = {s} /\ rpc = "put flush"
  BY DEF IInv, PutFlush, NowInv
<1>2. /\ serial'[s] = serial[s] + 1 /\ queue'[s] = Append(queue[s], p) /\ s \notin todo'
      /\ UNCHANGED <<dpc, pkt_serial, finished, pkt, codec, frame, frames, sent, passed, dropped>>
  BY DEF IInv, TypeOK, PutFlush, decVars, history
<1>3. /\ serial[s] \in Nat /\ pkt_serial[s] \in Int /\ pkt_serial[s] <= serial[s]
      /\ finished[s] \in Int /\ frames[s] \in Seq(Frames) /\ codec[s] \in Seq(Frames)
      /\ passed[s] \in Frames /\ frame[s] \in Frames /\ pkt[s] \in Packets
  BY StreamFacts
<1>4. sent[s] = 0
  BY <1>1 DEF CheckInv
<1>5. p.kind = "flush"
  BY DEF Packet
<1>6. Len(queue'[s]) = 1 /\ queue'[s][1] = p
  <2>1. queue'[s] = Append(<<>>, p)
    BY <1>1, <1>2, Zenon
  <2> QED BY <2>1
<1> HIDE DEF p
<1>7. \A f \in Frames : f.epoch \in Nat
  BY DEF Frames
<1>8. \A i \in 1 .. Len(frames[s]) : frames[s][i] \notin sel
  <2> SUFFICES ASSUME NEW i \in 1 .. Len(frames[s]) PROVE frames[s][i].epoch + 1 # serial[s] + 1
    BY DEF FramesOf
  <2>1. frames[s][i] \in Frames
    BY <1>3
  <2>2. frames[s][i].epoch + 1 <= serial[s]
    BY DEF WayInv, EpochInv
  <2> QED BY <1>3, <1>7, <2>1, <2>2
<1>9. \A i \in 1 .. Len(codec[s]) : codec[s][i] \notin sel
  <2> SUFFICES ASSUME NEW i \in 1 .. Len(codec[s]) PROVE codec[s][i].epoch + 1 # serial[s] + 1
    BY DEF FramesOf
  <2>1. codec[s][i] \in Frames
    BY <1>3
  <2>2. codec[s][i].epoch + 1 <= pkt_serial[s]
    BY DEF WayInv, EpochInv
  <2> QED BY <1>3, <1>7, <2>1, <2>2
<1>10. passed[s] \notin sel
  <2>1. passed[s].epoch + 1 <= serial[s]
    BY DEF WayInv, EpochInv
  <2> QED BY <1>3, <1>7, <2>1 DEF FramesOf
<1>11. dpc[s] = "push" => frame[s] \notin sel
  <2>1. dpc[s] = "push" => frame[s].epoch + 1 = pkt_serial[s]
    BY StreamFacts DEF StreamInv, FrameInv
  <2> QED BY <1>3, <1>7, <2>1 DEF FramesOf
<1>12. pkt[s] \notin DataOf(serial[s] + 1)
  <2>1. pkt[s].kind = "data" => pkt[s].epoch + 1 = pkt_serial[s]
    BY StreamFacts DEF StreamInv, HandInv
  <2> QED BY <1>3, <2>1 DEF DataOf
<1>13. \A i \in 1 .. Len(queue'[s]) : queue'[s][i].kind = "flush"
  BY <1>5, <1>6
<1>14. \A i \in 1 .. Len(queue'[s]) : queue'[s][i] \notin DataOf(serial[s] + 1)
  BY <1>13 DEF DataOf
<1> HIDE DEF sel
<1>15. /\ Numbers(frames[s], sel) = {} /\ Rising(frames[s], sel)
       /\ Numbers(codec[s], sel) = {} /\ Rising(codec[s], sel)
  BY <1>8, <1>9, NoNumbers
<1>16. /\ Numbers(queue'[s], DataOf(serial[s] + 1)) = {}
       /\ Rising(queue'[s], DataOf(serial[s] + 1))
  BY <1>14, NoNumbers
<1>17. /\ Shown(s)' = {} /\ Waiting(s)' = {} /\ Decoded(s)' = {}
       /\ Coded(s)' = {} /\ InHand(s)' = {} /\ Queued(s)' = {}
  BY <1>2, <1>10, <1>11, <1>12, <1>15, <1>16
     DEF Shown, Waiting, Decoded, Coded, InHand, Queued, Number, sel
<1>18. \A j \in Stages : Held(s)'[j] = {}
  BY <1>17, HeldPartsNext, StageCases
<1>19. Held(s)' \in Holdings
  BY HeldTypeNext DEF IInv
<1>20. Ordered(Held(s)') /\ Covered(Held(s)', Gone(s)', 0)
  BY <1>18, <1>19, NothingHeld
<1>21. OrderInv(s)'
  BY <1>2, <1>4, <1>20 DEF OrderInv
<1>22. RisingInv(s)'
  BY <1>2, <1>15, <1>16 DEF RisingInv, sel
<1>23. serial[s] <= serial'[s] /\ finished[s] < serial'[s] /\ pkt_serial[s] < serial'[s]
  <2>1. finished[s] <= serial[s]
    BY DEF WayInv, EpochInv
  <2> QED BY <1>2, <1>3, <2>1
<1>24. EpochInv(s)'
  <2>1. ASSUME NEW e \in Int, e <= serial[s] PROVE e <= serial'[s]
    BY <1>2, <1>3, <2>1
  <2>2. passed[s].epoch + 1 <= serial'[s]
    BY <1>3, <1>7, <2>1 DEF WayInv, EpochInv
  <2>3. \A i \in 1 .. Len(frames[s]) : frames[s][i].epoch + 1 <= serial'[s]
    <3> SUFFICES ASSUME NEW i \in 1 .. Len(frames[s]) PROVE frames[s][i].epoch + 1 <= serial'[s]
      OBVIOUS
    <3>1. frames[s][i] \in Frames
      BY <1>3
    <3>2. frames[s][i].epoch + 1 <= serial[s]
      BY DEF WayInv, EpochInv
    <3> QED BY <1>7, <2>1, <3>1, <3>2
  <2>4. finished[s] <= serial'[s]
    BY <1>2, <1>3, <1>23
  <2>5. /\ passed' = passed /\ frames' = frames /\ codec' = codec /\ pkt' = pkt
        /\ pkt_serial' = pkt_serial /\ finished' = finished
    BY <1>2
  <2>6. \A i \in 1 .. Len(codec[s]) :
            /\ codec[s][i].epoch + 1 <= pkt_serial[s]
            /\ pkt[s].kind = "flush" => codec[s][i].epoch + 1 < pkt_serial[s]
    BY DEF WayInv, EpochInv
  <2> QED BY <2>2, <2>3, <2>4, <2>5, <2>6 DEF EpochInv
<1>25. NullInv(s)'
  BY <1>13 DEF NullInv
<1>26. DrainInv(s)'
  <2>1. pkt_serial'[s] # serial'[s] /\ finished'[s] # serial'[s]
    BY <1>2, <1>3, <1>23
  <2> QED BY <2>1 DEF DrainInv
<1>27. BoundInv(s)'
  BY <1>18 DEF BoundInv
<1> QED BY <1>21, <1>22, <1>24, <1>25, <1>26, <1>27 DEF WayInv, EndInv

(* A packet read goes to the end of the queue. *)
LEMMA ReadPacketWay ==
    ASSUME IInv, IInv', NEW s \in Streams, WayInv(s), ReadPacket(s) PROVE WayInv(s)'
<1> DEFINE sel == DataOf(serial[s])
           p   == Packet("data", serial[s], epoch, sent[s] + 1)
<1>1. /\ rpc = "read" /\ rpc' = "top" /\ queue'[s] = Append(queue[s], p)
      /\ remaining[s] > 0 /\ sent'[s] = sent[s] + 1
      /\ UNCHANGED <<serial, dpc, pkt_serial, finished, pkt, codec, draining, frame, frames,
                     passed, dropped>>
  BY DEF IInv, TypeOK, ReadPacket, Put, decVars, history
<1>2. /\ serial[s] \in Nat /\ epoch \in Nat /\ sent[s] \in Nat /\ remaining[s] \in Nat
      /\ queue[s] \in Seq(Packets)
  BY StreamFacts
<1>3. serial[s] = epoch + 1
  BY <1>1 DEF IInv, PhaseInv
<1>4. p \in Packets /\ p.kind = "data" /\ p \in sel /\ p.n = sent[s] + 1
  BY <1>2, <1>3 DEF Packet, Packets, DataOf
<1>5. EndInv(s) /\ OrderInv(s)
  BY <1>1 DEF WayInv, Flushing
<1>6. Rising(queue[s], sel)
  BY DEF WayInv, RisingInv
<1> HIDE DEF p
<1>7. Queued(s) = Numbers(queue[s], sel) /\ Queued(s)' = Numbers(queue'[s], sel)
  BY <1>1 DEF Queued
<1> HIDE DEF sel
<1>8. Held(s) \in Holdings /\ Held(s)' \in Holdings
  BY HeldType, HeldTypeNext DEF IInv
<1>9. \A j \in Stages : \A n \in Held(s)[j] : n \in Nat /\ n <= sent[s]
  BY <1>5, <1>8 DEF EndInv, BoundInv, Holdings
<1>10. \A y \in Numbers(queue[s], sel) : y < p.n
  <2>1. 5 \in Stages
    BY DEF Stages
  <2>2. \A y \in Numbers(queue[s], sel) : y \in Nat /\ y <= sent[s]
    BY <1>7, <1>9, <2>1, HeldParts
  <2> QED BY <1>2, <1>4, <2>2
<1>11. /\ Rising(queue'[s], sel)
       /\ Queued(s)' = Queued(s) \cup Number(p, sel)
  BY <1>1, <1>2, <1>4, <1>6, <1>7, <1>10, AppendNumbers
<1>12. Queued(s)' = Queued(s) \cup {sent[s] + 1}
  BY <1>4, <1>11 DEF Number
<1>13. /\ Shown(s)' = Shown(s) /\ Waiting(s)' = Waiting(s) /\ Decoded(s)' = Decoded(s)
       /\ Coded(s)' = Coded(s) /\ InHand(s)' = InHand(s) /\ Gone(s)' = Gone(s)
  BY <1>1 DEF Decoded, Shown, Waiting, Coded, InHand, Gone
<1>14. /\ Held(s)'[5] = Held(s)[5] \cup {sent[s] + 1}
       /\ \A j \in Stages : j # 5 => Held(s)'[j] = Held(s)[j]
  BY <1>12, <1>13, HeldParts, HeldPartsNext, StageCases
<1>15. Ordered(Held(s)) /\ Covered(Held(s), Gone(s), sent[s])
  BY <1>5 DEF OrderInv
<1>16. /\ Ordered(Held(s)') /\ Covered(Held(s)', Gone(s), sent[s] + 1)
       /\ \A j \in Stages : \A n \in Held(s)'[j] : n <= sent[s] + 1
  BY <1>2, <1>8, <1>9, <1>14, <1>15, GrownKeeps
<1>17. OrderInv(s)' /\ BoundInv(s)'
  BY <1>1, <1>13, <1>16 DEF OrderInv, BoundInv
<1>18. RisingInv(s)' /\ EpochInv(s)'
  BY <1>1, <1>11 DEF WayInv, RisingInv, EpochInv, sel
<1>19. ~AllTaken(s)
  BY <1>1, <1>2 DEF AllTaken
<1>20. DrainInv(s)'
  BY <1>1, <1>5, <1>19 DEF EndInv, DrainInv, Drained
<1>21. NullInv(s)'
  <2>1. \A i \in 1 .. Len(queue[s]) : queue[s][i].kind # "null"
    BY <1>1, <1>2, <1>5 DEF EndInv, NullInv
  <2>2. /\ Len(queue[s]) \in Nat /\ Len(queue'[s]) = Len(queue[s]) + 1
        /\ \A i \in 1 .. Len(queue[s]) : queue'[s][i] = queue[s][i]
        /\ queue'[s][Len(queue[s]) + 1] = p
    BY <1>1, <1>2, <1>4, AppendOne
  <2>3. \A i \in 1 .. Len(queue'[s]) : i \in 1 .. Len(queue[s]) \/ i = Len(queue[s]) + 1
    BY <2>2
  <2>4. \A i \in 1 .. Len(queue'[s]) : queue'[s][i].kind # "null"
    BY <1>4, <2>1, <2>2, <2>3
  <2> QED BY <2>4 DEF NullInv
<1> QED BY <1>17, <1>18, <1>20, <1>21 DEF WayInv, EndInv

(* A null packet comes after all data. *)
LEMMA PutNullWay ==
    ASSUME IInv, IInv', CheckInv, NEW s \in Streams, WayInv(s), PutNull(s) PROVE WayInv(s)'
<1> DEFINE sel == DataOf(serial[s])
           p   == Packet("null", serial[s], epoch, 0)
<1>1. /\ rpc = "null" /\ queue'[s] = Append(queue[s], p)
      /\ UNCHANGED <<serial, dpc, pkt_serial, finished, pkt, codec, draining, frame, frames,
                     remaining, sent, passed, dropped>>
  BY DEF IInv, TypeOK, PutNull, Put, decVars, history
<1>2. /\ serial[s] \in Nat /\ epoch \in Nat /\ queue[s] \in Seq(Packets)
  BY StreamFacts
<1>3. p \in Packets /\ p.kind = "null" /\ p \notin sel
  BY <1>2 DEF Packet, Packets, DataOf
<1>4. remaining[s] = 0
  BY <1>1 DEF CheckInv
<1>5. EndInv(s) /\ OrderInv(s)
  BY <1>1 DEF WayInv, Flushing
<1>6. Rising(queue[s], sel)
  BY DEF WayInv, RisingInv
<1> HIDE DEF p
<1>7. Queued(s) = Numbers(queue[s], sel) /\ Queued(s)' = Numbers(queue'[s], sel)
  BY <1>1 DEF Queued
<1> HIDE DEF sel
<1>8. /\ Rising(queue'[s], sel)
      /\ Queued(s)' = Queued(s) \cup Number(p, sel)
  BY <1>1, <1>2, <1>3, <1>6, <1>7, AppendNumbers
<1>9. Queued(s)' = Queued(s)
  BY <1>3, <1>8 DEF Number
<1>10. HeldSame(s)
  BY <1>1, <1>9 DEF HeldSame, Decoded, Shown, Waiting, Coded, InHand, Gone
<1>11. OrderInv(s)' /\ (BoundInv(s) => BoundInv(s)')
  BY <1>1, <1>5, <1>10, OrderKept DEF IInv
<1>12. RisingInv(s)' /\ EpochInv(s)'
  BY <1>1, <1>8 DEF WayInv, RisingInv, EpochInv, sel
<1>13. /\ Len(queue[s]) \in Nat /\ Len(queue'[s]) = Len(queue[s]) + 1
       /\ \A i \in 1 .. Len(queue[s]) : queue'[s][i] = queue[s][i]
       /\ queue'[s][Len(queue[s]) + 1] = p
  BY <1>1, <1>2, <1>3, AppendOne
<1>14. \A i \in 1 .. Len(queue'[s]) : i \in 1 .. Len(queue[s]) \/ i = Len(queue[s]) + 1
  BY <1>13
<1>15. NoData(queue[s]) => NoData(queue'[s])
  BY <1>3, <1>13, <1>14 DEF NoData
<1>16. AllTaken(s) => AllTaken(s)'
  BY <1>1, <1>15 DEF AllTaken
<1>17. DrainInv(s)'
  BY <1>1, <1>5, <1>16 DEF EndInv, DrainInv, Drained
<1>18. NullInv(s)'
  <2> SUFFICES ASSUME NEW i \in 1 .. Len(queue'[s]), queue'[s][i].kind = "null",
                      NEW j \in i .. Len(queue'[s])
               PROVE  queue'[s][j].kind # "data"
    BY <1>1, <1>4 DEF NullInv
  <2>1. j \in 1 .. Len(queue'[s])
    BY <1>13
  <2>2. CASE j = Len(queue[s]) + 1
    BY <1>3, <1>13, <2>2
  <2>3. CASE j \in 1 .. Len(queue[s])
    <3>1. i \in 1 .. Len(queue[s]) /\ j \in i .. Len(queue[s])
      BY <1>13, <2>3
    <3>2. queue[s][i].kind = "null" /\ queue'[s][j] = queue[s][j]
      BY <1>13, <2>3, <3>1
    <3> QED BY <1>5, <3>1, <3>2 DEF EndInv, NullInv
  <2> QED BY <1>14, <2>1, <2>2, <2>3
<1> QED BY <1>5, <1>11, <1>12, <1>17, <1>18 DEF WayInv, EndInv

------------------------------------------------------------------------------
(* The other streams, and the other steps of read_thread *)

(* A step of read_thread on one queue leaves the other streams alone. *)
LEMMA OtherQueuesSameWay ==
    ASSUME TypeOK, NowInv, NEW s \in Streams,
           FlushQueue(s) \/ PutFlush(s) \/ ReadPacket(s) \/ PutNull(s),
           NEW t \in Streams, t # s
    PROVE  SameWay(t) /\ SamePhase(t)
<1>1. Same(t)
  BY OtherQueuesSame
<1>2. UNCHANGED <<finished, passed, dropped>>
  BY DEF FlushQueue, PutFlush, ReadPacket, PutNull, decVars, history
<1>3. remaining'[t] = remaining[t] /\ sent'[t] = sent[t]
  BY DEF FlushQueue, PutFlush, ReadPacket, PutNull, TypeOK
<1>4. SamePhase(t)
  <2>1. CASE FlushQueue(s)
    BY <2>1 DEF FlushQueue, SamePhase, Flushing
  <2>2. CASE PutFlush(s)
    BY <2>2 DEF PutFlush, SamePhase, Flushing
  <2>3. CASE ReadPacket(s)
    BY <2>3 DEF ReadPacket, SamePhase, Flushing
  <2>4. CASE PutNull(s)
    BY <2>4 DEF PutNull, SamePhase, Flushing
  <2> QED BY <2>1, <2>2, <2>3, <2>4
<1> QED BY <1>1, <1>2, <1>3, <1>4 DEF SameWay

(* So do, for all streams, the steps in which read_thread only looks. *)
LEMMA QuietSameWay ==
    ASSUME \/ SeekDone \/ NoSeek \/ CheckEnough \/ AllPlayed \/ ReadEof \/ RequestSeek
           \/ \E s \in Streams : CheckFinished(s) \/ CheckRemaining(s),
           NEW t \in Streams
    PROVE  SameWay(t) /\ SamePhase(t)
<1>1. Same(t)
  BY QuietSame
<1>2. UNCHANGED <<finished, passed, dropped, remaining, sent>>
  BY DEF SeekDone, NoSeek, CheckEnough, AllPlayed, ReadEof, RequestSeek, CheckFinished,
         CheckRemaining, decVars, readVars, history
<1>3. \/ rpc' = rpc /\ todo' = todo
      \/ rpc \notin {"flush", "put flush"} /\ rpc' \notin {"flush", "put flush"}
  <2>1. CASE SeekDone \/ NoSeek \/ CheckEnough
    BY <2>1 DEF SeekDone, NoSeek, CheckEnough
  <2>2. CASE AllPlayed \/ ReadEof
    BY <2>2 DEF AllPlayed, ReadEof, AtEof
  <2>3. CASE RequestSeek
    BY <2>3 DEF RequestSeek, readVars
  <2>4. ASSUME NEW s \in Streams, CheckFinished(s) \/ CheckRemaining(s)
        PROVE  rpc \notin {"flush", "put flush"} /\ rpc' \notin {"flush", "put flush"}
    BY <2>4 DEF CheckFinished, CheckRemaining
  <2> QED BY <2>1, <2>2, <2>3, <2>4
<1>4. SamePhase(t)
  BY <1>3 DEF SamePhase, Flushing
<1> QED BY <1>1, <1>2, <1>4 DEF SameWay

(* A seek of the demuxer: nothing of the new epoch is read yet, and the    *)
(* queues are to be flushed.                                               *)
LEMMA SeekFileWay ==
    ASSUME NEW t \in Streams, WayInv(t), SeekFile PROVE WayInv(t)'
<1>1. Same(t) /\ UNCHANGED <<finished, passed, dropped>>
  BY QuietSame DEF SeekFile, decVars
<1>2. CASE rpc' = "flush"
  <2>1. sent'[t] = 0 /\ todo' = Streams
    BY <1>2 DEF SeekFile
  <2>2. Held(t)' = Held(t) /\ Gone(t)' = Gone(t)
    BY <1>1, SameHeld, HeldKept DEF HeldSame
  <2>3. RisingInv(t)' /\ EpochInv(t)'
    BY <1>1 DEF WayInv, RisingInv, EpochInv, Same
  <2>4. OrderInv(t)'
    <3>1. Ordered(Held(t)) /\ Covered(Held(t), Gone(t), sent[t])
      BY DEF WayInv, OrderInv
    <3>2. \A m \in Nat \ {0} : ~(m <= 0)
      OBVIOUS
    <3>3. Covered(Held(t), Gone(t), 0)
      BY <3>1, <3>2 DEF Covered
    <3> QED BY <2>1, <2>2, <3>1, <3>3 DEF OrderInv
  <2>5. Flushing(t)'
    BY <1>2, <2>1 DEF Flushing
  <2> QED BY <2>3, <2>4, <2>5 DEF WayInv
<1>3. CASE rpc' = "seeked"
  <2>1. UNCHANGED <<remaining, sent, todo>> /\ rpc = "top"
    BY <1>3 DEF SeekFile
  <2>2. SameWay(t) /\ SamePhase(t)
    BY <1>1, <1>3, <2>1 DEF SameWay, SamePhase, Flushing
  <2> QED BY <2>2, SameWayKept
<1> QED BY <1>2, <1>3 DEF SeekFile

------------------------------------------------------------------------------
(* What read_thread knows stays true while it looks on. *)

(* A decoder that has finished the serial of its queue does nothing more   *)
(* for it, and queues no frame.                                            *)
LEMMA FinishedStays ==
    ASSUME IInv, NEW s \in Streams, WayInv(s), ~Flushing(s), DecoderStep(s) \/ Consume(s),
           finished[s] = serial[s]
    PROVE  finished'[s] = serial[s] /\ (frames[s] = <<>> => frames'[s] = <<>>)
<1>1. /\ pkt_serial[s] = serial[s] /\ pkt[s].kind \in {"none", "null"}
      /\ codec[s] = <<>> /\ dpc[s] # "push"
  BY DEF WayInv, EndInv, DrainInv, Drained
<1>2. ~(Len(codec[s]) > CodecDelay)
  BY <1>1, StreamFacts, CodecFilled
<1>3. CASE ReceiveFrame(s)
  <2>1. frames' = frames
    BY <1>3 DEF ReceiveFrame
  <2>2. finished' = finished \/ finished' = [finished EXCEPT ![s] = pkt_serial[s]]
    BY <1>3 DEF ReceiveFrame
  <2>3. finished'[s] = finished[s] \/ finished'[s] = pkt_serial[s]
    BY <2>2 DEF IInv, TypeOK
  <2> QED BY <1>1, <2>1, <2>3
<1>4. CASE Consume(s)
  BY <1>4 DEF Consume, decVars
<1>5. CASE FlushCodec(s) \/ PushFrame(s) \/ DropEarly(s)
  BY <1>1, <1>5 DEF FlushCodec, PushFrame, DropEarly
<1>6. CASE CheckSerial(s) \/ GetPacket(s) \/ ComparePacket(s) \/ CompareAgain(s) \/ SendPacket(s)
  <2>1. UNCHANGED <<finished, frames>>
    BY <1>6 DEF CheckSerial, GetPacket, ComparePacket, CompareAgain, SendPacket
  <2> QED BY <2>1
<1> QED BY <1>3, <1>4, <1>5, <1>6 DEF DecoderStep

(* The steps of decoders and consumers undo nothing read_thread has seen. *)
LEMMA DecoderCheck ==
    ASSUME IInv, PlayInv, NEW s \in Streams, DecoderStep(s) \/ Consume(s)
    PROVE  CheckInv'
<1>1. UNCHANGED <<serial, rpc, todo, now, remaining, sent>>
  BY DEF DecoderStep, CheckSerial, ReceiveFrame, DropEarly, PushFrame, GetPacket, ComparePacket,
         CompareAgain, FlushCodec, SendPacket, Consume, readVars
<1>2. ASSUME NEW t \in Streams, rpc \notin {"flush", "put flush"}, finished[t] = serial[t]
      PROVE  finished'[t] = serial[t] /\ (frames[t] = <<>> => frames'[t] = <<>>)
  <2>1. CASE t = s
    BY <1>2, <2>1, FinishedStays DEF PlayInv, Flushing
  <2>2. CASE t # s
    <3>1. SameWay(t)
      BY <2>2, OthersSameWay DEF IInv
    <3> QED BY <1>2, <3>1 DEF SameWay, Same
  <2> QED BY <2>1, <2>2
<1>3. rpc \in {"finished?", "remaining?", "all played"} =>
          \A t \in Streams \ todo : finished'[t] = serial[t] /\ frames'[t] = <<>>
  BY <1>2 DEF PlayInv, CheckInv
<1>4. rpc = "remaining?" => \A t \in now : finished'[t] = serial[t]
  BY <1>2 DEF PlayInv, CheckInv, IInv, TypeOK
<1> QED BY <1>1, <1>3, <1>4 DEF PlayInv, CheckInv

(* A step on one queue *)
LEMMA QueueCheck ==
    ASSUME IInv, CheckInv, NEW s \in Streams,
           FlushQueue(s) \/ PutFlush(s) \/ ReadPacket(s) \/ PutNull(s)
    PROVE  CheckInv'
<1>1. CASE FlushQueue(s)
  BY <1>1 DEF FlushQueue, CheckInv
<1>2. CASE PutFlush(s)
  BY <1>2 DEF PutFlush, CheckInv
<1>3. CASE ReadPacket(s)
  BY <1>3 DEF ReadPacket, CheckInv
<1>4. CASE PutNull(s)
  BY <1>4 DEF PutNull, CheckInv
<1> QED BY <1>1, <1>2, <1>3, <1>4

(* The seek, and the steps that look *)
LEMMA QuietCheck ==
    ASSUME IInv, CheckInv,
           \/ SeekFile \/ SeekDone \/ NoSeek \/ CheckEnough \/ AllPlayed \/ ReadEof \/ RequestSeek
           \/ \E s \in Streams : CheckFinished(s) \/ CheckRemaining(s)
    PROVE  CheckInv'
<1>1. CASE SeekFile
  BY <1>1 DEF SeekFile, CheckInv
<1>2. CASE SeekDone \/ NoSeek
  BY <1>2 DEF SeekDone, NoSeek, CheckInv
<1>3. CASE CheckEnough
  BY <1>3 DEF CheckEnough, CheckInv
<1>4. CASE AllPlayed
  BY <1>4 DEF AllPlayed, CheckInv
<1>5. CASE ReadEof
  BY <1>5 DEF ReadEof, AtEof, CheckInv
<1>6. CASE RequestSeek
  BY <1>6 DEF RequestSeek, decVars, readVars, CheckInv
<1>7. ASSUME NEW s \in Streams, CheckFinished(s) PROVE CheckInv'
  <2>1. /\ rpc = "finished?" /\ UNCHANGED <<serial, finished, frames, todo>>
        /\ \/ rpc' = "remaining?" /\ now' = {s} /\ finished[s] = serial[s]
           \/ rpc' = "read"
    BY <1>7 DEF CheckFinished, decVars
  <2> QED BY <2>1 DEF CheckInv
<1>8. ASSUME NEW s \in Streams, CheckRemaining(s) PROVE CheckInv'
  <2>1. /\ rpc = "remaining?" /\ s \in now /\ UNCHANGED <<serial, finished, frames>>
        /\ todo' = todo \ {s} /\ now' = {}
        /\ \/ rpc' = "read"
           \/ frames[s] = <<>> /\ todo' = {} /\ rpc' = "all played"
           \/ frames[s] = <<>> /\ rpc' = "finished?"
    BY <1>8 DEF CheckRemaining, decVars
  <2>2. finished[s] = serial[s]
    BY <2>1 DEF CheckInv
  <2> QED BY <2>1, <2>2 DEF CheckInv
<1> QED BY <1>1, <1>2, <1>3, <1>4, <1>5, <1>6, <1>7, <1>8

------------------------------------------------------------------------------
(* The invariant *)

(* At first only a flush packet is on its way, and frame 0 stands for the  *)
(* one shown.                                                              *)
LEMMA InitPlayInv == Init => PlayInv
<1> SUFFICES ASSUME Init PROVE PlayInv
  OBVIOUS
<1>1. CheckInv
  BY DEF Init, CheckInv
<1>2. ASSUME NEW s \in Streams PROVE WayInv(s)
  <2> DEFINE fl == Packet("flush", 1, 0, 0)
  <2>1. /\ queue[s] = <<fl>> /\ serial[s] = 1 /\ dpc[s] = "check"
        /\ pkt_serial[s] = -1 /\ finished[s] = 0 /\ pkt[s] = NoPacket
        /\ codec[s] = <<>> /\ draining[s] = FALSE /\ frames[s] = <<>> /\ sent[s] = 0
        /\ passed[s] = NoFrame /\ dropped[s] = {}
    BY DEF Init
  <2>2. fl.kind = "flush" /\ NoPacket.kind = "none"
    BY DEF Packet, NoPacket
  <2>3. NoFrame \in FramesOf(1) /\ NoFrame.n = 0 /\ NoFrame.epoch = 0
    BY DEF NoFrame, Frame, FramesOf, Frames
  <2> HIDE DEF fl
  <2>4. Len(queue[s]) = 1 /\ queue[s][1] = fl
    BY <2>1
  <2>5. \A i \in 1 .. Len(queue[s]) : queue[s][i].kind = "flush"
    BY <2>2, <2>4
  <2>6. /\ \A i \in 1 .. Len(queue[s]) : queue[s][i] \notin DataOf(serial[s])
        /\ pkt[s] \notin DataOf(serial[s])
    BY <2>1, <2>2, <2>5 DEF DataOf
  <2>7. Len(frames[s]) = 0 /\ Len(codec[s]) = 0
    <3>1. Len(<<>>) = 0
      OBVIOUS
    <3> QED BY <2>1, <3>1, Zenon
  <2>8. (\A i \in 1 .. Len(frames[s]) : FALSE) /\ (\A i \in 1 .. Len(codec[s]) : FALSE)
    BY <2>7
  <2>9. /\ Numbers(queue[s], DataOf(serial[s])) = {} /\ Rising(queue[s], DataOf(serial[s]))
        /\ Numbers(frames[s], FramesOf(serial[s])) = {} /\ Rising(frames[s], FramesOf(serial[s]))
        /\ Numbers(codec[s], FramesOf(serial[s])) = {} /\ Rising(codec[s], FramesOf(serial[s]))
    BY <2>6, <2>8, NoNumbers
  <2>10. /\ Shown(s) = {0} /\ Waiting(s) = {} /\ Decoded(s) = {} /\ Coded(s) = {}
         /\ InHand(s) = {} /\ Queued(s) = {}
    BY <2>1, <2>3, <2>6, <2>9
       DEF Shown, Waiting, Decoded, Coded, InHand, Queued, Number
  <2>11. Held(s)[0] = {0} /\ \A j \in Stages : j # 0 => Held(s)[j] = {}
    BY <2>10, HeldParts, StageCases
  <2>12. \A k, l \in Stages : k < l => l # 0
    BY DEF Stages
  <2>13. Ordered(Held(s))
    BY <2>11, <2>12 DEF Ordered
  <2>14. \A j \in Stages : \A n \in Held(s)[j] : n = 0
    BY <2>11
  <2>15. Covered(Held(s), Gone(s), sent[s])
    BY <2>1, <2>14 DEF Covered
  <2>16. BoundInv(s)
    BY <2>1, <2>14 DEF BoundInv
  <2>17. NullInv(s)
    BY <2>5 DEF NullInv
  <2>18. DrainInv(s)
    BY <2>1 DEF DrainInv
  <2>19. EpochInv(s)
    BY <2>1, <2>3, <2>8 DEF EpochInv
  <2> QED BY <2>9, <2>13, <2>15, <2>16, <2>17, <2>18, <2>19
          DEF WayInv, RisingInv, OrderInv, EndInv
<1> QED BY <1>1, <1>2 DEF PlayInv

(* Every step keeps the invariant: one step of the proof per action. *)
LEMMA NextPlayInv == ASSUME IInv, IInv', PlayInv, [Next]_vars PROVE PlayInv'
<1>1. ASSUME NEW s \in Streams, DecoderStep(s) \/ Consume(s) PROVE PlayInv'
  <2>1. WayInv(s)'
    BY <1>1, CheckSerialWay, ReceiveFrameWay, DropEarlyWay, PushFrameWay, GetPacketWay,
       CompareWay, FlushCodecWay, SendPacketWay, ConsumeWay
       DEF PlayInv, DecoderStep
  <2>2. ASSUME NEW t \in Streams, t # s PROVE WayInv(t)'
    BY <1>1, <2>2, OthersSameWay, SameWayKept DEF IInv, PlayInv
  <2> QED BY <1>1, <2>1, <2>2, DecoderCheck DEF PlayInv
<1>2. ASSUME NEW s \in Streams, FlushQueue(s) \/ PutFlush(s) \/ ReadPacket(s) \/ PutNull(s)
      PROVE  PlayInv'
  <2>1. WayInv(s)'
    BY <1>2, FlushQueueWay, PutFlushWay, ReadPacketWay, PutNullWay DEF PlayInv
  <2>2. ASSUME NEW t \in Streams, t # s PROVE WayInv(t)'
    BY <1>2, <2>2, OtherQueuesSameWay, SameWayKept DEF IInv, PlayInv
  <2>3. CheckInv'
    BY <1>2, QueueCheck DEF PlayInv
  <2> QED BY <2>1, <2>2, <2>3 DEF PlayInv
<1>3. CASE SeekFile
  BY <1>3, SeekFileWay, QuietCheck DEF PlayInv
<1>4. CASE \/ SeekDone \/ NoSeek \/ CheckEnough \/ AllPlayed \/ ReadEof \/ RequestSeek
           \/ \E s \in Streams : CheckFinished(s) \/ CheckRemaining(s)
  <2>1. ASSUME NEW t \in Streams PROVE WayInv(t)'
    BY <1>4, QuietSameWay, SameWayKept DEF PlayInv
  <2>2. CheckInv'
    BY <1>4, QuietCheck DEF PlayInv
  <2> QED BY <2>1, <2>2 DEF PlayInv
<1>5. CASE UNCHANGED vars
  <2>1. CheckInv'
    BY <1>5 DEF PlayInv, CheckInv, vars, decVars, readVars
  <2>2. ASSUME NEW t \in Streams PROVE WayInv(t)'
    <3>1. SameWay(t) /\ SamePhase(t)
      BY <1>5 DEF SameWay, Same, SamePhase, Flushing, vars, decVars, readVars, history
    <3> QED BY <3>1, SameWayKept DEF PlayInv
  <2> QED BY <2>1, <2>2 DEF PlayInv
<1> QED BY <1>1, <1>2, <1>3, <1>4, <1>5, Zenon DEF Next, ReadStep

------------------------------------------------------------------------------
(* The numbers of the frames *)

(* The frames and data packets that are anywhere on their way have numbers *)
(* from 1 on, and none is beyond the end of the longest file.              *)
Sized == 1 .. MaxPackets
SizedFrames  == {f \in Frames : f.n \in Sized}
SizedPackets == {p \in Packets : p.kind = "data" => p.n \in Sized}

SizedInv(s) ==
    /\ sent[s] + remaining[s] <= MaxPackets
    /\ queue[s] \in Seq(SizedPackets) /\ pkt[s] \in SizedPackets
    /\ codec[s] \in Seq(SizedFrames) /\ frames[s] \in Seq(SizedFrames)
    /\ dpc[s] = "push" => frame[s] \in SizedFrames

(* A step that leaves a stream alone *)
LEMMA SameSized ==
    ASSUME NEW t \in Streams, SizedInv(t), Same(t), sent'[t] = sent[t], remaining'[t] = remaining[t]
    PROVE  SizedInv(t)'
BY DEF SizedInv, Same

(* The steps of a decoder pass on what they find. *)
LEMMA DecoderSized ==
    ASSUME IInv, NEW s \in Streams, SizedInv(s), DecoderStep(s) \/ Consume(s)
    PROVE  SizedInv(s)'
<1>0. NoPacket \in SizedPackets
  BY NoPacketType DEF SizedPackets, NoPacket, Packet
<1>1. /\ queue[s] \in Seq(SizedPackets) /\ pkt[s] \in SizedPackets
      /\ codec[s] \in Seq(SizedFrames) /\ frames[s] \in Seq(SizedFrames)
      /\ dpc[s] = "push" => frame[s] \in SizedFrames
  BY DEF SizedInv
<1>2. UNCHANGED <<remaining, sent>>
  BY DEF DecoderStep, CheckSerial, ReceiveFrame, DropEarly, PushFrame, GetPacket, ComparePacket,
         CompareAgain, FlushCodec, SendPacket, Consume, readVars
<1>3. CASE CheckSerial(s)
  <2>1. dpc'[s] # "push" /\ UNCHANGED <<queue, pkt, codec, frame, frames>>
    BY <1>3 DEF CheckSerial, IInv, TypeOK
  <2> QED BY <1>1, <1>2, <2>1 DEF SizedInv
<1>4. CASE ReceiveFrame(s)
  <2>1. /\ UNCHANGED <<queue, pkt, frames>>
        /\ \/ /\ codec[s] # <<>> \/ Len(codec[s]) > CodecDelay
              /\ frame'[s] = Head(codec[s]) /\ codec'[s] = Tail(codec[s])
           \/ dpc'[s] # "push" /\ codec' = codec
    BY <1>4 DEF ReceiveFrame, IInv, TypeOK
  <2>2. Len(codec[s]) > CodecDelay => codec[s] # <<>>
    BY StreamFacts, CodecFilled
  <2>3. codec[s] # <<>> => Head(codec[s]) \in SizedFrames /\ Tail(codec[s]) \in Seq(SizedFrames)
    BY <1>1, TakeHead
  <2> QED BY <1>1, <1>2, <2>1, <2>2, <2>3 DEF SizedInv
<1>5. CASE DropEarly(s)
  <2>1. dpc'[s] # "push" /\ UNCHANGED <<queue, pkt, codec, frames>>
    BY <1>5 DEF DropEarly, IInv, TypeOK
  <2> QED BY <1>1, <1>2, <2>1 DEF SizedInv
<1>6. CASE PushFrame(s)
  <2> DEFINE f == Frame(pkt_serial[s], frame[s].epoch, frame[s].n)
  <2>1. /\ dpc[s] = "push" /\ dpc'[s] # "push" /\ UNCHANGED <<queue, pkt, codec>>
        /\ frames'[s] = Append(frames[s], f)
    BY <1>6 DEF PushFrame, IInv, TypeOK
  <2>2. frame[s].n \in Sized /\ frame[s] \in Frames
    BY <1>1, <2>1 DEF SizedFrames
  <2>3. pkt_serial[s] \in Nat
    <3>1. frame[s].epoch + 1 = pkt_serial[s]
      BY <2>1, StreamFacts DEF StreamInv, FrameInv
    <3>2. frame[s].epoch \in Nat
      BY <2>2 DEF Frames
    <3> QED BY <3>1, <3>2
  <2>4. f \in SizedFrames
    BY <2>2, <2>3 DEF Frame, Frames, SizedFrames
  <2> HIDE DEF f
  <2>5. frames'[s] \in Seq(SizedFrames)
    BY <1>1, <2>1, <2>4, AppendOne
  <2> QED BY <1>1, <1>2, <2>1, <2>5 DEF SizedInv
<1>7. CASE GetPacket(s)
  <2>1. /\ dpc'[s] # "push" /\ UNCHANGED <<codec, frames>>
        /\ \/ queue' = queue /\ pkt' = pkt
           \/ queue[s] # <<>> /\ queue'[s] = Tail(queue[s]) /\ pkt'[s] = Head(queue[s])
    BY <1>7 DEF GetPacket, IInv, TypeOK
  <2>2. queue[s] # <<>> => Head(queue[s]) \in SizedPackets /\ Tail(queue[s]) \in Seq(SizedPackets)
    BY <1>1, TakeHead
  <2> QED BY <1>1, <1>2, <2>1, <2>2 DEF SizedInv
<1>8. CASE ComparePacket(s) \/ CompareAgain(s)
  <2>1. /\ dpc'[s] # "push" /\ UNCHANGED <<queue, codec, frames>>
        /\ pkt'[s] = pkt[s] \/ pkt'[s] = NoPacket
    BY <1>8 DEF ComparePacket, CompareAgain, IInv, TypeOK
  <2> QED BY <1>0, <1>1, <1>2, <2>1 DEF SizedInv
<1>9. CASE FlushCodec(s)
  <2>1. /\ dpc'[s] # "push" /\ UNCHANGED <<queue, frames>>
        /\ codec'[s] = <<>> /\ pkt'[s] = NoPacket
    BY <1>9 DEF FlushCodec, IInv, TypeOK
  <2>2. <<>> \in Seq(SizedFrames)
    OBVIOUS
  <2> QED BY <1>0, <1>1, <1>2, <2>1, <2>2 DEF SizedInv
<1>10. CASE SendPacket(s)
  <2> DEFINE f == Frame(0, pkt[s].epoch, pkt[s].n)
  <2>1. /\ dpc'[s] # "push" /\ UNCHANGED <<queue, frames>>
        /\ pkt'[s] = pkt[s] \/ pkt'[s] = NoPacket
        /\ codec'[s] = codec[s] \/ (pkt[s].kind = "data" /\ codec'[s] = Append(codec[s], f))
    <3>1. /\ codec \in [Streams -> Seq(Frames)] /\ pkt \in [Streams -> Packets]
          /\ dpc' = [dpc EXCEPT ![s] = "check"] /\ dpc \in [Streams -> Places]
      BY <1>10, Zenon DEF SendPacket, IInv, TypeOK, Places
    <3>2. /\ codec' = codec \/ (pkt[s].kind = "data" /\ codec' = [codec EXCEPT ![s] = Append(@, f)])
          /\ pkt' = pkt \/ pkt' = [pkt EXCEPT ![s] = NoPacket]
          /\ UNCHANGED <<queue, frames>>
      <4> HIDE DEF f
      <4> QED BY <1>10 DEF SendPacket, f
    <3> HIDE DEF f
    <3> QED BY <3>1, <3>2
  <2>2. pkt[s].kind = "data" => f \in SizedFrames
    BY <1>1 DEF SizedPackets, SizedFrames, Packets, Frames, Frame
  <2> HIDE DEF f
  <2>3. codec'[s] \in Seq(SizedFrames)
    BY <1>1, <2>1, <2>2, AppendOne
  <2> QED BY <1>0, <1>1, <1>2, <2>1, <2>3 DEF SizedInv
<1>11. CASE Consume(s)
  <2>1. /\ UNCHANGED <<queue, dpc, pkt, codec, frame>>
        /\ frames[s] # <<>> /\ frames'[s] = Tail(frames[s])
    BY <1>11 DEF Consume, IInv, TypeOK, decVars
  <2>2. Tail(frames[s]) \in Seq(SizedFrames)
    BY <1>1, <2>1, TakeHead
  <2> QED BY <1>1, <1>2, <2>1, <2>2 DEF SizedInv
<1> QED BY <1>3, <1>4, <1>5, <1>6, <1>7, <1>8, <1>9, <1>10, <1>11 DEF DecoderStep

(* read_thread reads no more than there is. *)
LEMMA QueueSized ==
    ASSUME IInv, NEW s \in Streams, SizedInv(s),
           FlushQueue(s) \/ PutFlush(s) \/ ReadPacket(s) \/ PutNull(s)
    PROVE  SizedInv(s)'
<1>1. UNCHANGED <<dpc, pkt, codec, frame, frames>>
  BY DEF FlushQueue, PutFlush, ReadPacket, PutNull, decVars
<1>2. /\ serial[s] \in Nat /\ epoch \in Nat /\ sent[s] \in Nat /\ remaining[s] \in Nat
  BY StreamFacts
<1>3. queue[s] \in Seq(SizedPackets) /\ sent[s] + remaining[s] <= MaxPackets
  BY DEF SizedInv
<1>4. CASE FlushQueue(s)
  <2>1. queue'[s] = <<>> /\ UNCHANGED <<sent, remaining>>
    BY <1>4 DEF FlushQueue, IInv, TypeOK
  <2>2. <<>> \in Seq(SizedPackets)
    OBVIOUS
  <2> QED BY <1>1, <2>1, <2>2 DEF SizedInv
<1>5. CASE PutFlush(s)
  <2> DEFINE p == Packet("flush", serial[s] + 1, 0, 0)
  <2>1. queue'[s] = Append(queue[s], p) /\ UNCHANGED <<sent, remaining>>
    BY <1>5 DEF PutFlush, IInv, TypeOK
  <2>2. p \in SizedPackets
    BY <1>2 DEF Packet, Packets, SizedPackets
  <2> HIDE DEF p
  <2>3. queue'[s] \in Seq(SizedPackets)
    BY <1>3, <2>1, <2>2, AppendOne
  <2> QED BY <1>1, <2>1, <2>3 DEF SizedInv
<1>6. CASE ReadPacket(s)
  <2> DEFINE p == Packet("data", serial[s], epoch, sent[s] + 1)
  <2>1. /\ queue'[s] = Append(queue[s], p) /\ remaining[s] > 0
        /\ sent'[s] = sent[s] + 1 /\ remaining'[s] = remaining[s] - 1
    BY <1>6 DEF ReadPacket, Put, IInv, TypeOK
  <2>2. sent[s] + 1 \in Sized /\ sent'[s] + remaining'[s] <= MaxPackets
    <3>1. \A a, b \in Nat : b > 0 /\ a + b <= MaxPackets =>
             a + 1 \in Sized /\ (a + 1) + (b - 1) <= MaxPackets
      BY SizesAssumption DEF Sized
    <3> QED BY <1>2, <1>3, <2>1, <3>1, Zenon
  <2>3. p \in SizedPackets
    BY <1>2, <2>2 DEF Packet, Packets, SizedPackets
  <2> HIDE DEF p
  <2>4. queue'[s] \in Seq(SizedPackets)
    BY <1>3, <2>1, <2>3, AppendOne
  <2> QED BY <1>1, <2>2, <2>4 DEF SizedInv
<1>7. CASE PutNull(s)
  <2> DEFINE p == Packet("null", serial[s], epoch, 0)
  <2>1. queue'[s] = Append(queue[s], p) /\ UNCHANGED <<sent, remaining>>
    BY <1>7 DEF PutNull, Put, IInv, TypeOK
  <2>2. p \in SizedPackets
    BY <1>2 DEF Packet, Packets, SizedPackets
  <2> HIDE DEF p
  <2>3. queue'[s] \in Seq(SizedPackets)
    BY <1>3, <2>1, <2>2, AppendOne
  <2> QED BY <1>1, <2>1, <2>3 DEF SizedInv
<1> QED BY <1>4, <1>5, <1>6, <1>7

(* A seek of the demuxer finds a position in a file of that length. *)
LEMMA SeekFileSized ==
    ASSUME NEW t \in Streams, SizedInv(t), SeekFile PROVE SizedInv(t)'
<1>1. Same(t)
  BY QuietSame
<1>2. \/ sent'[t] = 0 /\ remaining'[t] \in 0 .. MaxPackets
      \/ UNCHANGED <<sent, remaining>>
  BY DEF SeekFile
<1>3. sent'[t] + remaining'[t] <= MaxPackets
  BY <1>2, SizesAssumption DEF SizedInv
<1> QED BY <1>1, <1>3 DEF SizedInv, Same

(* At first only a flush packet is on its way. *)
LEMMA InitSized == ASSUME Init, NEW s \in Streams PROVE SizedInv(s)
<1> DEFINE p == Packet("flush", 1, 0, 0)
<1>1. /\ queue[s] = <<p>> /\ pkt[s] = NoPacket /\ codec[s] = <<>> /\ frames[s] = <<>>
      /\ dpc[s] = "check" /\ sent[s] = 0 /\ remaining[s] \in 0 .. MaxPackets
  BY DEF Init
<1>2. p \in SizedPackets /\ NoPacket \in SizedPackets
  BY NoPacketType DEF SizedPackets, Packets, NoPacket, Packet
<1> HIDE DEF p
<1>3. <<p>> \in Seq(SizedPackets) /\ <<>> \in Seq(SizedFrames)
  BY <1>2
<1>4. sent[s] + remaining[s] <= MaxPackets
  BY <1>1, SizesAssumption
<1> QED BY <1>1, <1>2, <1>3, <1>4 DEF SizedInv

(* Every step keeps the numbers so. *)
LEMMA NextSized ==
    ASSUME IInv, \A s \in Streams : SizedInv(s), [Next]_vars
    PROVE  \A s \in Streams : SizedInv(s)'
<1>1. ASSUME NEW s \in Streams, DecoderStep(s) \/ Consume(s), NEW t \in Streams PROVE SizedInv(t)'
  <2>1. CASE t = s
    BY <1>1, <2>1, DecoderSized
  <2>2. CASE t # s
    BY <1>1, <2>2, OthersSameWay, SameSized DEF SameWay, IInv
  <2> QED BY <2>1, <2>2
<1>2. ASSUME NEW s \in Streams, FlushQueue(s) \/ PutFlush(s) \/ ReadPacket(s) \/ PutNull(s),
             NEW t \in Streams
      PROVE  SizedInv(t)'
  <2>1. CASE t = s
    BY <1>2, <2>1, QueueSized
  <2>2. CASE t # s
    BY <1>2, <2>2, OtherQueuesSameWay, SameSized DEF SameWay, IInv
  <2> QED BY <2>1, <2>2
<1>3. CASE SeekFile
  BY <1>3, SeekFileSized
<1>4. CASE \/ SeekDone \/ NoSeek \/ CheckEnough \/ AllPlayed \/ ReadEof \/ RequestSeek
           \/ \E s \in Streams : CheckFinished(s) \/ CheckRemaining(s)
  BY <1>4, QuietSameWay, SameSized DEF SameWay
<1>5. CASE UNCHANGED vars
  <2> SUFFICES ASSUME NEW t \in Streams PROVE SizedInv(t)'
    OBVIOUS
  <2>1. Same(t) /\ sent' = sent /\ remaining' = remaining
    BY <1>5 DEF Same, vars, decVars, readVars
  <2> QED BY <2>1, SameSized
<1> QED BY <1>1, <1>2, <1>3, <1>4, <1>5, Zenon DEF Next, ReadStep

(* The invariants hold of every reachable state. *)
AllInv == IInv /\ PlayInv /\ \A s \in Streams : SizedInv(s)

(* They hold at first, and every step keeps them. *)
LEMMA SpecAllInv == Spec => []AllInv
<1>1. Init => AllInv
  BY InitIInv, InitPlayInv, InitSized DEF AllInv
<1>2. AllInv /\ [Next]_vars => AllInv'
  <2> SUFFICES ASSUME AllInv, [Next]_vars PROVE AllInv'
    OBVIOUS
  <2>1. IInv'
    BY NextIInv DEF AllInv
  <2>2. PlayInv'
    BY <2>1, NextPlayInv DEF AllInv
  <2>3. \A s \in Streams : SizedInv(s)'
    BY NextSized DEF AllInv
  <2> QED BY <2>1, <2>2, <2>3 DEF AllInv
<1> QED BY <1>1, <1>2, PTL DEF Spec

------------------------------------------------------------------------------
(* The end of playback *)

(* At the end the last frame of a stream has nowhere to be but shown or    *)
(* dropped.                                                                *)
LEMMA LastIsShown ==
    IInv /\ PlayInv => \A s \in Streams : rpc = "all played" =>
        /\ remaining[s] = 0 /\ serial[s] = epoch + 1 /\ sent[s] \in Nat /\ epoch \in Nat
        /\ sent[s] > 0 => \E f \in dropped[s] \cup {passed[s]} : f.epoch = epoch /\ f.n = sent[s]
<1>1. ASSUME IInv, PlayInv, NEW s \in Streams, rpc = "all played"
      PROVE  /\ remaining[s] = 0 /\ serial[s] = epoch + 1 /\ sent[s] \in Nat /\ epoch \in Nat
             /\ sent[s] > 0 => \E f \in dropped[s] \cup {passed[s]} :
                                  f.epoch = epoch /\ f.n = sent[s]
  <2>1. finished[s] = serial[s] /\ frames[s] = <<>>
    BY <1>1 DEF PlayInv, CheckInv
  <2>2. ~Flushing(s)
    BY <1>1 DEF Flushing
  <2>3. OrderInv(s) /\ Drained(s) /\ BoundInv(s)
    BY <1>1, <2>1, <2>2 DEF PlayInv, WayInv, EndInv, DrainInv
  <2>4. /\ pkt[s].kind \in {"none", "null"} /\ codec[s] = <<>> /\ dpc[s] # "push"
        /\ remaining[s] = 0 /\ NoData(queue[s])
    BY <2>3 DEF Drained, AllTaken
  <2>5. serial[s] = epoch + 1 /\ sent[s] \in Nat /\ epoch \in Nat
    BY <1>1, StreamFacts DEF IInv, PhaseInv
  <2>6. /\ \A i \in 1 .. Len(queue[s]) : queue[s][i] \notin DataOf(serial[s])
        /\ pkt[s] \notin DataOf(serial[s])
    BY <2>4 DEF DataOf, NoData
  <2>7. Len(frames[s]) = 0 /\ Len(codec[s]) = 0
    <3>1. Len(<<>>) = 0
      OBVIOUS
    <3> QED BY <2>1, <2>4, <3>1, Zenon
  <2>8. (\A i \in 1 .. Len(frames[s]) : FALSE) /\ (\A i \in 1 .. Len(codec[s]) : FALSE)
    BY <2>7
  <2>9. /\ Numbers(queue[s], DataOf(serial[s])) = {}
        /\ Numbers(frames[s], FramesOf(serial[s])) = {}
        /\ Numbers(codec[s], FramesOf(serial[s])) = {}
    BY <2>6, <2>8, NoNumbers
  <2>10. /\ Waiting(s) = {} /\ Decoded(s) = {} /\ Coded(s) = {} /\ InHand(s) = {} /\ Queued(s) = {}
    BY <2>4, <2>6, <2>9 DEF Waiting, Decoded, Coded, InHand, Queued, Number
  <2>11. \A j \in Stages \ {0} : Held(s)[j] = {}
    BY <2>10, HeldParts, StageCases
  <2>12. ASSUME sent[s] > 0
         PROVE  \E f \in dropped[s] \cup {passed[s]} : f.epoch = epoch /\ f.n = sent[s]
    <3>1. sent[s] \in Nat \ {0} /\ sent[s] <= sent[s]
      BY <2>5, <2>12
    <3>2. (\E n \in Held(s)[0] : sent[s] <= n) \/ sent[s] \in Gone(s)
      BY <2>3, <2>11, <3>1 DEF OrderInv, Covered
    <3>3. CASE sent[s] \in Gone(s)
      <4>1. PICK f \in dropped[s] \cap FramesOf(serial[s]) : f.n = sent[s]
        BY <3>3 DEF Gone
      <4>2. f.epoch = epoch
        BY <2>5, <4>1 DEF FramesOf, Frames
      <4> QED BY <4>1, <4>2
    <3>4. CASE \E n \in Held(s)[0] : sent[s] <= n
      <4>1. PICK n \in Held(s)[0] : sent[s] <= n
        BY <3>4
      <4>2. passed[s] \in FramesOf(serial[s]) /\ n = passed[s].n
        BY <4>1, HeldParts DEF Shown, Number
      <4>3. 0 \in Stages
        BY DEF Stages
      <4>4. n <= sent[s]
        BY <2>3, <4>3 DEF BoundInv
      <4>5. passed[s].epoch = epoch /\ passed[s].n \in Nat
        BY <2>5, <4>2 DEF FramesOf, Frames
      <4>6. passed[s].n = sent[s]
        BY <2>5, <4>1, <4>2, <4>4, <4>5
      <4> QED BY <4>5, <4>6
    <3> QED BY <3>2, <3>3, <3>4
  <2> QED BY <2>4, <2>5, <2>12
<1> QED BY <1>1

------------------------------------------------------------------------------
(* The frame taken for show *)

(* The number of the last frame shown of the epoch that the serial names *)
Before(s) == IF passed[s].epoch + 1 = serial[s] THEN passed[s].n ELSE 0

(* The head of the frame queue, if it is of the serial of the packet       *)
(* queue, is the frame after the last one shown, but for those dropped.    *)
LEMMA ConsumeNext ==
    ASSUME IInv, NEW s \in Streams, WayInv(s), SizedInv(s), Consume(s), passed'[s] # passed[s]
    PROVE  /\ passed'[s] \in SizedFrames /\ passed'[s].epoch + 1 = serial[s]
           /\ passed'[s].n > Before(s) /\ Before(s) \in Nat
           /\ \A m \in Before(s) + 1 .. passed'[s].n - 1 :
                 \E g \in dropped[s] : g \in Frames /\ g.epoch + 1 = serial[s] /\ g.n = m
           /\ ~Flushing(s) => passed'[s].n <= sent[s]
<1> DEFINE f   == frames[s][1]
           sel == FramesOf(serial[s])
<1>1. frames[s] # <<>> /\ passed'[s] = Head(frames[s]) /\ Head(frames[s]).serial = serial[s]
  BY DEF Consume, IInv, TypeOK
<1>2. /\ serial[s] \in Nat /\ frames[s] \in Seq(Frames) /\ passed[s] \in Frames
      /\ StreamInv(s)
  BY StreamFacts
<1>3. f \in Frames /\ Head(frames[s]) = f /\ Len(frames[s]) \in Nat /\ Len(frames[s]) > 0
  BY <1>1, <1>2, TakeHead
<1>4. f.serial = f.epoch + 1
  BY <1>2, <1>3 DEF StreamInv, FrameInv
<1>5. passed'[s] = f /\ f.epoch + 1 = serial[s] /\ f \in sel
  BY <1>1, <1>3, <1>4 DEF FramesOf
<1>6. f \in SizedFrames
  BY <1>1, <1>3, TakeHead DEF SizedInv
<1>7. /\ f.epoch \in Nat /\ f.n \in Nat /\ f.n > 0 /\ passed[s].epoch \in Nat /\ passed[s].n \in Nat
  <2>1. f \in Frames /\ f.n \in 1 .. MaxPackets
    BY <1>6 DEF SizedFrames, Sized
  <2>2. f.epoch \in Nat /\ passed[s].epoch \in Nat /\ passed[s].n \in Nat
    BY <1>2, <2>1 DEF Frames
  <2>3. \A n \in 1 .. MaxPackets : n \in Nat /\ n > 0
    BY SizesAssumption
  <2> QED BY <2>1, <2>2, <2>3, Zenon
<1>8. 1 \in 1 .. Len(frames[s])
  BY <1>3
<1>9. f.n \in Waiting(s)
  BY <1>5, <1>8 DEF Waiting, Numbers
<1>10. 0 \in Stages /\ 1 \in Stages
  BY DEF Stages
<1>11. Ordered(Held(s)) /\ Covered(Held(s), Gone(s), sent[s]) /\ Held(s) \in Holdings
  BY HeldType DEF WayInv, OrderInv, IInv
<1>12. f.n \in Held(s)[1]
  BY <1>9, HeldParts
<1>13. Rising(frames[s], sel)
  BY DEF WayInv, RisingInv
<1> HIDE DEF f
<1>14. Before(s) \in Nat /\ Before(s) < f.n /\ \A n \in Held(s)[0] : n <= Before(s)
  <2>1. CASE passed[s].epoch + 1 = serial[s]
    <3>1. passed[s] \in sel
      BY <1>2, <2>1 DEF FramesOf
    <3>2. Held(s)[0] = {passed[s].n} /\ Before(s) = passed[s].n
      BY <2>1, <3>1, HeldParts DEF Shown, Number, Before
    <3>3. passed[s].n < f.n
      BY <1>10, <1>11, <1>12, <3>2 DEF Ordered
    <3> QED BY <1>7, <3>2, <3>3
  <2>2. CASE passed[s].epoch + 1 # serial[s]
    <3>1. passed[s] \notin sel
      BY <2>2 DEF FramesOf
    <3>2. Held(s)[0] = {} /\ Before(s) = 0
      BY <2>2, <3>1, HeldParts DEF Shown, Number, Before
    <3> QED BY <1>7, <3>2
  <2> QED BY <2>1, <2>2
<1>15. ASSUME NEW m \in Before(s) + 1 .. f.n - 1
       PROVE  \E g \in dropped[s] : g \in Frames /\ g.epoch + 1 = serial[s] /\ g.n = m
  <2>1. m \in Nat \ {0} /\ m <= f.n /\ ~(m <= Before(s)) /\ m < f.n
    BY <1>7, <1>14
  <2>2. \/ \E n \in Held(s)[0] : m <= n
        \/ m \in Gone(s)
        \/ \E k \in Stages \ {0} : m \in Held(s)[k]
    BY <1>10, <1>11, <1>12, <2>1 DEF Covered
  <2>3. ~(\E n \in Held(s)[0] : m <= n)
    <3> SUFFICES ASSUME NEW n \in Held(s)[0], m <= n PROVE FALSE
      OBVIOUS
    <3>1. n \in Nat /\ n <= Before(s)
      BY <1>10, <1>11, <1>14 DEF Holdings
    <3> QED BY <1>14, <2>1, <3>1
  <2>4. ASSUME NEW k \in Stages \ {0}, m \in Held(s)[k] PROVE FALSE
    <3>1. CASE k = 1
      <4>1. m \in Numbers(frames[s], sel)
        BY <2>4, <3>1, HeldParts DEF Waiting
      <4>2. PICK i \in 1 .. Len(frames[s]) : frames[s][i] \in sel /\ frames[s][i].n = m
        BY <4>1 DEF Numbers
      <4>3. CASE i = 1
        BY <2>1, <4>2, <4>3 DEF f
      <4>4. CASE i # 1
        <5>1. 1 < i
          BY <1>3, <4>4
        <5>2. f.n < frames[s][i].n
          BY <1>5, <1>8, <1>13, <4>2, <5>1 DEF Rising, f
        <5> QED BY <1>7, <2>1, <4>2, <5>2
      <4> QED BY <4>3, <4>4
    <3>2. CASE k # 1
      <4>1. 1 < k
        BY <3>2, StageCases
      <4>2. f.n < m
        BY <1>10, <1>11, <1>12, <2>4, <4>1 DEF Ordered
      <4> QED BY <1>7, <2>1, <4>2
    <3> QED BY <3>1, <3>2
  <2>5. m \in Gone(s)
    BY <2>2, <2>3, <2>4
  <2> QED BY <2>5 DEF Gone, FramesOf
<1>16. ~Flushing(s) => f.n <= sent[s]
  BY <1>10, <1>12 DEF WayInv, EndInv, BoundInv
<1> QED BY <1>5, <1>6, <1>14, <1>15, <1>16

------------------------------------------------------------------------------
(* What follows for the code *)

(* read_thread plays again, or exits, only when it has read the file to    *)
(* its end and the frame of the last packet of each stream was taken for   *)
(* show, or dropped as late: although it compares finished with the serial *)
(* and asks for the remaining frames of one stream after the other, with   *)
(* no lock and with all the other threads running.                         *)
THEOREM EndsPlayed == Spec => []NoPrematureEnd
<1>1. AllInv => NoPrematureEnd
  BY LastIsShown DEF NoPrematureEnd, AllInv
<1> QED BY <1>1, SpecAllInv, PTL

(* Whatever seeks, decoders and read_thread do, the consumer (refresh loop *)
(* or audio callback) takes the frames of a stream for show one after the  *)
(* other as they were read, skipping only those dropped as late, and after *)
(* a seek none of before it: the comparison of Frame.serial with the       *)
(* serial of the packet queue is enough.                                   *)
THEOREM PlaysForward == Spec => Forward
<1> DEFINE Going(s) ==
       /\ \/ passed'[s].epoch > passed[s].epoch
          \/ /\ passed'[s].epoch = passed[s].epoch /\ passed'[s].n > passed[s].n
             /\ \A n \in passed[s].n + 1 .. passed'[s].n - 1 :
                   \E f \in dropped[s] : f.epoch = passed[s].epoch /\ f.n = n
       /\ passed'[s].epoch + 1 = serial[s]
<1>1. ASSUME AllInv, [Next]_vars
      PROVE  [\A s \in Streams : passed'[s] # passed[s] => Going(s)]_vars
  <2> SUFFICES ASSUME Next, NEW s \in Streams, passed'[s] # passed[s] PROVE Going(s)
    BY <1>1
  <2>1. ASSUME NEW t \in Streams, DecoderStep(t) PROVE Going(s)
    <3>1. passed' = passed
      BY <2>1 DEF DecoderStep, CheckSerial, ReceiveFrame, DropEarly, PushFrame, GetPacket,
                  ComparePacket, CompareAgain, FlushCodec, SendPacket, history
    <3> QED BY <3>1
  <2>2. ASSUME NEW t \in Streams, Consume(t) PROVE Going(s)
    <3>1. CASE t = s
      <4>1. /\ passed'[s] \in SizedFrames /\ passed'[s].epoch + 1 = serial[s]
            /\ passed'[s].n > Before(s)
            /\ \A m \in Before(s) + 1 .. passed'[s].n - 1 :
                  \E g \in dropped[s] : g \in Frames /\ g.epoch + 1 = serial[s] /\ g.n = m
        BY <1>1, <2>2, <3>1, ConsumeNext DEF PlayInv, AllInv
      <4>2. /\ serial[s] \in Nat /\ passed[s].epoch \in Nat /\ passed'[s].epoch \in Nat
            /\ passed[s].epoch + 1 <= serial[s]
        BY <1>1, <4>1, StreamFacts DEF SizedFrames, Frames, AllInv, PlayInv, WayInv, EpochInv
      <4>3. CASE passed[s].epoch = passed'[s].epoch
        <5>1. Before(s) = passed[s].n
          BY <4>1, <4>3 DEF Before
        <5>2. \A g \in Frames : g.epoch + 1 = serial[s] => g.epoch = passed[s].epoch
          BY <4>1, <4>2, <4>3 DEF Frames
        <5> QED BY <4>1, <4>3, <5>1, <5>2
      <4>4. CASE passed[s].epoch # passed'[s].epoch
        BY <4>1, <4>2, <4>4
      <4> QED BY <4>3, <4>4
    <3>2. CASE t # s
      BY <1>1, <2>2, <3>2, OthersSameWay DEF SameWay, IInv, AllInv
    <3> QED BY <3>1, <3>2
  <2>3. CASE ReadStep \/ RequestSeek
    <3>1. passed' = passed
      BY <2>3 DEF ReadStep, SeekFile, SeekDone, NoSeek, CheckEnough, AllPlayed, ReadEof, FlushQueue,
                  PutFlush, CheckFinished, CheckRemaining, ReadPacket, PutNull, RequestSeek, history
    <3> QED BY <3>1
  <2> QED BY <2>1, <2>2, <2>3 DEF Next
<1>2. [][\A s \in Streams : passed'[s] # passed[s] => Going(s)]_vars => Forward
  BY PTL DEF Forward
<1> QED BY <1>1, <1>2, SpecAllInv, PTL DEF Spec

------------------------------------------------------------------------------
(* The player *)

(* What the player sees stays as it is. *)
Unseen == /\ UNCHANGED <<seek_req, epoch, serial, passed, dropped, loops, ended>>
          /\ \A t \in Streams : sent'[t] + remaining'[t] = sent[t] + remaining[t]

(* A step that the player does not see is a stutter of its. *)
LEMMA UnseenStutters == Unseen => UNCHANGED Viewed!playerVars
<1> SUFFICES ASSUME Unseen PROVE UNCHANGED Viewed!playerVars
  OBVIOUS
<1>1. UNCHANGED <<seek_req, epoch, serial, passed, dropped, loops, ended>>
  BY DEF Unseen
<1>2. [s \in Streams |-> sent[s] + remaining[s]]' = [s \in Streams |-> sent[s] + remaining[s]]
  BY DEF Unseen
<1> QED BY <1>1, <1>2 DEF Viewed!playerVars

(* At first nothing is shown and the whole file is to come. *)
LEMMA ViewedInit == Init => Viewed!Init
<1> SUFFICES ASSUME Init PROVE Viewed!Init
  OBVIOUS
<1>1. /\ seek_req = FALSE /\ epoch = 0 /\ loops = Loop /\ ended = FALSE
  BY DEF Init
<1>2. [s \in Streams |-> sent[s] + remaining[s]] \in Viewed!Lengths
  <2>1. \A s \in Streams : sent[s] = 0 /\ remaining[s] \in 0 .. MaxPackets
    BY DEF Init
  <2>2. \A s \in Streams : sent[s] + remaining[s] \in 0 .. MaxPackets
    BY <2>1, SizesAssumption
  <2> QED BY <2>2 DEF Viewed!Lengths
<1>3. [s \in Streams |-> serial[s] - 1] = [s \in Streams |-> 0]
  BY DEF Init
<1>4. [s \in Streams |-> Mark(passed[s])] = [s \in Streams |-> Viewed!At(0, 0)]
  BY DEF Init, Mark, NoFrame, Frame, Viewed!At
<1>5. [s \in Streams |-> {Mark(f) : f \in dropped[s]}] = [s \in Streams |-> {}]
  BY DEF Init
<1> QED BY <1>1, <1>2, <1>3, <1>4, <1>5 DEF Viewed!Init

(* What the decoders do but to drop a frame, what read_thread does between *)
(* two seeks, and a seek that fails are not seen.                          *)
LEMMA QuietUnseen ==
    ASSUME IInv,
           \/ NoSeek \/ CheckEnough \/ ReadEof \/ UNCHANGED vars
           \/ \E s \in Streams :
                 \/ DecoderStep(s) /\ dropped' = dropped
                 \/ Consume(s) /\ passed' = passed
                 \/ FlushQueue(s) \/ CheckFinished(s) \/ CheckRemaining(s) \/ PutNull(s)
                 \/ ReadPacket(s)
    PROVE  Unseen
<1>1. ASSUME NEW s \in Streams, ReadPacket(s) PROVE Unseen
  <2>1. \A t \in Streams : sent[t] \in Nat /\ remaining[t] \in Nat
    BY StreamFacts
  <2>2. /\ sent \in [Streams -> Nat] /\ remaining \in [Streams -> Nat]
        /\ sent' = [sent EXCEPT ![s] = @ + 1] /\ remaining' = [remaining EXCEPT ![s] = @ - 1]
    BY <1>1 DEF ReadPacket, IInv, TypeOK
  <2>3. ASSUME NEW t \in Streams PROVE sent'[t] + remaining'[t] = sent[t] + remaining[t]
    BY <2>1, <2>2
  <2> QED BY <1>1, <2>3 DEF Unseen, ReadPacket, userVars, history
<1>2. ASSUME NEW s \in Streams, DecoderStep(s), dropped' = dropped PROVE Unseen
  BY <1>2 DEF Unseen, DecoderStep, CheckSerial, ReceiveFrame, DropEarly, PushFrame, GetPacket,
              ComparePacket, CompareAgain, FlushCodec, SendPacket, readVars, userVars, history
<1>3. ASSUME NEW s \in Streams, Consume(s), passed' = passed PROVE Unseen
  BY <1>3 DEF Unseen, Consume, readVars, userVars
<1>4. ASSUME NEW s \in Streams, FlushQueue(s) \/ CheckFinished(s) \/ CheckRemaining(s) \/ PutNull(s)
      PROVE  Unseen
  BY <1>4 DEF Unseen, FlushQueue, CheckFinished, CheckRemaining, PutNull, userVars, history
<1>5. CASE NoSeek \/ CheckEnough \/ ReadEof
  BY <1>5 DEF Unseen, NoSeek, CheckEnough, ReadEof, userVars, history
<1>6. CASE UNCHANGED vars
  BY <1>6 DEF Unseen, vars, readVars, userVars, history
<1> QED BY <1>1, <1>2, <1>3, <1>4, <1>5, <1>6

(* The flush packet makes a stream follow the seek. *)
LEMMA PutFlushFollows ==
    ASSUME IInv, NEW s \in Streams, PutFlush(s) PROVE Viewed!Follow(s)
<1>1. serial[s] = epoch
  <2>1. s \in todo
    BY DEF PutFlush, IInv, NowInv
  <2>2. rpc = "put flush"
    BY DEF PutFlush
  <2> QED BY <2>1, <2>2 DEF IInv, PhaseInv
<1>2. epoch \in Nat /\ serial \in [Streams -> Nat] /\ serial' = [serial EXCEPT ![s] = serial[s] + 1]
  BY DEF PutFlush, IInv, TypeOK
<1>3. [t \in Streams |-> serial'[t] - 1] = [[t \in Streams |-> serial[t] - 1] EXCEPT ![s] = epoch]
  <2>1. serial'[s] - 1 = epoch /\ \A t \in Streams : t # s => serial'[t] - 1 = serial[t] - 1
    BY <1>1, <1>2
  <2> QED BY <2>1
<1>4. UNCHANGED <<seek_req, epoch, passed, dropped, loops, ended, sent, remaining>>
  BY DEF PutFlush, userVars, history
<1>5. [t \in Streams |-> serial[t] - 1][s] # epoch
  BY <1>1, <1>2
<1> QED BY <1>3, <1>4, <1>5 DEF Viewed!Follow

(* Outside of the flushing all streams have followed. *)
LEMMA Followed ==
    IInv => ((\A s \in Streams : ~Flushing(s)) => Viewed!Together)
<1> SUFFICES ASSUME IInv, \A s \in Streams : ~Flushing(s) PROVE Viewed!Together
  OBVIOUS
<1>1. \A s \in Streams : serial[s] = epoch + 1
  BY DEF IInv, PhaseInv, Flushing
<1>2. epoch \in Nat
  BY DEF IInv, TypeOK
<1> QED BY <1>1, <1>2 DEF Viewed!Together

(* A seek of the demuxer is the seek of the player, if it succeeds. *)
LEMMA SeekFileSeeks == ASSUME IInv, SeekFile PROVE Viewed!Seek \/ Unseen
<1>1. \A s \in Streams : ~Flushing(s)
  BY DEF SeekFile, Flushing
<1>2. Viewed!Together
  BY <1>1, Followed
<1>3. seek_req = TRUE /\ UNCHANGED <<seek_req, serial, passed, dropped, loops, ended>>
  BY DEF SeekFile, userVars, IInv, TypeOK
<1>4. CASE epoch' = epoch + 1 /\ sent' = [s \in Streams |-> 0]
           /\ remaining' \in [Streams -> 0 .. MaxPackets]
  <2>1. \A s \in Streams : sent'[s] + remaining'[s] \in 0 .. MaxPackets
    BY <1>4, SizesAssumption
  <2>2. [s \in Streams |-> sent'[s] + remaining'[s]] \in Viewed!Lengths
    BY <2>1 DEF Viewed!Lengths
  <2>3. Viewed!Seek
    BY <1>2, <1>3, <1>4, <2>2 DEF Viewed!Seek
  <2> QED BY <2>3
<1>5. CASE UNCHANGED <<epoch, remaining, sent>>
  BY <1>3, <1>5 DEF Unseen
<1> QED BY <1>4, <1>5 DEF SeekFile

(* The request is done with when all streams have followed. *)
LEMMA SeekDoneDone == ASSUME IInv, SeekDone PROVE Viewed!Done \/ Unseen
<1>1. \A s \in Streams : ~Flushing(s)
  BY DEF SeekDone, Flushing
<1>2. Viewed!Together
  BY <1>1, Followed
<1>3. /\ seek_req' = FALSE /\ seek_req \in BOOLEAN
      /\ UNCHANGED <<epoch, serial, passed, dropped, loops, ended, sent, remaining>>
  BY DEF SeekDone, history, IInv, TypeOK
<1>4. CASE seek_req
  BY <1>2, <1>3, <1>4 DEF Viewed!Done
<1>5. CASE ~seek_req
  BY <1>3, <1>5 DEF Unseen
<1> QED BY <1>4, <1>5

(* read_thread plays again, or exits, when the player has come to the end. *)
LEMMA AllPlayedEnds == ASSUME IInv, PlayInv, AllPlayed PROVE Viewed!End
<1>1. /\ UNCHANGED <<epoch, serial, passed, dropped, sent, remaining>>
      /\ \/ /\ loops # 1 /\ loops' = (IF loops = 0 THEN 0 ELSE loops - 1)
            /\ seek_req' = TRUE /\ ended' = ended
         \/ /\ loops = 1 /\ ended' = Autoexit /\ UNCHANGED <<loops, seek_req>>
  BY DEF AllPlayed, history
<1>2. ASSUME NEW s \in Streams PROVE Viewed!Played(s)
  <2>1. /\ remaining[s] = 0 /\ serial[s] = epoch + 1 /\ sent[s] \in Nat /\ epoch \in Nat
        /\ sent[s] > 0 => \E f \in dropped[s] \cup {passed[s]} : f.epoch = epoch /\ f.n = sent[s]
    BY LastIsShown DEF AllPlayed
  <2>2. sent[s] + remaining[s] = sent[s] /\ serial[s] - 1 = epoch
    BY <2>1
  <2>3. sent[s] > 0 => [epoch |-> epoch, n |-> sent[s]] \in
                          {Mark(f) : f \in dropped[s]} \cup {Mark(passed[s])}
    BY <2>1 DEF Mark
  <2> QED BY <2>2, <2>3 DEF Viewed!Played, Viewed!At
<1> QED BY <1>1, <1>2 DEF Viewed!End

(* The consumer's frame is the player's next one. *)
LEMMA ConsumeShows ==
    ASSUME IInv, NEW s \in Streams, WayInv(s), SizedInv(s), Consume(s), passed' # passed
    PROVE  \E n \in 1 .. MaxPackets : Viewed!Show(s, n)
<1> DEFINE n == passed'[s].n
<1>1. /\ passed \in [Streams -> Frames] /\ passed' = [passed EXCEPT ![s] = Head(frames[s])]
      /\ UNCHANGED <<seek_req, epoch, serial, dropped, loops, ended, sent, remaining>>
  BY DEF Consume, IInv, TypeOK, readVars, userVars
<1>2. passed'[s] # passed[s]
  BY <1>1
<1>3. /\ passed'[s] \in SizedFrames /\ passed'[s].epoch + 1 = serial[s]
      /\ n > Before(s) /\ Before(s) \in Nat
      /\ \A m \in Before(s) + 1 .. n - 1 :
            \E g \in dropped[s] : g \in Frames /\ g.epoch + 1 = serial[s] /\ g.n = m
      /\ ~Flushing(s) => n <= sent[s]
  BY <1>2, ConsumeNext
<1>4. /\ n \in 1 .. MaxPackets /\ passed'[s].epoch \in Nat /\ serial[s] \in Nat /\ epoch \in Nat
      /\ sent[s] \in Nat /\ remaining[s] \in Nat /\ passed[s].epoch \in Nat
  BY <1>1, <1>3, StreamFacts DEF SizedFrames, Sized, Frames
<1>5. passed'[s].epoch = serial[s] - 1
  BY <1>3, <1>4
<1>6. serial[s] - 1 = epoch => n <= sent[s] + remaining[s]
  <2>1. ASSUME serial[s] - 1 = epoch PROVE ~Flushing(s)
    <3>1. Flushing(s) => serial[s] = epoch
      BY DEF IInv, PhaseInv, Flushing
    <3> QED BY <1>4, <2>1, <3>1
  <2> QED BY <1>3, <1>4, <2>1
<1>7. Mark(passed'[s]) = [epoch |-> serial[s] - 1, n |-> n]
  BY <1>5 DEF Mark
<1>8. [t \in Streams |-> Mark(passed'[t])]
        = [[t \in Streams |-> Mark(passed[t])] EXCEPT ![s] = [epoch |-> serial[s] - 1, n |-> n]]
  <2>1. \A t \in Streams : t # s => passed'[t] = passed[t]
    BY <1>1
  <2> HIDE DEF n
  <2> QED BY <1>7, <2>1
<1>9. (IF Mark(passed[s]).epoch = serial[s] - 1 THEN Mark(passed[s]).n ELSE 0) = Before(s)
  BY <1>4 DEF Mark, Before
<1>10. ASSUME NEW m \in Before(s) + 1 .. n - 1
       PROVE  [epoch |-> serial[s] - 1, n |-> m] \in {Mark(f) : f \in dropped[s]}
  <2>1. PICK g \in dropped[s] : g \in Frames /\ g.epoch + 1 = serial[s] /\ g.n = m
    BY <1>3
  <2>2. g.epoch = serial[s] - 1
    BY <2>1 DEF Frames
  <2>3. Mark(g) = [epoch |-> serial[s] - 1, n |-> m]
    BY <2>1, <2>2 DEF Mark
  <2> QED BY <2>3
<1> HIDE DEF n
<1>11. Viewed!Position(s) = Before(s)
  BY <1>9 DEF Viewed!Position
<1>12. Viewed!IsNext(s, n)
  BY <1>3, <1>6, <1>10, <1>11 DEF Viewed!IsNext, Viewed!At
<1>13. Viewed!Show(s, n)
  BY <1>1, <1>8, <1>12 DEF Viewed!Show, Viewed!At
<1> QED BY <1>4, <1>13

(* The frame that get_video_frame drops was not passed yet. *)
LEMMA DropEarlyDrops ==
    ASSUME IInv, NEW s \in Streams, WayInv(s), SizedInv(s), DropEarly(s)
    PROVE  \E n \in 1 .. MaxPackets, e \in 0 .. serial[s] - 1 : Viewed!Drop(s, e, n)
<1> DEFINE f == frame[s]
<1>1. /\ s \in DropStreams /\ dropped \in [Streams -> SUBSET Frames]
      /\ dropped' = [dropped EXCEPT ![s] = dropped[s] \cup {f}]
      /\ UNCHANGED <<seek_req, epoch, serial, passed, loops, ended, sent, remaining>>
  BY DEF DropEarly, IInv, TypeOK, readVars, userVars
<1>2. f \in SizedFrames /\ f.epoch + 1 = pkt_serial[s] /\ pkt_serial[s] <= serial[s]
  BY StreamFacts DEF DropEarly, SizedInv, StreamInv, FrameInv, StaleInv
<1>3. /\ f.n \in 1 .. MaxPackets /\ f.epoch \in Nat /\ serial[s] \in Nat /\ f \in Frames
      /\ passed[s].epoch \in Nat /\ passed[s].n \in Nat /\ passed[s] \in Frames
  BY <1>2, StreamFacts DEF SizedFrames, Sized, Frames
<1>4. f.epoch \in 0 .. serial[s] - 1
  BY <1>2, <1>3, StreamFacts
<1>5. ASSUME f.epoch = serial[s] - 1 PROVE f.n > Before(s)
  <2>1. f \in FramesOf(serial[s])
    BY <1>3, <1>5 DEF FramesOf
  <2>2. f.n \in Held(s)[2] /\ 0 \in Stages /\ 2 \in Stages /\ 0 < 2
    <3>1. dpc[s] = "push"
      BY DEF DropEarly
    <3>2. f.n \in Decoded(s)
      BY <2>1, <3>1, Zenon DEF Decoded, Number
    <3>3. 0 \in Stages /\ 2 \in Stages /\ 0 < 2
      BY DEF Stages
    <3> QED BY <3>2, <3>3, HeldParts
  <2>3. CASE passed[s].epoch + 1 = serial[s]
    <3>1. passed[s].n \in Held(s)[0] /\ Before(s) = passed[s].n
      BY <1>3, <2>3, HeldParts DEF Shown, Number, FramesOf, Before
    <3>2. passed[s].n < f.n
      BY <2>2, <3>1 DEF WayInv, OrderInv, Ordered
    <3> QED BY <1>3, <3>1, <3>2
  <2>4. CASE passed[s].epoch + 1 # serial[s]
    BY <1>3, <2>4 DEF Before
  <2> QED BY <2>3, <2>4
<1>6. (IF Mark(passed[s]).epoch = serial[s] - 1 THEN Mark(passed[s]).n ELSE 0) = Before(s)
  BY <1>3 DEF Mark, Before
<1> DEFINE marks(S) == {Mark(g) : g \in S}
<1>7. [t \in Streams |-> marks(dropped'[t])]
        = [[t \in Streams |-> marks(dropped[t])]
             EXCEPT ![s] = @ \cup {[epoch |-> f.epoch, n |-> f.n]}]
  <2>1. \A t \in Streams : t # s => dropped'[t] = dropped[t]
    BY <1>1
  <2>2. dropped'[s] = dropped[s] \cup {f}
    BY <1>1
  <2>3. marks(dropped[s] \cup {f}) = marks(dropped[s]) \cup {[epoch |-> f.epoch, n |-> f.n]}
    BY DEF Mark
  <2> HIDE DEF f, marks
  <2> QED BY <2>1, <2>2, <2>3
<1> HIDE DEF f
<1>8. Viewed!Position(s) = Before(s)
  BY <1>6 DEF Viewed!Position
<1>9. PICK n \in 1 .. MaxPackets, e \in 0 .. serial[s] - 1 : n = f.n /\ e = f.epoch
  BY <1>3, <1>4
<1>10. Viewed!Drop(s, e, n)
  BY <1>1, <1>5, <1>7, <1>8, <1>9 DEF Viewed!Drop, Viewed!At, marks
<1> QED BY <1>10

(* Queues, decoders and threads keep the promise of Player, for any number *)
(* of streams, any file and any number of seeks: every step of theirs is   *)
(* one the player may take, or is not seen.                                *)
THEOREM PlaybackImplementsPlayer == Spec => ImplementsPlayer
<1>1. Init => Viewed!Init
  BY ViewedInit
<1>2. AllInv /\ [Next]_vars => [Viewed!Next]_(Viewed!playerVars)
  <2> SUFFICES ASSUME AllInv, [Next]_vars PROVE Viewed!Next \/ Unseen
    BY UnseenStutters
  <2>0. IInv /\ PlayInv /\ \A s \in Streams : WayInv(s) /\ SizedInv(s)
    BY DEF AllInv, PlayInv
  <2>1. ASSUME NEW s \in Streams, DecoderStep(s) PROVE Viewed!Next \/ Unseen
    <3>1. CASE DropEarly(s)
      <4>1. PICK n \in 1 .. MaxPackets, e \in 0 .. serial[s] - 1 : Viewed!Drop(s, e, n)
        BY <2>0, <3>1, DropEarlyDrops
      <4>2. [t \in Streams |-> serial[t] - 1][s] = serial[s] - 1
        OBVIOUS
      <4> QED BY <4>1, <4>2 DEF Viewed!Next
    <3>2. CASE ~DropEarly(s)
      <4>1. dropped' = dropped
        BY <2>1, <3>2 DEF DecoderStep, CheckSerial, ReceiveFrame, PushFrame, GetPacket,
               ComparePacket, CompareAgain, FlushCodec, SendPacket, history
      <4> QED BY <2>0, <2>1, <4>1, QuietUnseen
    <3> QED BY <3>1, <3>2
  <2>2. ASSUME NEW s \in Streams, Consume(s) PROVE Viewed!Next \/ Unseen
    <3>1. CASE passed' # passed
      BY <2>0, <2>2, <3>1, ConsumeShows DEF Viewed!Next
    <3>2. CASE passed' = passed
      BY <2>0, <2>2, <3>2, QuietUnseen
    <3> QED BY <3>1, <3>2
  <2>3. ASSUME RequestSeek PROVE Viewed!Next
    BY <2>3 DEF RequestSeek, Viewed!Request, Viewed!Next, readVars, history
  <2>4. CASE SeekFile \/ SeekDone \/ AllPlayed
    BY <2>0, <2>4, SeekFileSeeks, SeekDoneDone, AllPlayedEnds DEF Viewed!Next
  <2>5. ASSUME NEW s \in Streams, PutFlush(s) PROVE Viewed!Next
    BY <2>0, <2>5, PutFlushFollows DEF Viewed!Next
  <2>6. CASE \/ NoSeek \/ CheckEnough \/ ReadEof \/ UNCHANGED vars
             \/ \E s \in Streams : \/ FlushQueue(s) \/ CheckFinished(s) \/ CheckRemaining(s)
                                   \/ PutNull(s) \/ ReadPacket(s)
    BY <2>0, <2>6, QuietUnseen
  <2> QED BY <2>1, <2>2, <2>3, <2>4, <2>5, <2>6, Zenon DEF Next, ReadStep
<1> QED BY <1>1, <1>2, SpecAllInv, PTL DEF Spec, ImplementsPlayer, Viewed!Spec
=============================================================================
