------------------------------ MODULE FrameFifo ------------------------------
(***************************************************************************)
(* What a FrameQueue of ffplay promises its two users: a bounded queue of  *)
(* decoded frames with one writer and one reader, delivered once each and  *)
(* in decoding order, that keeps the last frame the reader has taken       *)
(* readable until it takes the next one (KeepLast).  FrameQueue.tla is     *)
(* shown to implement it.                                                  *)
(***************************************************************************)
EXTENDS Naturals, Sequences

CONSTANTS Capacity,   \* frames the ring can hold
          KeepLast,   \* does a taken frame keep its place until the next one is taken
          MaxFrames   \* bound: frames ever produced

VARIABLES
    waiting,   \* the frames not taken yet, oldest first
    last,      \* the frame taken last and still readable, 0 for none
    produced   \* frames put in so far: frame n is the n-th

fifoVars == <<waiting, last, produced>>

Held == IF KeepLast /\ last # 0 THEN 1 ELSE 0

Init == waiting = <<>> /\ last = 0 /\ produced = 0

Put == /\ produced < MaxFrames
       /\ Len(waiting) + Held < Capacity
       /\ produced' = produced + 1
       /\ waiting' = Append(waiting, produced + 1)
       /\ UNCHANGED last

Take == /\ waiting # <<>>
        /\ waiting' = Tail(waiting)
        /\ last' = IF KeepLast THEN Head(waiting) ELSE 0
        /\ UNCHANGED produced

Next == Put \/ Take

Spec == Init /\ [][Next]_fifoVars
=============================================================================
