------------------------------- MODULE Player -------------------------------
(***************************************************************************)
(* What ffplay promises its viewer of the streams of a file: the frames of *)
(* each are shown in the order they have in the file, from the position    *)
(* last sought and without a gap, but for those dropped as late; no stream *)
(* goes back to before a seek it has followed; the file is played again,   *)
(* or the player left, only when every stream has come to its end.         *)
(* Playback.tla, with its queues, decoders and threads, is shown to        *)
(* implement it.                                                           *)
(***************************************************************************)
EXTENDS Naturals

CONSTANTS
    Streams,
    DropStreams, \* streams whose late frames may be dropped
    Autoexit,    \* is the player left at the end
    Loop,        \* how often to play, 0 for ever
    MaxPackets   \* bound: frames of a stream after a position in the file

VARIABLES
    wanted,      \* is a seek requested
    epoch,       \* seeks carried out
    length,      \* frames of each stream from the position last sought to the end
    current,     \* the last seek that each stream has followed
    shown, late, \* the frame of each stream shown last, and those dropped
    loops, ended

playerVars == <<wanted, epoch, length, current, shown, late, loops, ended>>

Lengths == [Streams -> 0 .. MaxPackets]

(* The n-th frame after the e-th seek *)
At(e, n) == [epoch |-> e, n |-> n]

Init == /\ wanted = FALSE /\ epoch = 0
        /\ length \in Lengths
        /\ current = [s \in Streams |-> 0]
        /\ shown = [s \in Streams |-> At(0, 0)]
        /\ late = [s \in Streams |-> {}]
        /\ loops = Loop /\ ended = FALSE

Request == /\ ~wanted /\ ~ended
           /\ wanted' = TRUE
           /\ UNCHANGED <<epoch, length, current, shown, late, loops, ended>>

(* The streams follow a seek one after the other, and all of them before   *)
(* the request is done with, or the next is carried out.                   *)
Together == \A s \in Streams : current[s] = epoch

Seek == /\ wanted /\ Together
        /\ epoch' = epoch + 1
        /\ length' \in Lengths
        /\ UNCHANGED <<wanted, current, shown, late, loops, ended>>

Follow(s) == /\ current[s] # epoch
             /\ current' = [current EXCEPT ![s] = epoch]
             /\ UNCHANGED <<wanted, epoch, length, shown, late, loops, ended>>

Done == /\ wanted /\ Together
        /\ wanted' = FALSE
        /\ UNCHANGED <<epoch, length, current, shown, late, loops, ended>>

(* How far the stream has come since the seek it follows *)
Position(s) == IF shown[s].epoch = current[s] THEN shown[s].n ELSE 0

(* Frame n is there, and is the next one but for those dropped. *)
IsNext(s, n) == /\ current[s] = epoch => n <= length[s]
                /\ n > Position(s)
                /\ \A m \in Position(s) + 1 .. n - 1 : At(current[s], m) \in late[s]

Show(s, n) == /\ IsNext(s, n)
              /\ shown' = [shown EXCEPT ![s] = At(current[s], n)]
              /\ UNCHANGED <<wanted, epoch, length, current, late, loops, ended>>

(* A frame is dropped before its turn; one of before the seek that the     *)
(* stream follows may still be, which nobody sees.                         *)
Drop(s, e, n) == /\ s \in DropStreams
                 /\ e = current[s] => n > Position(s)
                 /\ late' = [late EXCEPT ![s] = @ \cup {At(e, n)}]
                 /\ UNCHANGED <<wanted, epoch, length, current, shown, loops, ended>>

Played(s) == /\ current[s] = epoch
             /\ length[s] > 0 => At(epoch, length[s]) \in late[s] \cup {shown[s]}

(* Played to the end: play again, with a seek to the start, or leave. *)
End == /\ \A s \in Streams : Played(s)
       /\ \/ /\ loops # 1
             /\ loops' = IF loops = 0 THEN 0 ELSE loops - 1
             /\ wanted' = TRUE
             /\ UNCHANGED ended
          \/ /\ loops = 1
             /\ ended' = Autoexit
             /\ UNCHANGED <<loops, wanted>>
       /\ UNCHANGED <<epoch, length, current, shown, late>>

Next == \/ Request \/ Seek \/ Done \/ End
        \/ \E s \in Streams :
              \/ Follow(s)
              \/ \E n \in 1 .. MaxPackets : Show(s, n) \/ \E e \in 0 .. current[s] : Drop(s, e, n)

Spec == Init /\ [][Next]_playerVars
=============================================================================
