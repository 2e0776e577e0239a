-------------------------- MODULE InOrderDelivery --------------------------
(***************************************************************************)
(* What a receiver of a byte stream promises its reader, with no substring,*)
(* index or reordering in sight: the bytes of Stream arrive in order, each *)
(* once, at most Window of them wait for the reader, and the end is        *)
(* announced only behind the last byte.  StreamReassembler implements it.  *)
(***************************************************************************)
EXTENDS Naturals, Sequences

CONSTANTS
    Stream,     (* the bytes the sender has          *)
    Window      (* how many may wait for the reader  *)

VARIABLES
    ready,      (* delivered, not yet consumed *)
    position,   (* how many bytes of Stream have been delivered *)
    ended       (* the reader has been told that no more will come *)

Init ==
    /\ ready = << >>
    /\ position = 0
    /\ ended = FALSE

(* The next n bytes arrive; the end may come with them or after them. *)
Deliver ==
    /\ \E n \in 0..(Window - Len(ready)) :
        /\ position + n <= Len(Stream)
        /\ ready' = ready \o SubSeq(Stream, position + 1, position + n)
        /\ position' = position + n
    /\ ended' \in BOOLEAN
    /\ ended => ended'
    /\ ended' => position' = Len(Stream)

Consume ==
    /\ \E n \in 0..Len(ready) : ready' = SubSeq(ready, n + 1, Len(ready))
    /\ UNCHANGED <<position, ended>>

Next == Deliver \/ Consume

Spec == Init /\ [][Next]_<<ready, position, ended>>
=============================================================================
