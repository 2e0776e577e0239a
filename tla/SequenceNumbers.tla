-------------------------- MODULE SequenceNumbers --------------------------
(***************************************************************************)
(* The two ends of a stream that number its bytes with WrappingInt32.  The *)
(* sender steps its 32-bit seqno along with operator+ and numbers a repeat *)
(* of earlier bytes with operator-; the receiver recovers the absolute     *)
(* number with unwrap() and a checkpoint, the last number it recovered or  *)
(* an older one.  Segments may be reordered, repeated and lost.  The       *)
(* sender and the receiver are not in src/ (the TCPReceiver is a stub):    *)
(* they stand for the use wrapping_integers.hh describes.                  *)
(***************************************************************************)
EXTENDS WrappingIntegers, FiniteSets

CONSTANTS
    Isns,           (* the initial sequence numbers considered *)
    MaxStep,        (* bound: the most bytes the sender advances at once *)
    MaxInFlight     (* bound: the most segments in the network           *)

ASSUME IsnsAssumption == Isns \subseteq Raw
ASSUME BoundsAssumption == MaxStep \in Nat /\ MaxInFlight \in Nat

VARIABLES
    isn,        (* the initial sequence number *)
    sent,       (* the absolute number of the sender's next byte *)
    seqno,      (* the same as the sender's WrappingInt32        *)
    network,    (* segments in flight, with the absolute number meant *)
    checkpoint, (* the receiver's recent absolute number              *)
    recovered   (* the last unwrap(): the number meant and the number got *)

vars == <<isn, sent, seqno, network, checkpoint, recovered>>

Segment == [seqno : Raw, abs : Absolute]

TypeOK ==
    /\ isn \in Raw
    /\ sent \in Absolute
    /\ seqno \in Raw
    /\ network \subseteq Segment
    /\ checkpoint \in Absolute
    /\ recovered \in [meant : Absolute, got : Absolute]

Init ==
    /\ isn \in Isns
    /\ sent = 0
    /\ seqno = isn
    /\ network = {}
    /\ checkpoint = 0
    /\ recovered = [meant |-> 0, got |-> 0]

(* Half the number space: further apart, a seqno is ambiguous. *)
Near(a, b) == 2 * Magnitude(a - b) < M

Advance(len) ==
    /\ sent + len < W
    /\ Near(sent + len, checkpoint)
    /\ sent' = sent + len
    /\ seqno' = Plus(seqno, len)
    /\ UNCHANGED <<isn, network, checkpoint, recovered>>

(* The bytes k before the next one go out, for the first time or again. *)
Send(k) ==
    /\ k <= sent
    /\ Cardinality(network) < MaxInFlight
    /\ network' = network \cup {[seqno |-> Before(seqno, k), abs |-> sent - k]}
    /\ UNCHANGED <<isn, sent, seqno, checkpoint, recovered>>

(* A segment is received while it is near the checkpoint: the maximum      *)
(* segment lifetime.  It stays in the network, to be received again.       *)
Receive(s) ==
    /\ Near(s.abs, checkpoint)
    /\ recovered' = [meant |-> s.abs, got |-> Unwrap(s.seqno, isn, checkpoint)]
    /\ checkpoint' \in {checkpoint, recovered'.got}
    /\ UNCHANGED <<isn, sent, seqno, network>>

Lose(s) ==
    /\ network' = network \ {s}
    /\ UNCHANGED <<isn, sent, seqno, checkpoint, recovered>>

Next ==
    \/ \E len \in 1..MaxStep : Advance(len)
    \/ \E k \in 0..MaxStep : Send(k)
    \/ \E s \in network : Receive(s)
    \/ \E s \in network : Lose(s)

Spec == Init /\ [][Next]_vars

-----------------------------------------------------------------------------
(* unwrap() recovers the absolute number the sender meant, wherever the    *)
(* checkpoint has drifted to, at both ends of the 64-bit range too.        *)
RecoveredIsMeant == recovered.got = recovered.meant

(* A result of unwrap() as its comment has it: "the absolute sequence      *)
(* number that wraps to `n` and is closest to `checkpoint`".               *)
Closest(n, x) ==
    /\ Wrap(x, isn) = n
    /\ \A y \in Absolute :
        Wrap(y, isn) = n => Magnitude(x - checkpoint) <= Magnitude(y - checkpoint)

(* That holds for every n, whether or not anyone sent it, as long as the   *)
(* checkpoint is not in the last epoch of the 64-bit range, where the      *)
(* candidate one epoch up wraps to a small number and seems nearer.        *)
UnwrapClosest ==
    checkpoint < W - M => \A n \in Raw : Closest(n, Unwrap(n, isn, checkpoint))
=============================================================================
