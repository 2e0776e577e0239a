-------------------------- MODULE WrappingIntegers --------------------------
(***************************************************************************)
(* libsponge/wrapping_integers.{hh,cc}: 32-bit sequence numbers relative   *)
(* to an initial sequence number (ISN), and their conversion to and from   *)
(* 64-bit absolute ones.  A WrappingInt32 is its _raw_value.               *)
(*                                                                         *)
(* M stands for 2^32 and W, K times M, for 2^64: unsigned arithmetic is    *)
(* modulo M or W, signed values are the representative in -M/2..M/2-1 or   *)
(* -W/2..W/2-1.                                                            *)
(***************************************************************************)
EXTENDS Integers

CONSTANTS M, K

ASSUME WidthAssumption ==
    /\ M \in Nat /\ M >= 2 /\ M % 2 = 0
    /\ K \in Nat /\ K >= 4

W == K * M

Raw == 0..(M - 1)         (* uint32_t *)
Absolute == 0..(W - 1)    (* uint64_t *)

(* Two's complement reading of an unsigned value of the given modulus. *)
Signed(d, modulus) == IF 2 * d < modulus THEN d ELSE d - modulus

(* operator-(WrappingInt32, WrappingInt32), an int32_t. *)
Minus(a, b) == Signed((a - b) % M, M)

(* operator+(WrappingInt32, uint32_t) *)
Plus(a, b) == (a + b) % M

(* operator-(WrappingInt32, uint32_t): a + -b in uint32_t. *)
Before(a, b) == Plus(a, (-b) % M)

(* wrap() *)
Wrap(n, isn) == Plus(isn, n % M)

-----------------------------------------------------------------------------
Magnitude(d) == IF d < 0 THEN -d ELSE d

(* abs(static_cast<int64_t>(a - b)), the subtraction in uint64_t. *)
Distance(a, b) == Magnitude(Signed((a - b) % W, W))

(* Mutant: only the epoch of the checkpoint is considered. *)
UnwrapOneCandidate(n, isn, checkpoint) ==
    (checkpoint - (checkpoint % M)) + (Minus(n, isn) % M)

(* Mutant: the epoch below is tried although there is none. *)
UnwrapBelowZero(n, isn, checkpoint) ==
    LET candidate == ((checkpoint - (checkpoint % M)) + (Minus(n, isn) % M)) % W
        below     == (candidate - M) % W
    IN  IF Distance(below, checkpoint) < Distance(candidate, checkpoint) THEN below ELSE candidate

(* unwrap(): of the number in the epoch of the checkpoint and those one    *)
(* epoch below and above, the first with the least distance.               *)
Unwrap(n, isn, checkpoint) ==
    LET offset    == Minus(n, isn) % M
        base      == checkpoint - (checkpoint % M)
        candidate == (base + offset) % W
        cand2     == candidate - M
        cand3     == (candidate + M) % W
        best      == IF /\ candidate >= M
                        /\ Distance(cand2, checkpoint) < Distance(candidate, checkpoint)
                     THEN cand2
                     ELSE candidate
    IN  IF Distance(cand3, checkpoint) < Distance(best, checkpoint) THEN cand3 ELSE best
=============================================================================
