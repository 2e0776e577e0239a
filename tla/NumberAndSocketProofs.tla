--------------------- MODULE NumberAndSocketProofs ---------------------
(***************************************************************************)
(* The theorems of two components that share no state.  SequenceNumbers:   *)
(* wrap() and unwrap(), for every even modulus M, 2^32 among them, and     *)
(* every range of at least four epochs.  FileDescriptor and Socket: the    *)
(* handles, wrappers, kernel numbers and kinds, for any set of handles and *)
(* of numbers.                                                             *)
(***************************************************************************)
EXTENDS SequenceNumbers, Socket, SliceLemmas

-----------------------------------------------------------------------------
(* SequenceNumbers: wrap() and unwrap(). *)

(* The two widths of wrapping_integers.cc: both positive, and the 64-bit   *)
(* one at least four times the 32-bit one.                                 *)
LEMMA Widths ==
    M \in Nat /\ M >= 2 /\ M > 0 /\ K \in Nat /\ W \in Nat /\ W >= 4 * M /\ W > 0
<1>1. K * M >= 4 * M /\ K * M \in Int
  BY TimesAtLeast, WidthAssumption
<1>2. QED
  BY <1>1, WidthAssumption DEF W

(* wrap() adds the absolute number to the ISN, modulo 2^32. *)
LEMMA WrapIs ==
    ASSUME NEW n \in Int, NEW i \in Int
    PROVE  Wrap(n, i) = (i + n) % M /\ Wrap(n, i) \in Raw
<1> DEFINE r == n % M
<1>1. PICK q \in Int : n = q * M + r /\ r \in Int
  BY DivMod, Widths
<1> HIDE DEF r
<1>2. i + n = (i + r) + q * M
  <2>1. q * M \in Int
    BY Widths
  <2>2. QED
    BY <1>1, <2>1
<1>3. (i + n) % M = (i + r) % M
  <2>1. PICK u \in Int, v \in Int : u = i + n /\ v = i + r
    BY <1>1
  <2>2. u = v + q * M
    BY <1>2, <2>1, Zenon
  <2>3. u % M = v % M
    BY ONLY <2>2, u \in Int, v \in Int, q \in Int, ModShift, Widths
  <2>4. QED
    BY <2>1, <2>3, Zenon
<1>4. (i + n) % M \in Int /\ 0 <= (i + n) % M /\ (i + n) % M < M
  BY DivMod, Widths
<1>5. QED
  BY <1>3, <1>4, Widths DEF Wrap, Plus, Raw, r

(* operator-(WrappingInt32, WrappingInt32), taken as a uint32_t, is the    *)
(* difference modulo 2^32 although it passes through an int32_t.           *)
LEMMA MinusIs ==
    ASSUME NEW a \in Int, NEW b \in Int
    PROVE  Minus(a, b) % M = (a - b) % M
<1> DEFINE d == (a - b) % M
<1>1. d \in Int /\ 0 <= d /\ d < M
  BY DivMod, Widths
<1>2. Minus(a, b) = d \/ Minus(a, b) = d - M
  BY DEF Minus, Signed
<1>3. d % M = d
  <2>1. d = 0 * M + d
    BY <1>1, Widths
  <2>2. QED
    BY <1>1, <2>1, ModUnique, Widths
<1>4. (d - M) % M = d
  <2>1. d - M = (-1) * M + d
    BY <1>1, Widths
  <2>2. QED
    BY <1>1, <2>1, ModUnique, Widths
<1>5. QED
  BY <1>2, <1>3, <1>4

(* The absolute numbers that wrap to n are those whose offset in their     *)
(* epoch is the one unwrap() computes from n and the ISN.                  *)
LEMMA WrapsToIff ==
    ASSUME NEW n \in Raw, NEW i \in Int, NEW x \in Int
    PROVE  Wrap(x, i) = n <=> x % M = Minus(n, i) % M
<1>0. n \in Int /\ 0 <= n /\ n < M
  BY Widths DEF Raw
<1>1. Wrap(x, i) = (i + x) % M /\ Minus(n, i) % M = (n - i) % M
  BY <1>0, WrapIs, MinusIs
<1>2. n % M = n
  <2>1. n = 0 * M + n
    BY <1>0, Widths
  <2>2. QED
    BY <1>0, <2>1, ModUnique, Widths
<1>3. ASSUME (i + x) % M = n
      PROVE  x % M = (n - i) % M
  <2>0. i + x \in Int /\ (i + x) % M = n % M
    BY <1>2, <1>3
  <2>1. PICK k \in Int : i + x = n + k * M
    BY ONLY <1>0, <2>0, ModSame, Widths
  <2>2. x = (n - i) + k * M /\ n - i \in Int
    <3>1. k * M \in Int
      BY Widths
    <3>2. QED
      BY <1>0, <2>1, <3>1
  <2>3. QED
    BY ONLY <2>2, x \in Int, k \in Int, ModShift, Widths
<1>4. ASSUME x % M = (n - i) % M
      PROVE  (i + x) % M = n
  <2>0. n - i \in Int
    BY <1>0
  <2>1. PICK k \in Int : x = (n - i) + k * M
    BY ONLY <1>4, <2>0, x \in Int, ModSame, Widths
  <2>2. i + x = n + k * M
    <3>1. k * M \in Int
      BY Widths
    <3>2. QED
      BY <1>0, <2>1, <3>1
  <2>3. (i + x) % M = n % M
    <3>1. PICK u \in Int, v \in Int : u = i + x /\ v = n
      BY <1>0
    <3>2. u = v + k * M
      BY <2>2, <3>1, Zenon
    <3>3. u % M = v % M
      BY ONLY <3>2, u \in Int, v \in Int, k \in Int, ModShift, Widths
    <3>4. QED
      BY <3>1, <3>3, Zenon
  <2>4. QED
    BY <1>2, <2>3
<1>5. QED
  BY <1>1, <1>3, <1>4

(* abs(static_cast<int64_t>(x - c)) is the distance e of x and c when that *)
(* is less than two epochs, also if x has wrapped around 2^64.             *)
LEMMA DistanceIs ==
    ASSUME NEW x \in Int, NEW c \in Int, NEW e \in Int, NEW j \in Int,
           x - c = e + j * W, -2 * M < e, e < 2 * M
    PROVE  Distance(x, c) = Magnitude(e)
<1>1. (x - c) % W = e % W
  <2>1. x - c \in Int
    OBVIOUS
  <2>2. QED
    BY <2>1, ModShift, Widths
<1>2. CASE e >= 0
  <2>1. e = 0 * W + e /\ e < W
    BY Widths
  <2>2. e % W = e
    BY <1>2, <2>1, ModUnique, Widths
  <2>3. 2 * e < W
    BY Widths
  <2>4. QED
    BY <1>1, <2>2, <2>3 DEF Distance, Signed
<1>3. CASE e < 0
  <2>1. e = (-1) * W + (e + W) /\ 0 <= e + W /\ e + W < W /\ e + W \in Int
    BY <1>3, Widths
  <2>2. e % W = e + W
    BY <2>1, ModUnique, Widths
  <2>3. ~(2 * (e + W) < W) /\ (e + W) - W = e
    BY Widths
  <2>4. QED
    BY <1>1, <2>2, <2>3 DEF Distance, Signed
<1>4. QED
  BY <1>2, <1>3

-----------------------------------------------------------------------------
(* The epoch of an absolute number c starts at a multiple of M that leaves *)
(* room for a whole epoch, and for two if c is not in the last one.        *)
LEMMA EpochOf ==
    ASSUME NEW c \in Absolute
    PROVE  \E q \in Int : /\ c - (c % M) = q * M /\ q * M \in Int
                          /\ 0 <= q * M /\ q * M <= c /\ c < q * M + M
                          /\ q * M + M <= W
                          /\ c < W - M => q * M + 2 * M <= W
<1>0. c \in Int /\ 0 <= c /\ c < W
  BY Widths DEF Absolute
<1>1. PICK q \in Int : c = q * M + (c % M) /\ c % M \in Int /\ 0 <= c % M /\ c % M < M
  BY <1>0, DivMod, Widths
<1>2. q * M \in Int /\ q * M <= c /\ c < q * M + M
  BY <1>1, Widths
<1>3. q >= 0
  <2> SUFFICES ASSUME -1 >= q
               PROVE  FALSE
    OBVIOUS
  <2>1. (-1) * M >= q * M
    BY TimesAtLeast, Widths
  <2>2. QED
    BY <1>0, <1>2, <2>1, Widths
<1>4. 0 <= q * M
  <2>1. q * M >= 0 * M
    BY <1>3, TimesAtLeast, Widths
  <2>2. QED
    BY <2>1, Widths
<1>5. W = K * M /\ K \in Int
  BY WidthAssumption DEF W
<1>6. ASSUME NEW j \in Int, c < j * M
      PROVE  q * M + M <= j * M
  <2>1. j >= q + 1
    <3> SUFFICES ASSUME q >= j
                 PROVE  FALSE
      OBVIOUS
    <3>1. q * M >= j * M /\ j * M \in Int
      BY TimesAtLeast, Widths
    <3>2. QED
      BY <1>0, <1>2, <1>6, <3>1
  <2>2. j * M >= (q + 1) * M
    BY <2>1, TimesAtLeast, Widths
  <2>3. (q + 1) * M = q * M + M
    BY Widths
  <2>4. QED
    BY <2>2, <2>3
<1>7. q * M + M <= W
  BY <1>0, <1>5, <1>6
<1>8. ASSUME c < W - M
      PROVE  q * M + 2 * M <= W
  <2>1. (K - 1) * M = W - M /\ K - 1 \in Int
    BY <1>5, Widths
  <2>2. q * M + M <= (K - 1) * M
    BY <1>6, <1>8, <2>1
  <2>3. QED
    BY <1>2, <2>1, <2>2, Widths
<1>9. QED
  BY <1>1, <1>2, <1>4, <1>7, <1>8

(* unwrap() without the arithmetic modulo 2^64: b is the start of the      *)
(* checkpoint's epoch and o the offset, so that b + o, b + o - M and       *)
(* b + o + M are the candidates and e the way from the checkpoint to the   *)
(* first.  Only the last candidate can wrap.                               *)
Candidates(x, c, b, o) ==
    LET e == b + o - c
    IN  /\ b \in Int /\ 0 <= b /\ b <= c /\ c < b + M /\ b + M <= W
        /\ c < W - M => b + 2 * M <= W
        /\ o \in Int /\ 0 <= o /\ o < M
        /\ x = LET best == IF b + o >= M /\ Magnitude(e - M) < Magnitude(e)
                           THEN b + o - M ELSE b + o
               IN  IF Magnitude(e + M) < Magnitude(best - c)
                   THEN IF b + o + M < W THEN b + o + M ELSE b + o + M - W
                   ELSE best

(* unwrap() chooses among the three candidates around the checkpoint.      *)
LEMMA UnwrapIs ==
    ASSUME NEW n \in Raw, NEW i \in Int, NEW c \in Absolute
    PROVE  \E q \in Int : Candidates(Unwrap(n, i, c), c, q * M, Minus(n, i) % M)
<1>0. c \in Int /\ 0 <= c /\ c < W /\ n \in Int
  BY Widths DEF Absolute, Raw
<1>1. PICK q \in Int : /\ c - (c % M) = q * M /\ q * M \in Int
                       /\ 0 <= q * M /\ q * M <= c /\ c < q * M + M
                       /\ q * M + M <= W
                       /\ c < W - M => q * M + 2 * M <= W
  BY EpochOf
<1>2. PICK b \in Int : b = q * M
  BY <1>1
<1>3. PICK o \in Int : o = Minus(n, i) % M /\ 0 <= o /\ o < M
  <2>1. Minus(n, i) % M = (n - i) % M
    BY <1>0, MinusIs
  <2>2. QED
    BY <1>0, <2>1, DivMod, Widths
<1>4. PICK e \in Int : e = b + o - c
  BY <1>0
<1>5. -M < e /\ e < M /\ 0 <= b + o /\ b + o < W /\ b + o \in Int
  BY <1>0, <1>1, <1>2, <1>3, <1>4, Widths
<1>6. (b + o) % W = b + o
  <2>1. b + o = 0 * W + (b + o)
    BY <1>5, Widths
  <2>2. QED
    BY <1>5, <2>1, ModUnique, Widths
<1>7. PICK f \in Int : /\ f = (b + o + M) % W
                       /\ f = IF b + o + M < W THEN b + o + M ELSE b + o + M - W
                       /\ \E j \in Int : f - c = (e + M) + j * W
  <2>0. b + o + M \in Int /\ b + o + M < 2 * W
    BY <1>5, Widths
  <2>1. CASE b + o + M < W
    <3>1. b + o + M = 0 * W + (b + o + M) /\ 0 <= b + o + M
      BY <1>5, <2>0, Widths
    <3>2. (b + o + M) % W = b + o + M
      BY <2>0, <2>1, <3>1, ModUnique, Widths
    <3>3. (b + o + M) - c = (e + M) + 0 * W
      BY <1>0, <1>4, Widths
    <3>4. QED
      BY <2>0, <2>1, <3>2, <3>3
  <2>2. CASE ~(b + o + M < W)
    <3>1. b + o + M = 1 * W + (b + o + M - W) /\ 0 <= b + o + M - W /\ b + o + M - W < W
          /\ b + o + M - W \in Int
      BY <1>5, <2>0, <2>2, Widths
    <3>2. (b + o + M) % W = b + o + M - W
      BY <2>0, <3>1, ModUnique, Widths
    <3>3. (b + o + M - W) - c = (e + M) + (-1) * W
      BY <1>0, <1>4, Widths
    <3>4. QED
      BY <2>0, <2>2, <3>1, <3>2, <3>3
  <2>3. QED
    BY <2>1, <2>2
<1>8. Distance(b + o, c) = Magnitude(e)
  <2>1. (b + o) - c = e + 0 * W /\ -2 * M < e /\ e < 2 * M
    BY <1>0, <1>4, <1>5, Widths
  <2>2. QED
    BY <1>0, <1>5, <2>1, DistanceIs
<1>9. Distance(b + o - M, c) = Magnitude(e - M)
  <2>1. /\ (b + o - M) - c = (e - M) + 0 * W /\ -2 * M < e - M /\ e - M < 2 * M
        /\ b + o - M \in Int /\ e - M \in Int
    BY <1>0, <1>4, <1>5, Widths
  <2>2. QED
    BY <1>0, <2>1, DistanceIs
<1>10. Distance(f, c) = Magnitude(e + M)
  <2>1. -2 * M < e + M /\ e + M < 2 * M /\ e + M \in Int
    BY <1>5, Widths
  <2>2. QED
    BY <1>0, <1>7, <2>1, DistanceIs
<1>11. Unwrap(n, i, c) =
         LET best == IF b + o >= M /\ Distance(b + o - M, c) < Distance(b + o, c)
                     THEN b + o - M ELSE b + o
         IN  IF Distance(f, c) < Distance(best, c) THEN f ELSE best
  <2>1. ((c - (c % M)) + (Minus(n, i) % M)) % W = b + o
    BY <1>1, <1>2, <1>3, <1>6, Zenon
  <2>2. ((b + o) + M) % W = f
    BY <1>7
  <2> DEFINE E == ((c - (c % M)) + (Minus(n, i) % M)) % W
             Pick(g, h) == LET best == IF g >= M /\ Distance(g - M, c) < Distance(g, c)
                                       THEN g - M ELSE g
                           IN  IF Distance(h, c) < Distance(best, c) THEN h ELSE best
  <2>3. Unwrap(n, i, c) = Pick(E, (E + M) % W)
    BY Zenon DEF Unwrap
  <2>4. E = b + o /\ (E + M) % W = f
    BY <2>1, <2>2, Zenon
  <2> HIDE DEF E, Pick
  <2>5. Unwrap(n, i, c) = Pick(b + o, f)
    BY <2>3, <2>4, Zenon
  <2>6. QED
    BY <2>5, <1>5, Widths DEF Pick
<1>12. (b + o) - c = e /\ (b + o - M) - c = e - M
  BY <1>0, <1>4, Widths
<1>13. Candidates(Unwrap(n, i, c), c, b, o)
  BY <1>1, <1>2, <1>3, <1>4, <1>7, <1>8, <1>9, <1>10, <1>11, <1>12 DEF Candidates
<1>14. QED
  BY <1>2, <1>3, <1>13

(* A number that wraps to n is a whole number of epochs away from the      *)
(* first candidate, by one epoch, by none, or by two or more.              *)
LEMMA EpochsAway ==
    ASSUME NEW n \in Raw, NEW i \in Int, NEW y \in Int, Wrap(y, i) = n,
           NEW q \in Int, NEW g \in Int, g = q * M + (Minus(n, i) % M)
    PROVE  \/ y = g \/ y = g + M \/ y = g - M \/ y >= g + 2 * M \/ y <= g - 2 * M
<1>1. y % M = Minus(n, i) % M
  BY WrapsToIff
<1>2. PICK p \in Int : y = p * M + (y % M) /\ y % M \in Int
  BY DivMod, Widths
<1>3. PICK o \in Int : o = y % M /\ o = Minus(n, i) % M
  BY <1>1, <1>2
<1>4. PICK k \in Int : k = p - q /\ k * M \in Int /\ y = g + k * M
  <2>1. (p - q) * M = p * M - q * M /\ p * M \in Int /\ q * M \in Int
    BY Widths
  <2>2. QED
    BY <1>2, <1>3, <2>1
<1>5. \/ k = 0 \/ k = 1 \/ k = -1 \/ k >= 2 \/ -2 >= k
  OBVIOUS
<1>6. /\ k = 0 => k * M = 0
      /\ k = 1 => k * M = M
      /\ k = -1 => k * M = -M
  BY Widths
<1>7. k >= 2 => k * M >= 2 * M
  BY TimesAtLeast, Widths
<1>8. -2 >= k => (-2) * M >= k * M
  BY TimesAtLeast, Widths
<1>9. PICK t \in Int : t = k * M /\ y = g + t
  BY <1>4
<1>10. \/ t = 0 \/ t = M \/ t = -M \/ t >= 2 * M \/ t <= -2 * M
  BY <1>5, <1>6, <1>7, <1>8, <1>9, Widths
<1>11. QED
  BY <1>9, <1>10, Widths

(* What unwrap() returns wraps to n again, wherever the checkpoint is: the *)
(* wrapping around 2^64 of the last candidate does no harm.                *)
THEOREM UnwrapWraps ==
    ASSUME NEW n \in Raw, NEW i \in Int, NEW c \in Absolute
    PROVE  Unwrap(n, i, c) \in Absolute /\ Wrap(Unwrap(n, i, c), i) = n
<1>0. c \in Int /\ 0 <= c /\ c < W
  BY Widths DEF Absolute
<1>1. PICK q \in Int : Candidates(Unwrap(n, i, c), c, q * M, Minus(n, i) % M)
  BY UnwrapIs
<1>2. PICK x \in Int, b \in Int, o \in Int :
        /\ x = Unwrap(n, i, c) /\ b = q * M /\ o = Minus(n, i) % M /\ Candidates(x, c, b, o)
  <2>1. q * M \in Int /\ Minus(n, i) % M \in Int
    BY <1>1 DEF Candidates
  <2>2. Unwrap(n, i, c) \in Int
    BY <1>0, <1>1, <2>1, Widths DEF Candidates
  <2>3. QED
    BY <1>1, <2>1, <2>2
<1>3. x \in {b + o, b + o - M, b + o + M, b + o + M - W} /\ 0 <= x /\ x < W
  BY <1>0, <1>2, Widths DEF Candidates
<1>4. K \in Int /\ W = K * M
  BY WidthAssumption DEF W
<1>5. PICK k \in Int : x = o + k * M
  <2>1. (q + 1) * M = q * M + M /\ (q - 1) * M = q * M - M /\ q * M \in Int
    BY Widths
  <2>2. (q + 1 - K) * M = q * M + M - W
    BY <1>4, Widths
  <2>3. CASE x = b + o
    BY <1>2, <2>3, Widths
  <2>4. CASE x = b + o - M
    <3>1. x = o + (q - 1) * M
      BY <1>2, <2>1, <2>4, Widths
    <3>2. QED
      BY <3>1
  <2>5. CASE x = b + o + M
    <3>1. x = o + (q + 1) * M
      BY <1>2, <2>1, <2>5, Widths
    <3>2. QED
      BY <3>1
  <2>6. CASE x = b + o + M - W
    <3>1. x = o + (q + 1 - K) * M /\ q + 1 - K \in Int
      BY <1>2, <1>4, <2>1, <2>2, <2>6, Widths
    <3>2. QED
      BY <3>1
  <2>7. QED
    BY <1>3, <2>3, <2>4, <2>5, <2>6
<1>6. x % M = o % M
  BY <1>5, ModShift, Widths
<1>7. o % M = o
  <2>1. o = 0 * M + o /\ 0 <= o /\ o < M
    BY <1>2, Widths DEF Candidates
  <2>2. QED
    BY <2>1, ModUnique, Widths
<1>8. Wrap(x, i) = n
  BY <1>2, <1>6, <1>7, WrapsToIff
<1>9. QED
  BY <1>2, <1>3, <1>8, Widths DEF Absolute

(* The contract in the comment of unwrap(): the closest number that wraps  *)
(* to n, as long as the checkpoint is not in the last epoch.               *)
THEOREM UnwrapIsClosest ==
    ASSUME NEW n \in Raw, NEW i \in Int, NEW c \in Absolute, c < W - M,
           NEW y \in Absolute, Wrap(y, i) = n
    PROVE  Magnitude(Unwrap(n, i, c) - c) <= Magnitude(y - c)
<1>0. c \in Int /\ 0 <= c /\ c < W /\ y \in Int /\ 0 <= y /\ y < W
  BY Widths DEF Absolute
<1>1. PICK q \in Int : Candidates(Unwrap(n, i, c), c, q * M, Minus(n, i) % M)
  BY UnwrapIs
<1>2. PICK b \in Int, o \in Int :
        b = q * M /\ o = Minus(n, i) % M /\ Candidates(Unwrap(n, i, c), c, b, o)
  BY <1>1 DEF Candidates
<1>3. \/ y = b + o \/ y = b + o + M \/ y = b + o - M \/ y >= b + o + 2 * M \/ y <= b + o - 2 * M
  <2>1. PICK g \in Int : g = b + o /\ g = q * M + (Minus(n, i) % M)
    BY <1>2
  <2>2. \/ y = g \/ y = g + M \/ y = g - M \/ y >= g + 2 * M \/ y <= g - 2 * M
    BY ONLY <1>0, n \in Raw, Wrap(y, i) = n, i \in Int, q \in Int, g \in Int, <2>1, EpochsAway
  <2>3. QED
    BY <2>1, <2>2, Widths
<1>4. PICK x : x = Unwrap(n, i, c)
  OBVIOUS
<1>5. Candidates(x, c, b, o)
  BY <1>2, <1>4, Zenon
<1>6. Magnitude(x - c) <= Magnitude(y - c)
  BY ONLY <1>0, <1>3, <1>5, b \in Int, o \in Int, c < W - M, Widths DEF Candidates, Magnitude
<1>7. QED
  BY <1>4, <1>6, Zenon

(* unwrap() inverts wrap() for every absolute number less than half the    *)
(* number space away from the checkpoint, in the first and last epoch too. *)
THEOREM UnwrapRecovers ==
    ASSUME NEW a \in Absolute, NEW i \in Int, NEW c \in Absolute, Near(a, c)
    PROVE  Unwrap(Wrap(a, i), i, c) = a
<1>0. c \in Int /\ 0 <= c /\ c < W /\ a \in Int /\ 0 <= a /\ a < W
  BY Widths DEF Absolute
<1> DEFINE n == Wrap(a, i)
<1>1. n \in Raw
  BY <1>0, WrapIs
<1>2. PICK q \in Int : Candidates(Unwrap(n, i, c), c, q * M, Minus(n, i) % M)
  BY <1>1, UnwrapIs
<1>3. PICK b \in Int, o \in Int :
        b = q * M /\ o = Minus(n, i) % M /\ Candidates(Unwrap(n, i, c), c, b, o)
  BY <1>2 DEF Candidates
<1>4. \/ a = b + o \/ a = b + o + M \/ a = b + o - M \/ a >= b + o + 2 * M \/ a <= b + o - 2 * M
  <2>1. PICK g \in Int : g = b + o /\ g = q * M + (Minus(n, i) % M)
    BY <1>3
  <2>2. \/ a = g \/ a = g + M \/ a = g - M \/ a >= g + 2 * M \/ a <= g - 2 * M
    BY ONLY <1>0, <1>1, i \in Int, q \in Int, g \in Int, <2>1, EpochsAway
  <2>3. QED
    BY <2>1, <2>2, Widths
<1>5. PICK x : x = Unwrap(n, i, c)
  OBVIOUS
<1>6. Candidates(x, c, b, o)
  BY <1>3, <1>5, Zenon
<1>7. 2 * Magnitude(a - c) < M
  BY Zenon DEF Near
<1>8. x = a
  BY ONLY <1>0, <1>4, <1>6, <1>7, b \in Int, o \in Int, Widths DEF Candidates, Magnitude
<1>9. QED
  BY <1>5, <1>8, Zenon

-----------------------------------------------------------------------------
(* The inductive invariant: the sender's seqno, and the one in every       *)
(* segment in flight, are the wrapped forms of the numbers they stand for. *)
(* RecoveredIsMeant alone says nothing of the segments still to come.      *)
Inv ==
    /\ TypeOK
    /\ seqno = Wrap(sent, isn)
    /\ \A s \in network : s.seqno = Wrap(s.abs, isn)
    /\ RecoveredIsMeant

(* operator+ and operator- step the wrapped form as the number itself.     *)
LEMMA StepsAlong ==
    ASSUME NEW x \in Int, NEW i \in Int, NEW k \in Nat
    PROVE  /\ Plus(Wrap(x, i), k) = Wrap(x + k, i)
           /\ Before(Wrap(x, i), k) = Wrap(x - k, i)
<1>1. PICK y \in Int : y = i + x
  OBVIOUS
<1>2. PICK r \in Int, q \in Int : r = Wrap(x, i) /\ r = y % M /\ y = q * M + r
  BY <1>1, WrapIs, DivMod, Widths
<1>3. PICK t \in Int, p \in Int : t = (-k) % M /\ -k = p * M + t
  <2>1. -k \in Int
    OBVIOUS
  <2>2. QED
    BY <2>1, DivMod, Widths
<1>4. (y + k) % M = (r + k) % M
  <2>1. PICK u \in Int, v \in Int : u = y + k /\ v = r + k
    OBVIOUS
  <2>2. u = v + q * M
    BY <1>2, <2>1, Widths
  <2>3. u % M = v % M
    BY ONLY <2>2, u \in Int, v \in Int, q \in Int, ModShift, Widths
  <2>4. QED
    BY <2>1, <2>3
<1>5. (y - k) % M = (r + t) % M
  <2>1. q * M \in Int /\ p * M \in Int /\ (q + p) * M = q * M + p * M
    BY Widths
  <2>2. y - k = (r + t) + (q + p) * M
    BY <1>2, <1>3, <2>1
  <2>3. PICK u \in Int, v \in Int, j \in Int : u = y - k /\ v = r + t /\ j = q + p
    OBVIOUS
  <2>4. u = v + j * M
    BY <2>2, <2>3
  <2>5. u % M = v % M
    BY ONLY <2>4, u \in Int, v \in Int, j \in Int, ModShift, Widths
  <2>6. QED
    BY <2>3, <2>5
<1>6. Wrap(x + k, i) = (y + k) % M /\ Wrap(x - k, i) = (y - k) % M
  <2>1. x + k \in Int /\ x - k \in Int /\ y + k = i + (x + k) /\ y - k = i + (x - k)
    BY <1>1
  <2>2. QED
    BY <2>1, WrapIs
<1>7. QED
  BY <1>2, <1>3, <1>4, <1>5, <1>6 DEF Plus, Before

(* The connection starts with the invariant: byte 0 wraps to the ISN.      *)
LEMMA InvStart ==
    Init => Inv
<1>1. SUFFICES ASSUME Init PROVE Inv
  OBVIOUS
<1>2. isn \in Raw /\ isn \in Int /\ 0 <= isn /\ isn < M /\ 0 \in Absolute
  BY <1>1, IsnsAssumption, Widths DEF Init, Raw, Absolute
<1>3. Wrap(0, isn) = isn
  <2>1. isn = 0 * M + isn
    BY <1>2, Widths
  <2>2. isn % M = isn
    BY ONLY <1>2, <2>1, ModUnique, Widths, 0 \in Int
  <2>3. Wrap(0, isn) = (isn + 0) % M
    BY <1>2, WrapIs
  <2>4. QED
    BY <1>2, <2>2, <2>3
<1>4. TypeOK
  BY <1>1, <1>2 DEF Init, TypeOK
<1>5. QED
  BY <1>1, <1>3, <1>4 DEF Init, Inv, RecoveredIsMeant

(* Every step keeps it: what the sender numbers is what it means, and what *)
(* the receiver unwraps near its checkpoint is what the segment carried.   *)
LEMMA InvStep ==
    Inv /\ [Next]_vars => Inv'
<1>1. SUFFICES ASSUME Inv, [Next]_vars PROVE Inv'
  OBVIOUS
<1>2. /\ TypeOK /\ seqno = Wrap(sent, isn)
      /\ \A s \in network : s.seqno = Wrap(s.abs, isn)
      /\ RecoveredIsMeant
  BY <1>1 DEF Inv
<1>3. isn \in Int /\ sent \in Int /\ 0 <= sent /\ sent < W
  BY <1>2, Widths DEF TypeOK, Raw, Absolute
<1>4. CASE \E len \in 1..MaxStep : Advance(len)
  <2>1. PICK len \in 1..MaxStep : Advance(len)
    BY <1>4
  <2>2. len \in Nat
    BY BoundsAssumption
  <2>3. seqno' = Wrap(sent', isn')
    BY <1>2, <1>3, <2>1, <2>2, StepsAlong DEF Advance
  <2>4. sent' \in Absolute
    BY <1>3, <2>1, <2>2, Widths DEF Advance, Absolute
  <2>5. seqno' \in Raw
    <3>1. sent' \in Int
      BY <2>4, Widths DEF Absolute
    <3>2. isn' \in Int
      BY <1>3, <2>1 DEF Advance
    <3>3. QED
      BY <2>3, <3>1, <3>2, WrapIs
  <2>6. TypeOK'
    BY <1>2, <2>1, <2>4, <2>5 DEF Advance, TypeOK
  <2>7. QED
    BY <1>2, <2>1, <2>3, <2>6 DEF Advance, Inv, RecoveredIsMeant
<1>5. CASE \E k \in 0..MaxStep : Send(k)
  <2>1. PICK k \in 0..MaxStep : Send(k)
    BY <1>5
  <2>2. k \in Nat /\ sent - k \in Int /\ sent - k \in Absolute
    BY <1>3, <2>1, BoundsAssumption, Widths DEF Send, Absolute
  <2>3. Before(seqno, k) = Wrap(sent - k, isn)
    BY <1>2, <1>3, <2>2, StepsAlong
  <2>4. Before(seqno, k) \in Raw
    BY <1>3, <2>2, <2>3, WrapIs
  <2>5. TypeOK'
    BY <1>2, <2>1, <2>2, <2>4 DEF Send, TypeOK, Segment
  <2>6. QED
    BY <1>2, <2>1, <2>3, <2>5 DEF Send, Inv, RecoveredIsMeant
<1>6. CASE \E s \in network : Receive(s)
  <2>1. PICK s \in network : Receive(s)
    BY <1>6
  <2>2. s.abs \in Absolute /\ s.seqno = Wrap(s.abs, isn) /\ checkpoint \in Absolute
    BY <1>2 DEF TypeOK, Segment
  <2>3. Unwrap(s.seqno, isn, checkpoint) = s.abs
    BY <1>3, <2>1, <2>2, UnwrapRecovers DEF Receive
  <2>4. recovered' = [meant |-> s.abs, got |-> s.abs]
    BY <2>1, <2>3 DEF Receive
  <2>5. TypeOK'
    BY <1>2, <2>1, <2>2, <2>4 DEF Receive, TypeOK
  <2>6. QED
    BY <1>2, <2>1, <2>4, <2>5 DEF Receive, Inv, RecoveredIsMeant
<1>7. CASE \E s \in network : Lose(s)
  BY <1>2, <1>7 DEF Lose, Inv, TypeOK, RecoveredIsMeant
<1>8. CASE UNCHANGED vars
  BY <1>2, <1>8 DEF vars, Inv, TypeOK, RecoveredIsMeant
<1>9. QED
  BY <1>1, <1>4, <1>5, <1>6, <1>7, <1>8 DEF Next

(* For every width of the numbers, every ISN and every order of delivery,  *)
(* unwrap() gives the receiver the number the sender meant.                *)
THEOREM RecoveredIsMeantCorrect ==
    Spec => []RecoveredIsMeant
<1>1. Inv => RecoveredIsMeant
  BY DEF Inv
<1>2. QED
  BY <1>1, InvStart, InvStep, PTL DEF Spec

(* unwrap() meets its comment at every checkpoint a receiver comes to that *)
(* is not in the last epoch of the 64-bit range.                           *)
THEOREM UnwrapClosestCorrect ==
    Spec => []UnwrapClosest
<1>1. Inv => UnwrapClosest
  <2>1. SUFFICES ASSUME Inv, checkpoint < W - M, NEW n \in Raw
                 PROVE  Closest(n, Unwrap(n, isn, checkpoint))
    BY DEF UnwrapClosest
  <2>2. isn \in Int /\ checkpoint \in Absolute
    BY <2>1, Widths DEF Inv, TypeOK, Raw
  <2>3. QED
    BY <2>1, <2>2, UnwrapWraps, UnwrapIsClosest DEF Closest
<1>2. QED
  BY <1>1, InvStart, InvStep, PTL DEF Spec

-----------------------------------------------------------------------------
(* FileDescriptor and Socket: handles, wrappers, kernel numbers and kinds. *)

(* A wrapper has a number from when it is made and is not closed before.   *)
Fresh ==
    /\ \A w \in 1..made : fd[w] \in Number
    /\ \A w \in Wrapper : w > made => ~closed[w]

(* close() was called a second time on closed wrappers only. *)
Again == \A w \in reclosed : closed[w]

LifeInv == LifeTypeOK /\ Fresh /\ Again /\ Owned /\ NoLeak

SocketInv == SocketTypeOK /\ LifeInv /\ KindHolds

-----------------------------------------------------------------------------
(* The typing facts that every step of the proofs below uses. *)
LEMMA Typed ==
    ASSUME LifeInv
    PROVE  /\ made \in Nat /\ made <= MaxOpen /\ MaxOpen \in Nat
           /\ 1..made \subseteq Wrapper
           /\ \A h \in Handle : WrapperOf(h) # None => WrapperOf(h) \in 1..made
           /\ \A n \in Number : owner[n] # None => owner[n] \in 1..made
           /\ failed \subseteq 1..made /\ reclosed \subseteq 1..made
           /\ None \notin Number
  BY LifeAssumption DEF LifeInv, LifeTypeOK, Wrapper, None, WrapperOf

(* A handle that is set shows that its wrapper is in use. *)
LEMMA InUse ==
    ASSUME NEW h \in Handle
    PROVE  h \in Handles(WrapperOf(h))
  BY DEF Handles, WrapperOf

(* FDWrapper::close() on a wrapper in use, where a second call has been    *)
(* recorded: whoever loses its number by it is not the first to be struck, *)
(* or has the number of the wrapper that is closed once too often.         *)
LEMMA CloseNumberKeeps ==
    ASSUME LifeInv, NEW w \in 1..made, Handles(w) # {}, CloseNumber(w),
           UNCHANGED <<made, fd>>,
           reclosed' = IF closed[w] THEN reclosed \cup {w} ELSE reclosed
    PROVE  /\ LifeTypeOK' <=> (internal_fd' \in [Handle -> 0..made])
           /\ Fresh' /\ Again'
           /\ \A v \in 1..made :
                  Handles(v) # {} /\ ~closed'[v] /\ v \notin failed' /\ owner'[fd[v]] # v
                      => \E x \in failed' \cup reclosed' : fd[x] = fd[v]
           /\ \A n \in Number : owner'[n] # None =>
                  /\ owner'[n] = owner[n] /\ owner[n] # w
                  /\ ~closed'[owner'[n]] /\ fd[owner'[n]] = n
<1>1. /\ fd[w] \in Number /\ w \in Wrapper
      /\ owner \in [Number -> 0..made] /\ closed \in [Wrapper -> BOOLEAN]
      /\ eof \in [Wrapper -> BOOLEAN]
  BY Typed DEF LifeInv, Fresh, LifeTypeOK
<1>2. /\ owner' = [owner EXCEPT ![fd[w]] = None]
      /\ \/ owner[fd[w]] # None /\ SetFlags(w) /\ UNCHANGED failed
         \/ failed' = failed \cup {w} /\ UNCHANGED <<closed, eof>>
  BY DEF CloseNumber
<1>3. \A v \in Wrapper : v # w => closed'[v] = closed[v]
  BY <1>1, <1>2 DEF SetFlags
<1>4. owner' \in [Number -> 0..made] /\ owner'[fd[w]] = None
  BY <1>1, <1>2, Typed DEF None
<1>5. closed' \in [Wrapper -> BOOLEAN] /\ eof' \in [Wrapper -> BOOLEAN]
  BY <1>1, <1>2 DEF SetFlags
<1>6. \A v \in Wrapper : closed'[v] => eof'[v]
  BY <1>1, <1>2 DEF SetFlags, LifeInv, LifeTypeOK
<1>7. /\ failed' \subseteq 1..made /\ reclosed' \subseteq 1..made
      /\ failed \cup reclosed \subseteq failed' \cup reclosed'
  BY <1>2, Typed
<1>8. LifeTypeOK' <=> (internal_fd' \in [Handle -> 0..made])
  BY <1>4, <1>5, <1>6, <1>7 DEF LifeInv, LifeTypeOK
<1>9. Fresh'
  BY <1>3, Typed DEF LifeInv, Fresh
<1>10. Again'
  BY <1>1, <1>2, <1>3, Typed DEF LifeInv, Again, SetFlags
<1>11. ASSUME NEW v \in 1..made, Handles(v) # {}, ~closed'[v], v \notin failed', owner'[fd[v]] # v
       PROVE  \E x \in failed' \cup reclosed' : fd[x] = fd[v]
  <2>1. v # w
    BY <1>1, <1>2, <1>11 DEF SetFlags
  <2>2. ~closed[v] /\ v \notin failed /\ fd[v] \in Number
    BY <1>2, <1>3, <1>11, <2>1, Typed DEF LifeInv, Fresh
  <2>3. CASE owner[fd[v]] # v
    BY <1>7, <1>11, <2>2, <2>3 DEF LifeInv, Owned
  <2>4. CASE owner[fd[v]] = v
    <3>1. fd[v] = fd[w]
      BY <1>1, <1>2, <1>11, <2>2, <2>4
    <3>2. CASE closed[w]
      BY <3>1, <3>2
    <3>3. CASE ~closed[w] /\ w \notin failed
      BY <1>7, <2>1, <2>4, <3>1, <3>3 DEF LifeInv, Owned
    <3>4. CASE w \in failed
      BY <1>7, <3>1, <3>4
    <3>5. QED
      BY <3>2, <3>3, <3>4
  <2>5. QED
    BY <2>3, <2>4
<1>12. ASSUME NEW n \in Number, owner'[n] # None
       PROVE  /\ owner'[n] = owner[n] /\ owner[n] # w
              /\ ~closed'[owner'[n]] /\ fd[owner'[n]] = n
  <2>1. owner'[n] = owner[n] /\ n # fd[w]
    BY <1>12, <1>1, <1>2, <1>4
  <2>2. ~closed[owner[n]] /\ fd[owner[n]] = n
    BY <1>12, <2>1 DEF LifeInv, NoLeak
  <2>3. owner[n] # w /\ owner[n] \in Wrapper
    BY <1>12, <2>1, <2>2, Typed
  <2>4. QED
    BY <1>3, <2>1, <2>2, <2>3
<1>13. QED
  BY <1>8, <1>9, <1>10, <1>11, <1>12

(* Letting go of a handle, with the destructor of FDWrapper if it was the  *)
(* last one.  What the handles refer to afterwards is up to the caller, as *)
(* long as the wrappers in use are those the other handles refer to.       *)
LEMMA ReleaseKeeps ==
    ASSUME LifeInv, NEW g \in Handle, Release(g), UNCHANGED <<made, fd, reclosed>>,
           internal_fd' \in [Handle -> 0..made],
           \A v \in 1..made : Handles(v)' # {} <=> Handles(v) \ {g} # {}
    PROVE  LifeInv'
<1>1. CASE UNCHANGED <<closed, eof, owner, failed>> /\ WrapperOf(g) = None
  <2>1. \A v \in 1..made : Handles(v) \ {g} = Handles(v)
    BY <1>1 DEF Handles, WrapperOf, None
  <2>2. LifeTypeOK' /\ Fresh' /\ Again'
    BY <1>1 DEF LifeInv, LifeTypeOK, Fresh, Again
  <2>3. Owned'
    BY <1>1, <2>1 DEF LifeInv, Owned
  <2>4. NoLeak'
    BY <1>1, <2>1, Typed DEF LifeInv, NoLeak
  <2>5. QED
    BY <2>2, <2>3, <2>4 DEF LifeInv
<1>2. CASE /\ UNCHANGED <<closed, eof, owner, failed>> /\ WrapperOf(g) # None
           /\ Handles(WrapperOf(g)) # {g} \/ closed[WrapperOf(g)]
  <2>1. \A v \in 1..made : Handles(v) # {} /\ ~closed[v] => Handles(v) \ {g} # {}
    BY <1>2, InUse DEF Handles, WrapperOf
  <2>2. LifeTypeOK' /\ Fresh' /\ Again'
    BY <1>2 DEF LifeInv, LifeTypeOK, Fresh, Again
  <2>3. Owned'
    BY <1>2 DEF LifeInv, Owned
  <2>4. NoLeak'
    BY <1>2, <2>1, Typed DEF LifeInv, NoLeak
  <2>5. QED
    BY <2>2, <2>3, <2>4 DEF LifeInv
<1>3. CASE /\ WrapperOf(g) # None /\ Handles(WrapperOf(g)) = {g}
           /\ ~closed[WrapperOf(g)] /\ CloseNumber(WrapperOf(g))
  <2>0. PICK w \in 1..made : w = WrapperOf(g)
    BY <1>3, Typed
  <2>1. Handles(w) # {} /\ Handles(w)' = {}
    BY <1>3, <2>0
  <2>2. \A v \in 1..made : v # w => Handles(v) \ {g} = Handles(v)
    BY <2>0 DEF Handles, WrapperOf
  <2>3. /\ LifeTypeOK' /\ Fresh' /\ Again'
        /\ \A v \in 1..made :
              Handles(v) # {} /\ ~closed'[v] /\ v \notin failed' /\ owner'[fd[v]] # v
                  => \E x \in failed' \cup reclosed' : fd[x] = fd[v]
        /\ \A n \in Number : owner'[n] # None =>
              /\ owner'[n] = owner[n] /\ owner[n] # w
              /\ ~closed'[owner'[n]] /\ fd[owner'[n]] = n
    BY <1>3, <2>0, <2>1, CloseNumberKeeps
  <2>4. Owned'
    BY <2>1, <2>2, <2>3 DEF Owned
  <2>5. NoLeak'
    BY <2>1, <2>2, <2>3, Typed DEF LifeInv, NoLeak
  <2>6. QED
    BY <2>3, <2>4, <2>5 DEF LifeInv
<1>4. QED
  BY <1>1, <1>2, <1>3 DEF Release, Destroy

-----------------------------------------------------------------------------
(* FileDescriptor::FileDescriptor(fd) around a number the kernel has free. *)
LEMMA ConstructKeeps ==
    ASSUME LifeInv, NEW h \in Handle, Construct(h)
    PROVE  /\ LifeInv' /\ made + 1 \in Wrapper /\ made' = made + 1
           /\ WrapperOf(h)' = made + 1 /\ \A g \in Handle \ {h} : WrapperOf(g)' = WrapperOf(g)
<1>0. PICK w \in Nat : w = made + 1
  BY Typed
<1>1. PICK n \in Number : /\ owner[n] = None
                          /\ owner' = [owner EXCEPT ![n] = w]
                          /\ fd' = [fd EXCEPT ![w] = n]
                          /\ made < MaxOpen /\ made' = w
  BY <1>0 DEF Construct, FDWrapper
<1>2. /\ WrapperOf(h) = None /\ made < MaxOpen /\ made' = w
      /\ internal_fd' = [internal_fd EXCEPT ![h] = w]
      /\ UNCHANGED <<closed, eof, failed, reclosed>>
  BY <1>0, <1>1 DEF Construct
<1>3. /\ w \in Wrapper /\ w \notin 1..made /\ 1..w = 1..made \cup {w}
      /\ 0..made \subseteq 0..w /\ w \in 0..w
  BY <1>0, <1>2, Typed DEF Wrapper
<1>4. /\ internal_fd \in [Handle -> 0..made] /\ fd \in [Wrapper -> Number \cup {None}]
      /\ closed \in [Wrapper -> BOOLEAN] /\ owner \in [Number -> 0..made]
  BY DEF LifeInv, LifeTypeOK
<1>5. internal_fd' \in [Handle -> 0..w] /\ owner' \in [Number -> 0..w]
  BY <1>1, <1>2, <1>3, <1>4
<1>6. fd' \in [Wrapper -> Number \cup {None}]
  BY <1>1, <1>4
<1>7. failed \subseteq 1..w /\ reclosed \subseteq 1..w /\ w \in 0..MaxOpen
  BY <1>2, <1>3, Typed
<1>8. LifeTypeOK'
  BY <1>2, <1>5, <1>6, <1>7 DEF LifeInv, LifeTypeOK
<1>9. \A v \in 1..made : v \in Wrapper /\ fd'[v] = fd[v]
  BY <1>1, <1>3, <1>4, Typed
<1>10. fd'[w] = n /\ ~closed[w] /\ owner'[n] = w
  BY <1>1, <1>2, <1>3, <1>4, Typed DEF LifeInv, Fresh
<1>11. Fresh'
  BY <1>2, <1>3, <1>9, <1>10, Typed DEF LifeInv, Fresh, Wrapper
<1>12. Handles(w)' = {h} /\ \A v \in 1..made : Handles(v)' = Handles(v)
  BY <1>2, <1>3, <1>4, Typed DEF Handles, WrapperOf, None
<1>13. Again' /\ Owned'
  <2>1. Again'
    BY <1>2 DEF LifeInv, Again
  <2> SUFFICES ASSUME NEW v \in 1..made, Handles(v) # {}, ~closed[v], v \notin failed,
                      owner'[fd[v]] # v
               PROVE  \E x \in failed \cup reclosed : fd[x] = fd[v]
    BY <1>2, <1>3, <1>9, <1>10, <1>12, <2>1, Typed DEF Owned
  <2>2. fd[v] \in Number /\ v # None
    BY DEF LifeInv, Fresh, None
  <2>3. owner[fd[v]] # v
    BY <1>1, <1>4, <2>2
  <2>4. QED
    BY <2>3 DEF LifeInv, Owned
<1>14. NoLeak'
  <2> SUFFICES ASSUME NEW m \in Number, NEW v \in 1..made, owner[m] = v, m # n
               PROVE  Handles(v)' # {} /\ ~closed[v] /\ fd'[v] = m
    BY <1>1, <1>2, <1>4, <1>10, <1>12, Typed DEF NoLeak
  <2>1. v # None
    BY DEF None
  <2>2. QED
    BY <1>9, <1>12, <2>1 DEF LifeInv, NoLeak
<1>15. \A g \in Handle \ {h} : internal_fd'[g] = internal_fd[g]
  BY <1>2, <1>4
<1>16. internal_fd'[h] = w
  BY <1>2, <1>4
<1>17. QED
  BY <1>0, <1>2, <1>3, <1>8, <1>11, <1>13, <1>14, <1>15, <1>16 DEF LifeInv, WrapperOf

(* FileDescriptor::duplicate() *)
LEMMA DuplicateKeeps ==
    ASSUME LifeInv, NEW h \in Handle, NEW g \in Handle, Duplicate(h, g)
    PROVE  LifeInv'
<1>1. /\ WrapperOf(h) # None /\ WrapperOf(g) = None
      /\ internal_fd' = [internal_fd EXCEPT ![g] = WrapperOf(h)]
      /\ UNCHANGED <<made, fd, closed, eof, owner, failed, reclosed>>
  BY DEF Duplicate
<1>2. internal_fd \in [Handle -> 0..made] /\ WrapperOf(h) \in 0..made
  BY DEF LifeInv, LifeTypeOK, WrapperOf
<1>3. LifeTypeOK' /\ Fresh' /\ Again'
  BY <1>1, <1>2 DEF LifeInv, LifeTypeOK, Fresh, Again
<1>4. \A v \in 1..made : Handles(v)' # {} <=> Handles(v) # {}
  BY <1>1, <1>2, Typed DEF Handles, WrapperOf, None
<1>5. Owned' /\ NoLeak'
  BY <1>1, <1>4, Typed DEF LifeInv, Owned, NoLeak
<1>6. QED
  BY <1>3, <1>5 DEF LifeInv

(* The move assignment, which may destroy what the target had. *)
LEMMA MoveKeeps ==
    ASSUME LifeInv, NEW h \in Handle, NEW g \in Handle, Move(h, g)
    PROVE  LifeInv'
<1>1. /\ h # g /\ WrapperOf(h) # None /\ Release(g) /\ UNCHANGED <<made, fd, reclosed>>
      /\ internal_fd' = [internal_fd EXCEPT ![g] = WrapperOf(h), ![h] = None]
  BY DEF Move
<1>2. internal_fd \in [Handle -> 0..made] /\ WrapperOf(h) \in 0..made /\ None \in 0..made
  BY Typed DEF LifeInv, LifeTypeOK, WrapperOf, None
<1>3. internal_fd' \in [Handle -> 0..made]
  BY <1>1, <1>2
<1>4. \A v \in 1..made : Handles(v)' # {} <=> Handles(v) \ {g} # {}
  BY <1>1, <1>2 DEF Handles, WrapperOf, None
<1>5. QED
  BY <1>1, <1>3, <1>4, ReleaseKeeps

(* ~FileDescriptor() *)
LEMMA DropKeeps ==
    ASSUME LifeInv, NEW h \in Handle, Drop(h)
    PROVE  LifeInv'
<1>1. /\ WrapperOf(h) # None /\ Release(h) /\ UNCHANGED <<made, fd, reclosed>>
      /\ internal_fd' = [internal_fd EXCEPT ![h] = None]
  BY DEF Drop
<1>2. internal_fd \in [Handle -> 0..made] /\ None \in 0..made
  BY Typed DEF LifeInv, LifeTypeOK, None
<1>3. internal_fd' \in [Handle -> 0..made]
  BY <1>1, <1>2
<1>4. \A v \in 1..made : Handles(v)' = Handles(v) \ {h}
  BY <1>1, <1>2 DEF Handles, None
<1>5. QED
  BY <1>1, <1>3, <1>4, ReleaseKeeps

(* FileDescriptor::close() *)
LEMMA CloseKeeps ==
    ASSUME LifeInv, NEW h \in Handle, Close(h)
    PROVE  LifeInv'
<1>0. PICK w \in 1..made : w = WrapperOf(h)
  BY Typed DEF Close
<1>1. /\ CloseNumber(w) /\ UNCHANGED <<internal_fd, made, fd>>
      /\ reclosed' = IF closed[w] THEN reclosed \cup {w} ELSE reclosed
  BY <1>0 DEF Close
<1>2. Handles(w) # {} /\ \A v \in 1..made : Handles(v)' = Handles(v)
  BY <1>0, <1>1, InUse DEF Handles
<1>3. internal_fd' \in [Handle -> 0..made]
  BY <1>1 DEF LifeInv, LifeTypeOK
<1>4. LifeTypeOK' /\ Fresh' /\ Again'
  BY <1>1, <1>2, <1>3, CloseNumberKeeps
<1>5. Owned'
  BY <1>1, <1>2, CloseNumberKeeps DEF Owned
<1>6. NoLeak'
  <2> SUFFICES ASSUME NEW n \in Number, NEW v \in 1..made, owner'[n] = v
               PROVE  Handles(v)' # {} /\ ~closed'[v] /\ fd'[v] = n
    BY <1>1, <1>4, LifeAssumption DEF NoLeak, LifeTypeOK, None
  <2>1. owner[n] = v /\ ~closed'[v] /\ fd[v] = n
    BY <1>1, <1>2, CloseNumberKeeps DEF None
  <2>2. QED
    BY <1>1, <1>2, <2>1 DEF LifeInv, NoLeak, None
<1>7. QED
  BY <1>4, <1>5, <1>6 DEF LifeInv

-----------------------------------------------------------------------------
(* A constructor that throws: the number is free again before anybody sees *)
(* it.                                                                     *)
LEMMA InVainKeeps ==
    ASSUME LifeInv, ConstructInVain
    PROVE  /\ LifeInv' /\ made' = made + 1 /\ UNCHANGED <<internal_fd, owner>>
           /\ \A v \in 1..made : fd'[v] = fd[v]
<1>0. PICK w \in Nat : w = made + 1
  BY Typed
<1>1. PICK n \in Number : /\ owner[n] = None /\ fd' = [fd EXCEPT ![w] = n]
                          /\ made < MaxOpen /\ made' = w
  BY <1>0 DEF ConstructInVain, FDWrapper
<1>2. /\ made < MaxOpen /\ made' = w /\ UNCHANGED <<internal_fd, owner, reclosed>>
      /\ \/ SetFlags(w) /\ UNCHANGED failed
         \/ failed' = failed \cup {w} /\ UNCHANGED <<closed, eof>>
  BY <1>0, <1>1 DEF ConstructInVain
<1>3. /\ w \in Wrapper /\ w \notin 1..made /\ 1..w = 1..made \cup {w}
      /\ 0..made \subseteq 0..w
  BY <1>0, <1>2, Typed DEF Wrapper
<1>4. /\ internal_fd \in [Handle -> 0..made] /\ fd \in [Wrapper -> Number \cup {None}]
      /\ closed \in [Wrapper -> BOOLEAN] /\ eof \in [Wrapper -> BOOLEAN]
      /\ owner \in [Number -> 0..made]
  BY DEF LifeInv, LifeTypeOK
<1>5. internal_fd' \in [Handle -> 0..w] /\ owner' \in [Number -> 0..w]
  BY <1>2, <1>3, <1>4
<1>6. fd' \in [Wrapper -> Number \cup {None}]
  BY <1>1, <1>4
<1>7. /\ closed' \in [Wrapper -> BOOLEAN] /\ eof' \in [Wrapper -> BOOLEAN]
      /\ \A v \in Wrapper : closed'[v] => eof'[v]
  BY <1>2, <1>4 DEF LifeInv, LifeTypeOK, SetFlags
<1>8. /\ failed' \subseteq 1..w /\ reclosed \subseteq 1..w /\ reclosed \subseteq 1..made
      /\ failed \subseteq failed' /\ failed \subseteq 1..made /\ w \in 0..MaxOpen
  BY <1>0, <1>2, <1>3, Typed
<1>9. LifeTypeOK'
  BY <1>2, <1>5, <1>6, <1>7, <1>8 DEF LifeTypeOK
<1>10. \A v \in Wrapper \ {w} : closed'[v] = closed[v] /\ fd'[v] = fd[v]
  BY <1>1, <1>2, <1>3, <1>4 DEF SetFlags
<1>11. fd'[w] = n
  BY <1>1, <1>3, <1>4
<1>12. Fresh'
  BY <1>0, <1>2, <1>3, <1>10, <1>11, Typed DEF LifeInv, Fresh, Wrapper
<1>13. Handles(w)' = {} /\ \A v \in 1..made : Handles(v)' = Handles(v) /\ v \in Wrapper \ {w}
  BY <1>2, <1>3, <1>4, <1>0, Typed DEF Handles, None
<1>14. Again' /\ Owned'
  <2>1. Again'
    BY <1>2, <1>8, <1>10, <1>13 DEF LifeInv, Again
  <2> SUFFICES ASSUME NEW v \in 1..made, Handles(v) # {}, ~closed[v], v \notin failed,
                      owner[fd[v]] # v
               PROVE  \E x \in failed \cup reclosed : fd[x] = fd[v] /\ fd'[x] = fd[x]
    BY <1>2, <1>3, <1>8, <1>10, <1>13, <2>1 DEF Owned
  <2>2. PICK x \in failed \cup reclosed : fd[x] = fd[v]
    BY DEF LifeInv, Owned
  <2>3. QED
    BY <1>8, <1>10, <1>13, <2>2
<1>15. NoLeak'
  <2> SUFFICES ASSUME NEW m \in Number, NEW v \in 1..made, owner[m] = v
               PROVE  Handles(v)' # {} /\ ~closed'[v] /\ fd'[v] = m
    BY <1>2, Typed DEF NoLeak
  <2>1. QED
    BY <1>10, <1>13 DEF LifeInv, NoLeak, None
<1>16. QED
  BY <1>0, <1>2, <1>9, <1>10, <1>12, <1>13, <1>14, <1>15 DEF LifeInv

(* Socket(FileDescriptor &&, domain, type) once the kind is verified. *)
LEMMA FromDescriptorKeeps ==
    ASSUME LifeInv, NEW h \in Handle, NEW g \in Handle, FromDescriptor(g, h)
    PROVE  LifeInv'
<1>1. /\ WrapperOf(h) = None /\ WrapperOf(g) # None
      /\ internal_fd' = [internal_fd EXCEPT ![h] = WrapperOf(g), ![g] = None]
      /\ UNCHANGED <<made, fd, closed, eof, owner, failed, reclosed>>
  BY DEF FromDescriptor
<1>2. internal_fd \in [Handle -> 0..made] /\ WrapperOf(g) \in 0..made /\ None \in 0..made
  BY Typed DEF LifeInv, LifeTypeOK, WrapperOf, None
<1>3. internal_fd' \in [Handle -> 0..made]
  BY <1>1, <1>2
<1>4. LifeTypeOK' /\ Fresh' /\ Again'
  BY <1>1, <1>3 DEF LifeInv, LifeTypeOK, Fresh, Again
<1>5. \A v \in 1..made : Handles(v)' # {} <=> Handles(v) # {}
  BY <1>1, <1>2 DEF Handles, WrapperOf, None
<1>6. Owned' /\ NoLeak'
  BY <1>1, <1>5, Typed DEF LifeInv, Owned, NoLeak
<1>7. QED
  BY <1>4, <1>6 DEF LifeInv

-----------------------------------------------------------------------------
(* Neither a destructor nor close() gives a wrapper a number. *)
LEMMA NumbersGo ==
    ASSUME LifeInv, NEW h \in Handle,
           Release(h) \/ Close(h) \/ UNCHANGED owner, UNCHANGED fd
    PROVE  \A v \in 1..made : owner'[fd'[v]] = v => owner[fd[v]] = v
<1>1. owner \in [Number -> 0..made] /\ \A v \in 1..made : fd[v] \in Number /\ v # None
  BY DEF LifeInv, LifeTypeOK, Fresh, None
<1>2. UNCHANGED owner \/ \E w \in 1..made : owner' = [owner EXCEPT ![fd[w]] = None]
  BY Typed DEF Release, Destroy, Close, CloseNumber
<1>3. QED
  BY <1>1, <1>2

(* KindHolds survives a step that gives no wrapper a number and after      *)
(* which every socket handle refers to a wrapper that a handle of its      *)
(* class referred to before.                                               *)
LEMMA KindInherited ==
    ASSUME SocketInv, UNCHANGED kind,
           \A v \in 1..made : owner'[fd'[v]] = v => owner[fd[v]] = v,
           \A h \in Handle : Class[h] \in Sockets /\ WrapperOf(h)' # None =>
               \E g \in Handle : Class[g] = Class[h] /\ WrapperOf(h)' = WrapperOf(g)
    PROVE  KindHolds'
<1> SUFFICES ASSUME NEW h \in Handle, Class[h] \in Sockets,
                    WrapperOf(h)' # None, Target(h)' = WrapperOf(h)'
             PROVE  kind[WrapperOf(h)'] = KindOf(Class[h])
  BY DEF KindHolds
<1>1. PICK g \in Handle : Class[g] = Class[h] /\ WrapperOf(h)' = WrapperOf(g)
  OBVIOUS
<1>2. WrapperOf(g) \in 1..made
  BY <1>1, Typed DEF SocketInv
<1>3. Target(g) = WrapperOf(g)
  BY <1>1, <1>2 DEF Target
<1>4. QED
  BY <1>1, <1>2, <1>3 DEF SocketInv, KindHolds

(* A handle whose wrapper is made in this step, around a number of kind k. *)
LEMMA OpensKeeps ==
    ASSUME SocketInv, NEW h \in Handle, NEW k \in {UDPKind, TCPKind, LocalKind, NoKind},
           Opens(h, k), counted' \subseteq counted \cup 1..made,
           Class[h] \in Sockets => k = KindOf(Class[h])
    PROVE  SocketInv'
<1>0. PICK w \in Wrapper : w = made + 1
  BY ConstructKeeps DEF Opens, SocketInv
<1>1. /\ LifeInv /\ LifeInv' /\ made' = w /\ WrapperOf(h)' = w
      /\ \A g \in Handle \ {h} : WrapperOf(g)' = WrapperOf(g)
  BY <1>0, ConstructKeeps DEF Opens, SocketInv
<1>2. /\ kind' = [kind EXCEPT ![w] = k] /\ UNCHANGED <<listening, closed, failed>>
      /\ kind \in [Wrapper -> {UDPKind, TCPKind, LocalKind, NoKind}]
      /\ listening \subseteq 1..made /\ counted \subseteq 1..made
  BY <1>0 DEF Opens, Construct, SocketInv, SocketTypeOK
<1>3. kind' \in [Wrapper -> {UDPKind, TCPKind, LocalKind, NoKind}]
  BY <1>2
<1>4. 1..made \subseteq 1..w /\ w \notin 1..made
  BY <1>0, <1>1, Typed
<1>5. SocketTypeOK'
  BY <1>1, <1>2, <1>3, <1>4 DEF SocketTypeOK, LifeInv
<1>6. kind'[w] = k /\ \A v \in 1..made : kind'[v] = kind[v]
  BY <1>1, <1>2, <1>4, Typed
<1>7. \A v \in 1..made : owner'[fd'[v]] = v => owner[fd[v]] = v
  <2>1. PICK n \in Number : /\ owner' = [owner EXCEPT ![n] = w] /\ fd' = [fd EXCEPT ![w] = n]
    BY <1>0 DEF Opens, Construct, FDWrapper
  <2>2. /\ owner \in [Number -> 0..made] /\ fd \in [Wrapper -> Number \cup {None}]
        /\ \A v \in 1..made : fd[v] \in Number
    BY <1>1 DEF LifeInv, LifeTypeOK, Fresh
  <2>3. \A v \in 1..made : fd'[v] = fd[v]
    BY <1>1, <1>4, <2>1, <2>2, Typed
  <2>4. QED
    BY <1>4, <2>1, <2>2, <2>3
<1>8. KindHolds'
  <2> SUFFICES ASSUME NEW g \in Handle, Class[g] \in Sockets,
                      WrapperOf(g)' # None, Target(g)' = WrapperOf(g)'
               PROVE  kind'[WrapperOf(g)'] = KindOf(Class[g])
    BY DEF KindHolds
  <2>1. CASE g = h
    BY <1>1, <1>6, <2>1
  <2>2. CASE g # h
    <3>1. WrapperOf(g)' = WrapperOf(g) /\ WrapperOf(g) \in 1..made
      BY <1>1, <2>2, Typed
    <3>2. Target(g) = WrapperOf(g)
      BY <1>7, <3>1 DEF Target
    <3>3. QED
      BY <1>6, <3>1, <3>2 DEF SocketInv, KindHolds
  <2>3. QED
    BY <2>1, <2>2
<1>9. QED
  BY <1>1, <1>5, <1>8 DEF SocketInv

-----------------------------------------------------------------------------
(* The operations a FileDescriptor has in any class. *)
LEMMA InheritedKeeps ==
    ASSUME SocketInv, Inherited, UNCHANGED socketVars
    PROVE  SocketInv'
<1>0. LifeInv /\ SocketTypeOK /\ UNCHANGED <<kind, listening, counted>>
  BY DEF SocketInv, socketVars
<1>1. ASSUME LifeInv', made' = made, KindHolds'
      PROVE  SocketInv'
  BY <1>0, <1>1 DEF SocketInv, SocketTypeOK, LifeInv
<1>2. internal_fd \in [Handle -> 0..made]
  BY <1>0 DEF LifeInv, LifeTypeOK
<1>3. ASSUME NEW h \in Handle, Drop(h)
      PROVE  SocketInv'
  <2>1. \A f \in Handle : WrapperOf(f)' # None => WrapperOf(f)' = WrapperOf(f)
    BY <1>2, <1>3 DEF Drop, WrapperOf
  <2>2. KindHolds'
    BY <1>0, <1>3, <2>1, NumbersGo, KindInherited DEF Drop
  <2>3. QED
    BY <1>0, <1>1, <1>3, <2>2, DropKeeps DEF Drop
<1>4. ASSUME NEW h \in Handle, Close(h)
      PROVE  SocketInv'
  <2>1. UNCHANGED fd /\ \A f \in Handle : WrapperOf(f)' = WrapperOf(f)
    BY <1>4 DEF Close, WrapperOf
  <2>2. KindHolds'
    BY <1>0, <1>4, <2>1, NumbersGo, KindInherited
  <2>3. QED
    BY <1>0, <1>1, <1>4, <2>2, CloseKeeps DEF Close
<1>5. ASSUME NEW h \in Handle, NEW g \in Handle, Plain(g), Duplicate(h, g)
      PROVE  SocketInv'
  <2>1. \A f \in Handle : Class[f] \in Sockets => WrapperOf(f)' = WrapperOf(f)
    BY <1>2, <1>5 DEF Duplicate, WrapperOf, Plain, Sockets
  <2>2. KindHolds'
    BY <1>0, <1>5, <2>1, NumbersGo, KindInherited DEF Duplicate
  <2>3. QED
    BY <1>0, <1>1, <1>5, <2>2, DuplicateKeeps DEF Duplicate
<1>6. ASSUME NEW h \in Handle, NEW g \in Handle, Plain(g) \/ Class[g] = Class[h], Move(h, g)
      PROVE  SocketInv'
  <2>1. /\ WrapperOf(g)' = WrapperOf(h)
        /\ \A f \in Handle \ {g} : WrapperOf(f)' # None => WrapperOf(f)' = WrapperOf(f)
    BY <1>2, <1>6 DEF Move, WrapperOf
  <2>2. \A f \in Handle : Class[f] \in Sockets /\ WrapperOf(f)' # None =>
            \E e \in Handle : Class[e] = Class[f] /\ WrapperOf(f)' = WrapperOf(e)
    BY <1>6, <2>1 DEF Plain, Sockets
  <2>3. KindHolds'
    BY <1>0, <1>6, <2>2, NumbersGo, KindInherited DEF Move
  <2>4. QED
    BY <1>0, <1>1, <1>6, <2>3, MoveKeeps DEF Move
<1>7. QED
  BY <1>3, <1>4, <1>5, <1>6 DEF Inherited

(* Steps that concern the kernel's and accept()'s marks only. *)
LEMMA MarksKeep ==
    ASSUME SocketInv, UNCHANGED <<lifeVars, kind>>,
           listening' \subseteq 1..made, counted' \subseteq 1..made
    PROVE  SocketInv'
<1>1. UNCHANGED <<internal_fd, made, fd, closed, eof, owner, failed, reclosed, kind>>
  BY DEF lifeVars
<1>2. LifeTypeOK'
  BY <1>1 DEF SocketInv, LifeInv, LifeTypeOK
<1>3. Fresh' /\ Again'
  BY <1>1 DEF SocketInv, LifeInv, Fresh, Again
<1>4. Owned' /\ NoLeak'
  BY <1>1 DEF SocketInv, LifeInv, Owned, NoLeak, Handles
<1>5. KindHolds'
  BY <1>1 DEF SocketInv, KindHolds, WrapperOf, Target
<1>6. QED
  BY <1>1, <1>2, <1>3, <1>4, <1>5 DEF SocketInv, SocketTypeOK, LifeInv

(* A Socket constructed from a FileDescriptor: the kernel was asked about  *)
(* the number, which matters if the number is the wrapper's own.           *)
LEMMA AdoptKeeps ==
    ASSUME SocketInv, NEW h \in Handle, NEW g \in Handle, FromDescriptor(g, h)
    PROVE  SocketInv'
<1>1. /\ Class[h] \in Sockets /\ Plain(g) /\ WrapperOf(g) # None /\ Verified(h, WrapperOf(g))
      /\ internal_fd' = [internal_fd EXCEPT ![h] = WrapperOf(g), ![g] = None]
      /\ UNCHANGED <<made, fd, owner, kind, listening, counted>>
  BY DEF FromDescriptor, socketVars
<1>2. LifeInv' /\ SocketTypeOK'
  BY <1>1, FromDescriptorKeeps DEF SocketInv, SocketTypeOK, LifeInv
<1>3. internal_fd \in [Handle -> 0..made] /\ g # h
  BY <1>1 DEF SocketInv, LifeInv, LifeTypeOK, Plain, Sockets
<1>4. WrapperOf(h)' = WrapperOf(g) /\ \A f \in Handle \ {h} : WrapperOf(f)' # None => WrapperOf(f)' = WrapperOf(f)
  BY <1>1, <1>3 DEF WrapperOf
<1>5. Target(g) = WrapperOf(g) => kind[WrapperOf(g)] = KindOf(Class[h])
  BY <1>1 DEF Verified, Target
<1>6. KindHolds'
  BY <1>1, <1>4, <1>5 DEF SocketInv, KindHolds, Target
<1>7. QED
  BY <1>2, <1>6 DEF SocketInv

(* A socket step in which a constructor throws. *)
LEMMA ThrowKeeps ==
    ASSUME SocketInv, ConstructInVain, UNCHANGED <<kind, listening>>,
           counted' \subseteq counted \cup 1..made
    PROVE  SocketInv'
<1>1. LifeInv' /\ made' = made + 1 /\ UNCHANGED <<internal_fd, owner>>
      /\ \A v \in 1..made : fd'[v] = fd[v]
  BY InVainKeeps DEF SocketInv
<1>2. SocketTypeOK'
  BY <1>1, Typed DEF SocketInv, SocketTypeOK, LifeInv
<1>3. KindHolds'
  BY <1>1, KindInherited DEF WrapperOf
<1>4. QED
  BY <1>1, <1>2, <1>3 DEF SocketInv

(* TCPSocket::accept(): the kind is that of the listening socket. *)
LEMMA AcceptKeeps ==
    ASSUME SocketInv, NEW h \in Handle, NEW g \in Handle, Accept(h, g)
    PROVE  SocketInv'
<1>1. counted' = counted \cup {WrapperOf(h)} /\ WrapperOf(h) \in 1..made
  BY Typed DEF Accept, SocketInv
<1>2. CASE Class[g] = "TCPSocket" /\ Opens(g, TCPKind)
  <2>1. TCPKind = KindOf(Class[g])
    BY <1>2 DEF KindOf
  <2>2. QED
    BY <1>1, <1>2, <2>1, OpensKeeps
<1>3. CASE ConstructInVain /\ UNCHANGED <<kind, listening>>
  BY <1>1, <1>3, ThrowKeeps
<1>4. CASE UNCHANGED <<lifeVars, kind, listening>>
  BY <1>1, <1>4, MarksKeep DEF SocketInv, SocketTypeOK
<1>5. QED
  BY <1>2, <1>3, <1>4 DEF Accept

(* Every step keeps the inductive invariant. *)
LEMMA SocketStep == SocketInv /\ [SocketNext]_allVars => SocketInv'
<1> SUFFICES ASSUME SocketInv, [SocketNext]_allVars
             PROVE  SocketInv'
  OBVIOUS
<1>0. LifeInv /\ SocketTypeOK
  BY DEF SocketInv
<1>1. CASE Inherited /\ UNCHANGED socketVars
  BY <1>1, InheritedKeeps
<1>2. ASSUME NEW h \in Handle, OpenPlain(h)
      PROVE  SocketInv'
  BY <1>2, OpensKeeps, ClassAssumption DEF OpenPlain, Plain, Sockets
<1>3. ASSUME NEW h \in Handle, OpenSocket(h)
      PROVE  SocketInv'
  <2>1. KindOf(Class[h]) \in {UDPKind, TCPKind, LocalKind, NoKind}
    BY DEF KindOf
  <2>2. QED
    BY <1>3, <2>1, OpensKeeps DEF OpenSocket
<1>4. ASSUME NEW h \in Handle, OpenTunTap(h)
      PROVE  SocketInv'
  BY <1>4, OpensKeeps DEF OpenTunTap, Sockets
<1>5. ASSUME NEW h \in Handle, TunTapThrows(h)
      PROVE  SocketInv'
  BY <1>5, ThrowKeeps DEF TunTapThrows, socketVars
<1>6. ASSUME NEW h \in Handle, Listen(h)
      PROVE  SocketInv'
  <2>1. /\ WrapperOf(h) # None /\ owner[fd[WrapperOf(h)]] # None /\ UNCHANGED <<lifeVars, kind, counted>>
        /\ listening' = listening \cup {owner[fd[WrapperOf(h)]]}
    BY <1>6 DEF Listen, Target
  <2>2. owner[fd[WrapperOf(h)]] \in 1..made
    BY <1>0, <2>1, Typed DEF LifeInv, Fresh
  <2>3. QED
    BY <1>0, <2>1, <2>2, MarksKeep DEF SocketTypeOK
<1>7. ASSUME NEW h \in Handle, NEW g \in Handle, FromDescriptorThrows(g, h)
      PROVE  SocketInv'
  BY <1>7, InheritedKeeps DEF FromDescriptorThrows, Inherited
<1>8. CASE UNCHANGED allVars
  BY <1>0, <1>8, MarksKeep DEF allVars, socketVars, SocketTypeOK
<1>9. QED
  BY <1>1, <1>2, <1>3, <1>4, <1>5, <1>6, <1>7, <1>8, AdoptKeeps, AcceptKeeps DEF SocketNext

(* It holds before any socket is made. *)
LEMMA SocketStart == SocketInit => SocketInv
<1> SUFFICES ASSUME SocketInit
             PROVE  SocketInv
  OBVIOUS
<1>1. SocketTypeOK
  BY LifeAssumption DEF SocketInit, LifeInit, SocketTypeOK, LifeTypeOK, Wrapper, None
<1>2. Fresh /\ Again /\ Owned /\ NoLeak /\ KindHolds
  BY DEF SocketInit, LifeInit, Fresh, Again, Owned, NoLeak, KindHolds, WrapperOf, None, Wrapper
<1>3. QED
  BY <1>1, <1>2 DEF SocketInv, SocketTypeOK, LifeInv

-----------------------------------------------------------------------------
(* No destructor, move, accept(), constructor that throws or first close() *)
(* that succeeds takes the number of another FDWrapper away: that needs a  *)
(* close() of the same number that failed or was a second one, for any     *)
(* number of handles and however the kernel reuses numbers.                *)
THEOREM OwnedCorrect == SocketSpec => []Owned
<1>1. SocketInv => Owned
  BY DEF SocketInv, LifeInv
<1>2. QED
  BY <1>1, SocketStart, SocketStep, PTL DEF SocketSpec

(* A number that is open always has a handle that will close it, even      *)
(* after a close(2) failed, close() was called twice or a constructor      *)
(* threw.                                                                  *)
THEOREM NoLeakCorrect == SocketSpec => []NoLeak
<1>1. SocketInv => NoLeak
  BY DEF SocketInv, LifeInv
<1>2. QED
  BY <1>1, SocketStart, SocketStep, PTL DEF SocketSpec

(* What the constructor of a Socket verified stays true: a socket handle   *)
(* that has its own number has a socket of its class's domain and type.    *)
THEOREM KindHoldsCorrect == SocketSpec => []KindHolds
<1>1. SocketInv => KindHolds
  BY DEF SocketInv
<1>2. QED
  BY <1>1, SocketStart, SocketStep, PTL DEF SocketSpec

=============================================================================
