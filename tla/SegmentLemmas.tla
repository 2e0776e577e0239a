--------------------------- MODULE SegmentLemmas ---------------------------
(***************************************************************************)
(* The parts of a TCP segment: what InternetChecksum makes of any bytes,   *)
(* what NetParser and TCPHeader::parse() read from them, and what          *)
(* NetUnparser and TCPHeader::serialize() write.                           *)
(***************************************************************************)
EXTENDS SegmentLink, SliceLemmas

(* The sizes of a byte and of a 16-bit word. *)
LEMMA Sizes ==
    /\ Base \in Nat /\ Base >= 64 /\ Word \in Nat /\ Word >= 4096 /\ Word * Word \in Nat
    /\ Word = Base * Base /\ Base < Word
    /\ Byte \subseteq Nat
  BY BaseAssumption DEF Word, Byte

(* A byte is a number, whichever of the sizes it has. *)
LEMMA ByteIs ==
    ASSUME NEW b \in Byte
    PROVE  b \in Nat /\ b \in Int /\ 0 <= b /\ b <= Base - 1
  BY BaseAssumption DEF Byte

-----------------------------------------------------------------------------
(* InternetChecksum::value() *)

(* One turn of its loop: the number becomes smaller, stays positive and    *)
(* keeps its remainder modulo W - 1.                                       *)
LEMMA CarryTurn ==
    ASSUME NEW W \in Nat, W >= 2, NEW s \in Nat, s >= W
    PROVE  \E t \in Nat, q \in Nat :
              t = (s \div W) + (s % W) /\ 0 < t /\ t < s /\ s = t + q * (W - 1)
<1>1. PICK q \in Int, r \in Int : /\ q = s \div W /\ r = s % W
                                  /\ s = q * W + r /\ 0 <= r /\ r < W
  BY DivMod
<1>2. q >= 1
  <2>1. SUFFICES ASSUME q <= 0 PROVE FALSE
    OBVIOUS
  <2>2. q * W <= 0 * W /\ q * W \in Int
    BY <2>1, TimesAtLeast
  <2>3. QED
    BY <1>1, <2>2
<1>3. q * W = q + q * (W - 1) /\ q * (W - 1) \in Int
  OBVIOUS
<1>4. q * (W - 1) >= 1 * (W - 1)
  BY <1>2, TimesAtLeast
<1>5. q + r \in Nat /\ 0 < q + r /\ q + r < s /\ s = (q + r) + q * (W - 1) /\ q \in Nat
  BY <1>1, <1>2, <1>3, <1>4
<1>6. QED
  BY <1>1, <1>5

(* What the loop ends with: 0 for 0, and otherwise the number of 1..W-1    *)
(* that is congruent modulo W - 1.                                         *)
Folded(s, W) == IF s = 0 THEN 0 ELSE ((s - 1) % (W - 1)) + 1

(* That number fits in a word and has the remainder of the sum modulo W -  *)
(* 1; it is 0 only for the sum 0.                                          *)
LEMMA FoldedIs ==
    ASSUME NEW W \in Nat, W >= 2, NEW s \in Nat
    PROVE  /\ Folded(s, W) \in 0..(W - 1)
           /\ Folded(s, W) % (W - 1) = s % (W - 1)
           /\ Folded(s, W) = 0 <=> s = 0
           /\ s < W => Folded(s, W) = s
<1> DEFINE d == W - 1
<1>0. d \in Nat /\ d > 0
  OBVIOUS
<1>1. CASE s = 0
  BY <1>1 DEF Folded
<1>2. CASE s # 0
  <2>1. PICK a \in Int : a = s - 1 /\ a >= 0
    BY <1>2
  <2>2. PICK q \in Int, r \in Int : r = a % d /\ a = q * d + r /\ 0 <= r /\ r < d
    BY <1>0, <2>1, DivMod
  <2>3. Folded(s, W) = r + 1
    BY <1>2, <2>1, <2>2 DEF Folded
  <2>4. (r + 1) % d = s % d
    <3>1. PICK u \in Int, v \in Int : u = s /\ v = r + 1
      OBVIOUS
    <3>2. u = v + q * d
      BY <2>1, <2>2, <3>1
    <3>3. u % d = v % d
      <4> HIDE DEF d
      <4>1. QED
        BY ONLY <3>2, u \in Int, v \in Int, q \in Int, <1>0, ModShift
    <3>4. QED
      BY <3>1, <3>3
  <2>5. s < W => r + 1 = s
    <3>1. SUFFICES ASSUME s < W PROVE r = a
      BY <2>1
    <3>2. a = 0 * d + a /\ a < d
      BY <2>1, <3>1
    <3>3. a % d = a
      <4> HIDE DEF d
      <4>1. QED
        BY ONLY <3>2, <2>1, <1>0, ModUnique
    <3>4. QED
      BY <2>2, <3>3
  <2>6. QED
    BY <1>2, <2>2, <2>3, <2>4, <2>5
<1>3. QED
  BY <1>1, <1>2

(* A turn of the loop does not change what it ends with. *)
LEMMA FoldedTurn ==
    ASSUME NEW W \in Nat, W >= 2, NEW s \in Nat, s >= W
    PROVE  Folded(s, W) = Folded((s \div W) + (s % W), W)
<1>1. PICK t \in Nat, q \in Nat : t = (s \div W) + (s % W) /\ 0 < t /\ t < s /\ s = t + q * (W - 1)
  BY CarryTurn
<1>2. PICK u \in Int, v \in Int, d \in Nat : u = s - 1 /\ v = t - 1 /\ d = W - 1
  OBVIOUS
<1>3. u = v + q * d /\ d > 0 /\ q \in Int
  BY <1>1, <1>2
<1>4. u % d = v % d
  BY ONLY <1>3, u \in Int, v \in Int, d \in Nat, ModShift
<1>5. QED
  BY <1>1, <1>2, <1>4 DEF Folded

(* value() is the complement of that number. *)
LEMMA ValueIs ==
    ASSUME NEW check, check.sum \in Nat
    PROVE  Value(check) = Word - 1 - Folded(check.sum, Word)
<1> DEFINE Loop(f) == f = [s \in Nat |-> IF s < Word THEN s ELSE f[(s \div Word) + (s % Word)]]
           F == [s \in Nat |-> Folded(s, Word)]
<1>0. Word \in Nat /\ Word >= 2
  BY Sizes
<1>1. ASSUME NEW s \in Nat, s >= Word
      PROVE  \E t \in Nat : t = (s \div Word) + (s % Word) /\ t < s
  BY <1>0, <1>1, CarryTurn
<1>2. Loop(F)
  <2>1. ASSUME NEW s \in Nat
        PROVE  F[s] = IF s < Word THEN s ELSE F[(s \div Word) + (s % Word)]
    <3>1. CASE s < Word
      BY <1>0, <3>1, FoldedIs
    <3>2. CASE ~ (s < Word)
      <4>1. s >= Word
        BY <1>0, <3>2
      <4>2. PICK t \in Nat : t = (s \div Word) + (s % Word)
        BY <1>1, <4>1
      <4>3. Folded(s, Word) = Folded(t, Word)
        BY <1>0, <4>1, <4>2, FoldedTurn
      <4>4. QED
        BY <3>2, <4>2, <4>3
    <3>3. QED
      BY <3>1, <3>2
  <2> HIDE DEF F
  <2>2. F = [s \in Nat |-> F[s]]
    BY DEF F
  <2>3. QED
    BY <2>1, <2>2, Zenon
<1> HIDE DEF F
<1>3. PICK g : g = CHOOSE h : Loop(h)
  OBVIOUS
<1>4. Loop(g)
  <2> HIDE DEF Loop
  <2>1. QED
    BY <1>2, <1>3, Zenon
<1>5. ASSUME NEW s \in Nat PROVE g[s] = F[s]
  <2> DEFINE T == {x \in Nat : g[x] # F[x]}
  <2>1. SUFFICES ASSUME T # {} PROVE FALSE
    OBVIOUS
  <2>2. PICK x \in T : \A y \in T : x <= y
    <3>1. T \subseteq Nat
      OBVIOUS
    <3>2. QED
      BY <2>1, <3>1, LeastNatural, Zenon
  <2>3. x \in Nat /\ g[x] # F[x]
    OBVIOUS
  <2>4. /\ g[x] = IF x < Word THEN x ELSE g[(x \div Word) + (x % Word)]
        /\ F[x] = IF x < Word THEN x ELSE F[(x \div Word) + (x % Word)]
    BY <1>2, <1>4, <2>3, Zenon
  <2>5. ~ (x < Word)
    BY <2>3, <2>4, Zenon
  <2>6. x >= Word
    BY <1>0, <2>3, <2>5
  <2>7. PICK t \in Nat : t = (x \div Word) + (x % Word) /\ t < x
    BY <1>1, <2>3, <2>6
  <2>8. g[t] # F[t]
    BY <2>3, <2>4, <2>5, <2>7, Zenon
  <2>9. t \in T /\ ~ (x <= t)
    BY <2>3, <2>7, <2>8
  <2>10. QED
    BY <2>2, <2>9, Zenon
<1>6. Value(check) = Word - 1 - g[check.sum]
  BY <1>3, Zenon DEF Value
<1>7. g[check.sum] = Folded(check.sum, Word)
  BY <1>5 DEF F
<1>8. QED
  BY <1>6, <1>7, Zenon
-----------------------------------------------------------------------------
(* InternetChecksum::add() *)

(* The byte at position i is the high one of its word, or the low one. *)
Wt(i) == IF i % 2 = 1 THEN Base ELSE 1

(* The sums of the first k bytes, as the definition of WordSum goes        *)
(* through them.                                                           *)
Sums(f, bytes) ==
    /\ f \in [0..Len(bytes) -> Nat]
    /\ f[0] = 0 /\ f[Len(bytes)] = WordSum(bytes)
    /\ \A k \in 1..Len(bytes) : f[k] = f[k - 1] + bytes[k] * Wt(k)

(* What one byte adds. *)
LEMMA Adds ==
    ASSUME NEW b \in Byte, NEW k \in Nat
    PROVE  b * Wt(k) \in 0..((Base - 1) * Base) /\ Wt(k) \in {1, Base}
<1>1. /\ b \in Int /\ 0 <= b /\ b <= Base - 1
      /\ Base \in Nat /\ Base - 1 \in Int /\ Base >= 1
  BY Sizes DEF Byte
<1>2. b * Base <= (Base - 1) * Base /\ b * Base >= 0 * Base /\ b * Base \in Int
  BY ONLY <1>1, TimesAtLeast
<1>3. (Base - 1) * Base >= (Base - 1) * 1 /\ (Base - 1) * Base \in Int
  BY ONLY <1>1
<1>4. Wt(k) = 1 \/ Wt(k) = Base
  BY DEF Wt
<1>5. CASE Wt(k) = 1
  BY ONLY <1>1, <1>3, <1>5
<1>6. CASE Wt(k) = Base
  BY ONLY <1>1, <1>2, <1>3, <1>6
<1>7. QED
  BY <1>4, <1>5, <1>6

(* Every sequence of bytes has such partial sums: those that the recursion *)
(* of WordSum defines.                                                     *)
LEMMA SumsExist ==
    ASSUME NEW bytes \in Seq(Byte)
    PROVE  \E f : Sums(f, bytes)
<1>0. PICK n \in Nat : n = Len(bytes)
  OBVIOUS
<1> DEFINE Loop(f) == f = [i \in 0..n |-> IF i = 0 THEN 0
                             ELSE f[i - 1] + bytes[i] * (IF i % 2 = 1 THEN Base ELSE 1)]
           adds == [k \in 1..n |-> bytes[k] * Wt(k)]
           body == [k \in 1..n |-> [s \in Nat |-> s + adds[k]]]
<1>1. ASSUME NEW k \in 1..n PROVE adds[k] \in Nat /\ adds[k] = bytes[k] * Wt(k)
  <2>1. bytes[k] \in Byte
    BY <1>0
  <2>2. bytes[k] * Wt(k) \in 0..((Base - 1) * Base)
    BY <2>1, Adds
  <2>3. QED
    BY <2>2
<1> HIDE DEF adds
<1>2. body \in Bodies(Nat, n)
  BY <1>1 DEF Bodies
<1>3. ASSUME NEW k \in 1..n, NEW s \in Nat PROVE body[k][s] = s + bytes[k] * Wt(k)
  BY <1>1
<1> HIDE DEF body
<1>4. PICK f : IsRun(f, Nat, 0, body, n)
  <2>1. 0 \in Nat
    OBVIOUS
  <2>2. QED
    BY <1>2, <2>1, LoopRuns, Zenon
<1>5. Loop(f)
  <2>1. ASSUME NEW i \in 0..n
        PROVE  f[i] = IF i = 0 THEN 0 ELSE f[i - 1] + bytes[i] * (IF i % 2 = 1 THEN Base ELSE 1)
    <3>1. CASE i = 0
      BY <1>4, <3>1, Zenon DEF IsRun
    <3>2. CASE i # 0
      <4>1. i \in 1..n /\ i - 1 \in 0..n
        BY <3>2
      <4>2. f[i - 1] \in Nat /\ f[i] = body[i][f[i - 1]]
        BY <1>4, <4>1, Zenon DEF IsRun
      <4>3. QED
        BY <1>3, <3>2, <4>1, <4>2, Zenon DEF Wt
    <3>3. QED
      BY <3>1, <3>2
  <2>2. f \in [0..n -> Nat]
    BY <1>4 DEF IsRun
  <2>3. QED
    BY <2>1, <2>2, Zenon
<1>6. PICK g : g = CHOOSE h : Loop(h)
  OBVIOUS
<1>7. Loop(g)
  <2> HIDE DEF Loop
  <2>1. QED
    BY <1>5, <1>6, Zenon
<1>8. WordSum(bytes) = g[n]
  BY <1>0, <1>6 DEF WordSum
<1>9. ASSUME NEW k \in 0..n
      PROVE  g[k] = IF k = 0 THEN 0 ELSE g[k - 1] + bytes[k] * (IF k % 2 = 1 THEN Base ELSE 1)
  BY <1>7, Zenon
<1>10. g[0] = 0
  BY <1>9
<1>11. ASSUME NEW k \in 1..n PROVE g[k] = g[k - 1] + bytes[k] * Wt(k)
  <2>1. k \in 0..n /\ k # 0
    OBVIOUS
  <2>2. QED
    BY <1>9, <2>1, Zenon DEF Wt
<1>12. g = [i \in 0..n |-> g[i]]
  BY <1>7, Zenon
<1>13. IsRun(g, Nat, 0, body, n)
  <2>1. \A k \in 1..n : g[k - 1] \in Nat => g[k] = body[k][g[k - 1]]
    BY <1>3, <1>11, Zenon
  <2>2. 0 \in Nat
    OBVIOUS
  <2>3. QED
    BY <1>2, <1>10, <1>12, <2>1, <2>2, LoopIs, Zenon
<1>14. g \in [0..n -> Nat]
  BY <1>13 DEF IsRun
<1>15. Sums(g, bytes)
  BY <1>0, <1>8, <1>10, <1>11, <1>14, Zenon DEF Sums
<1>16. QED
  BY <1>15, Zenon

(* The sum of fewer than Word bytes and of a pseudo-header does not wrap   *)
(* in the 32 bits of _sum.                                                 *)
LEMMA Fits ==
    ASSUME NEW x \in Nat, NEW k \in Nat, k < Word, x <= k * ((Base - 1) * Base), NEW p \in 0..(Word * Base)
    PROVE  p + x \in 0..(Word * Word - 1)
<1>1. PICK most \in Nat : most = (Base - 1) * Base /\ most = Word - Base
  BY Sizes
<1>2. k * most <= (Word - 1) * most /\ k * most \in Int /\ Word - 1 \in Int
  BY Sizes, TimesAtLeast
<1>3. (Word - 1) * (Word - Base) = Word * Word - Word * Base - Word + Base
  BY Sizes
<1>4. Word * Base \in Nat /\ Word * Word \in Nat /\ Base < Word /\ Word \in Nat /\ Base \in Nat
  BY Sizes
<1>5. x <= Word * Word - Word * Base - Word + Base
  BY <1>1, <1>2, <1>3, <1>4
<1>6. p \in Int /\ 0 <= p /\ p <= Word * Base
  BY <1>4
<1>7. QED
  BY ONLY <1>4, <1>5, <1>6, x \in Nat

(* The sum of a datagram and its pseudo-header fits into 32 bits. *)
LEMMA SumsBounded ==
    ASSUME NEW bytes \in Seq(Byte), Len(bytes) < Word, NEW f, Sums(f, bytes),
           NEW p \in 0..(Word * Base), NEW k \in 0..Len(bytes)
    PROVE  f[k] \in Nat /\ p + f[k] \in 0..(Word * Word - 1)
<1>0. PICK n \in Nat, most \in Nat : n = Len(bytes) /\ most = (Base - 1) * Base
  <2>1. Len(bytes) \in Nat /\ (Base - 1) * Base \in Nat
    BY Sizes
  <2>2. QED
    BY <2>1, Zenon
<1>1. /\ f \in [0..n -> Nat] /\ f[0] = 0
      /\ \A j \in 1..n : f[j] = f[j - 1] + bytes[j] * Wt(j)
  BY <1>0, Zenon DEF Sums
<1> DEFINE P == {j \in 0..n : f[j] <= j * most}
<1>2. 0 \in P
  BY <1>1
<1>3. ASSUME NEW j \in 1..n, j - 1 \in P PROVE j \in P
  <2>1. bytes[j] \in Byte
    BY <1>0
  <2>2. PICK a \in Nat : a = bytes[j] * Wt(j) /\ a <= most
    <3>1. j \in Nat
      OBVIOUS
    <3>2. bytes[j] * Wt(j) \in 0..most
      BY ONLY <1>0, <2>1, <3>1, Adds
    <3>3. QED
      BY <3>2
  <2>3. f[j] = f[j - 1] + a /\ f[j - 1] <= (j - 1) * most /\ f[j - 1] \in Nat
    BY <1>1, <1>3, <2>2
  <2>4. (j - 1) * most + most = j * most /\ j * most \in Nat /\ (j - 1) * most \in Nat
    OBVIOUS
  <2>5. f[j] <= j * most
    BY <2>2, <2>3, <2>4
  <2>6. QED
    BY <2>5
<1>4. 0..n \subseteq P
  <2> HIDE DEF P
  <2>1. QED
    BY <1>2, <1>3, TurnByTurn
<1>5. k \in 0..n /\ k \in Nat /\ k < Word
  BY <1>0, Sizes
<1>6. f[k] <= k * most /\ f[k] \in Nat
  BY <1>1, <1>4, <1>5
<1>7. PICK x \in Nat : x = f[k]
  BY <1>6
<1>8. p + x \in 0..(Word * Word - 1)
  BY ONLY <1>0, <1>5, <1>6, <1>7, p \in 0..(Word * Base), Fits
<1>9. QED
  BY <1>7, <1>8

(* What add() holds after k bytes, under the initial sum p. *)
CheckAt(p, f, k) == [sum |-> p + f[k], parity |-> k % 2 = 1]

(* One turn of the loop of add(): a byte counts as high or low by the      *)
(* parity of its place.                                                    *)
LEMMA AddByteIs ==
    ASSUME NEW p \in Nat, NEW f, NEW k \in Nat, k > 0, NEW b \in Byte,
           f[k - 1] \in Nat, f[k] \in Nat, p + f[k] < Word * Word, f[k] = f[k - 1] + b * Wt(k)
    PROVE  AddByte(CheckAt(p, f, k - 1), b) = CheckAt(p, f, k)
<1>1. PICK x \in Nat, y \in Nat, W \in Nat : x = f[k - 1] /\ y = f[k] /\ W = Word * Word
  BY Sizes
<1>2. ASSUME NEW v \in Nat, v < W PROVE v % W = v
  <2>1. v = 0 * W + v /\ W > 0 /\ v \in Int /\ 0 <= v
    BY <1>2
  <2>2. QED
    BY ONLY <1>2, <2>1, W \in Nat, ModUnique
<1>3. (p + y) % W = p + y
  BY <1>1, <1>2
<1>4. CASE k % 2 = 1
  <2>1. (k - 1) % 2 # 1
    BY <1>4
  <2>2. y = x + b * Base
    BY <1>1, <1>4 DEF Wt
  <2>3. AddByte(CheckAt(p, f, k - 1), b) = [sum |-> ((p + x) + b * Base) % W, parity |-> TRUE]
    BY <1>1, <2>1, Zenon DEF AddByte, CheckAt
  <2>4. CheckAt(p, f, k) = [sum |-> p + y, parity |-> TRUE]
    BY <1>1, <1>4, Zenon DEF CheckAt
  <2>5. (p + x) + b * Base = p + y
    <3>1. b * Base \in Int
      BY Sizes
    <3>2. QED
      BY ONLY <2>2, <3>1, p \in Nat, x \in Nat
  <2>6. QED
    BY <1>3, <2>3, <2>4, <2>5, Zenon
<1>5. CASE k % 2 # 1
  <2>1. (k - 1) % 2 = 1
    BY <1>5
  <2>2. y = x + b
    BY <1>1, <1>5, Sizes DEF Wt
  <2>3. AddByte(CheckAt(p, f, k - 1), b) = [sum |-> ((p + x) + b) % W, parity |-> FALSE]
    BY <1>1, <2>1, Zenon DEF AddByte, CheckAt
  <2>4. CheckAt(p, f, k) = [sum |-> p + y, parity |-> FALSE]
    BY <1>1, <1>5, Zenon DEF CheckAt
  <2>5. (p + x) + b = p + y
    BY <2>2, Sizes
  <2>6. QED
    BY <1>3, <2>3, <2>4, <2>5, Zenon
<1>6. QED
  BY <1>4, <1>5

(* A piece of a datagram, which n bytes of it precede. *)
Piece(data, n, bytes) ==
    /\ data \in Seq(Byte) /\ n \in Nat /\ n + Len(data) <= Len(bytes)
    /\ \A i \in 1..Len(data) : data[i] = bytes[n + i]

(* Such a piece, added when those bytes have been added. *)
LEMMA AddIs ==
    ASSUME NEW bytes \in Seq(Byte), Len(bytes) < Word, NEW f, Sums(f, bytes),
           NEW p \in 0..(Word * Base), NEW n, NEW data, Piece(data, n, bytes)
    PROVE  Add(CheckAt(p, f, n), data) = CheckAt(p, f, n + Len(data))
<1>p. /\ data \in Seq(Byte) /\ n \in Nat /\ n + Len(data) <= Len(bytes)
      /\ \A i \in 1..Len(data) : data[i] = bytes[n + i]
  BY Zenon DEF Piece
<1>0. PICK m \in Nat : m = Len(data)
  BY <1>p
<1> DEFINE Loop(h) == h = [i \in 0..m |-> IF i = 0 THEN CheckAt(p, f, n)
                                          ELSE AddByte(h[i - 1], data[i])]
           G == [i \in 0..m |-> CheckAt(p, f, n + i)]
<1>1. ASSUME NEW i \in 1..m PROVE AddByte(CheckAt(p, f, n + (i - 1)), data[i]) = CheckAt(p, f, n + i)
  <2>1. PICK k \in Nat : k = n + i /\ k > 0 /\ n + (i - 1) = k - 1
    BY <1>p
  <2>2. k \in 1..Len(bytes) /\ k - 1 \in 0..Len(bytes) /\ k \in 0..Len(bytes)
    BY <1>p, <1>0, <2>1
  <2>3. PICK b \in Byte : b = data[i] /\ b = bytes[k]
    BY <1>p, <1>0, <2>1
  <2>4. f[k] = f[k - 1] + b * Wt(k)
    BY <2>2, <2>3, Zenon DEF Sums
  <2>5. /\ f[k - 1] \in Nat /\ f[k] \in Nat /\ p + f[k] \in 0..(Word * Word - 1)
    BY <2>2, SumsBounded
  <2>6. p + f[k] < Word * Word
    BY <2>5, Sizes
  <2>7. p \in Nat
    BY Sizes
  <2>8. AddByte(CheckAt(p, f, k - 1), b) = CheckAt(p, f, k)
    BY ONLY k \in Nat, b \in Byte, <2>1, <2>4, <2>5, <2>6, <2>7, AddByteIs
  <2>9. QED
    BY <2>1, <2>3, <2>8, Zenon
<1>2. CheckAt(p, f, n + 0) = CheckAt(p, f, n)
  BY <1>p
<1>3. Loop(G)
  <2>1. ASSUME NEW i \in 0..m
        PROVE  G[i] = IF i = 0 THEN CheckAt(p, f, n) ELSE AddByte(G[i - 1], data[i])
    <3>1. CASE i = 0
      BY <1>2, <3>1
    <3>2. CASE i # 0
      <4>1. i \in 1..m /\ i - 1 \in 0..m
        BY <3>2
      <4>2. G[i - 1] = CheckAt(p, f, n + (i - 1)) /\ G[i] = CheckAt(p, f, n + i)
        BY <4>1, Zenon
      <4>3. QED
        BY <1>1, <3>2, <4>1, <4>2, Zenon
    <3>3. QED
      BY <3>1, <3>2
  <2> HIDE DEF G
  <2>2. G = [i \in 0..m |-> G[i]]
    BY DEF G
  <2>3. QED
    BY <2>1, <2>2, Zenon
<1>4. PICK g : g = CHOOSE h : Loop(h)
  OBVIOUS
<1>5. Loop(g)
  <2> HIDE DEF Loop
  <2>1. QED
    BY <1>3, <1>4, Zenon
<1>6. Add(CheckAt(p, f, n), data) = g[m]
  BY <1>0, <1>4, Zenon DEF Add, AddBytes
<1>7. g[m] = G[m]
  <2> HIDE DEF G
  <2> DEFINE P == {i \in 0..m : g[i] = G[i]}
  <2>1. 0 \in P
    <3>1. 0 \in 0..m
      OBVIOUS
    <3>2. g[0] = G[0]
      BY <1>3, <1>5, <3>1, Zenon
    <3>3. QED
      BY <3>1, <3>2
  <2>2. ASSUME NEW i \in 1..m, i - 1 \in P PROVE i \in P
    <3>1. i \in 0..m /\ i # 0
      OBVIOUS
    <3>2. g[i] = G[i]
      BY <1>3, <1>5, <2>2, <3>1, Zenon
    <3>3. QED
      BY <3>1, <3>2
  <2>3. 0..m \subseteq P
    <3> HIDE DEF P
    <3>1. QED
      BY <2>1, <2>2, TurnByTurn
  <2>4. QED
    BY <2>3
<1>8. QED
  BY <1>0, <1>6, <1>7

(* A number below the modulus is its own remainder. *)
LEMMA ModSmall ==
    ASSUME NEW d \in Nat, NEW v \in Nat, v < d
    PROVE  v % d = v
<1>1. v = 0 * d + v /\ d > 0 /\ v \in Int /\ 0 <= v
  OBVIOUS
<1>2. QED
  BY ONLY <1>1, v < d, d \in Nat, ModUnique

(* Before the first byte. *)
LEMMA InitialIs ==
    ASSUME NEW f, f[0] = 0, NEW p \in 0..(Word * Base)
    PROVE  InitialSum(p) = CheckAt(p, f, 0)
<1>1. PICK W \in Nat : W = Word * Word
  BY Sizes
<1>2. p \in Nat /\ p + 0 = p
  BY Sizes
<1>3. p < W
  <2>1. p + 0 \in 0..(Word * Word - 1)
    <3>1. 0 \in Nat /\ 0 < Word /\ 0 <= 0 * ((Base - 1) * Base)
      BY Sizes
    <3>2. QED
      BY ONLY <3>1, p \in 0..(Word * Base), Fits
  <2>2. QED
    BY <1>1, <1>2, <2>1
<1>4. p % W = p
  BY ONLY <1>2, <1>3, W \in Nat, ModSmall
<1>5. 0 % 2 # 1
  OBVIOUS
<1>6. QED
  BY <1>1, <1>2, <1>4, <1>5, Zenon DEF InitialSum, CheckAt

(* However a datagram is cut in two, add() of the pieces ends with the sum *)
(* of the pseudo-header and the words of the whole.                        *)
LEMMA PiecesIs ==
    ASSUME NEW bytes \in Seq(Byte), Len(bytes) < Word, NEW p \in 0..(Word * Base),
           NEW a \in Seq(Byte), NEW b \in Seq(Byte), bytes = a \o b
    PROVE  /\ Add(Add(InitialSum(p), a), b).sum = p + WordSum(bytes)
           /\ WordSum(bytes) \in Nat
<1>1. PICK f : Sums(f, bytes)
  BY SumsExist, Zenon
<1>2. PICK m \in Nat, n \in Nat : m = Len(a) /\ n = Len(b)
  OBVIOUS
<1>3. /\ Len(bytes) = m + n
      /\ \A i \in 1..m : a[i] = bytes[i]
      /\ \A i \in 1..n : b[i] = bytes[m + i]
  BY <1>2, ConcatProperties
<1>4. InitialSum(p) = CheckAt(p, f, 0)
  BY <1>1, InitialIs, Zenon DEF Sums
<1>5. Add(CheckAt(p, f, 0), a) = CheckAt(p, f, m)
  <2>1. Piece(a, 0, bytes)
    BY <1>2, <1>3 DEF Piece
  <2>2. Add(CheckAt(p, f, 0), a) = CheckAt(p, f, 0 + Len(a))
    BY ONLY bytes \in Seq(Byte), Len(bytes) < Word, p \in 0..(Word * Base), <1>1, <2>1, AddIs
  <2>3. 0 + Len(a) = m
    BY <1>2
  <2>4. QED
    BY <2>2, <2>3, Zenon
<1>6. Add(CheckAt(p, f, m), b) = CheckAt(p, f, m + n)
  <2>1. Piece(b, m, bytes)
    BY <1>2, <1>3 DEF Piece
  <2>2. Add(CheckAt(p, f, m), b) = CheckAt(p, f, m + Len(b))
    BY ONLY bytes \in Seq(Byte), Len(bytes) < Word, p \in 0..(Word * Base), <1>1, <2>1, AddIs
  <2>3. QED
    BY <1>2, <2>2, Zenon
<1>7. f[m + n] = WordSum(bytes) /\ f[m + n] \in Nat
  <2>1. f[Len(bytes)] = WordSum(bytes) /\ f \in [0..Len(bytes) -> Nat]
    BY <1>1, Zenon DEF Sums
  <2>2. m + n \in 0..Len(bytes)
    BY <1>3
  <2>3. QED
    BY <1>3, <2>1, <2>2, Zenon
<1>8. CheckAt(p, f, m + n).sum = p + f[m + n]
  BY DEF CheckAt
<1>9. QED
  BY <1>4, <1>5, <1>6, <1>7, <1>8, Zenon

(* As parse() adds them, all at once. *)
LEMMA WholeIs ==
    ASSUME NEW bytes \in Seq(Byte), Len(bytes) < Word, NEW p \in 0..(Word * Base)
    PROVE  /\ Add(InitialSum(p), bytes).sum = p + WordSum(bytes)
           /\ WordSum(bytes) \in Nat
<1>1. PICK f : Sums(f, bytes)
  BY SumsExist, Zenon
<1>2. InitialSum(p) = CheckAt(p, f, 0)
  BY <1>1, InitialIs, Zenon DEF Sums
<1>3. Piece(bytes, 0, bytes)
  BY DEF Piece
<1>4. Add(CheckAt(p, f, 0), bytes) = CheckAt(p, f, 0 + Len(bytes))
  BY ONLY bytes \in Seq(Byte), Len(bytes) < Word, p \in 0..(Word * Base), <1>1, <1>3, AddIs
<1>5. 0 + Len(bytes) = Len(bytes) /\ Len(bytes) \in 0..Len(bytes)
  OBVIOUS
<1>6. f[Len(bytes)] = WordSum(bytes) /\ f[Len(bytes)] \in Nat
  BY <1>1, <1>5, Zenon DEF Sums
<1>7. CheckAt(p, f, Len(bytes)).sum = p + f[Len(bytes)]
  BY DEF CheckAt
<1>8. QED
  BY <1>2, <1>4, <1>5, <1>6, <1>7, Zenon

(* When a checksum is good: the sum is a positive multiple of Word - 1. *)
LEMMA GoodIff ==
    ASSUME NEW bytes \in Seq(Byte), Len(bytes) < Word, NEW p \in 0..(Word * Base)
    PROVE  GoodChecksum(bytes, p) <=>
              p + WordSum(bytes) > 0 /\ (p + WordSum(bytes)) % (Word - 1) = 0
<1>1. PICK check : check = Add(InitialSum(p), bytes)
  OBVIOUS
<1>2. check.sum = p + WordSum(bytes) /\ WordSum(bytes) \in Nat
  BY <1>1, WholeIs, Zenon
<1>3. PICK t \in Nat : t = p + WordSum(bytes) /\ t = check.sum
  <2>1. p \in Nat
    BY Sizes
  <2>2. QED
    BY <1>2, <2>1
<1>f. /\ Folded(t, Word) \in 0..(Word - 1)
      /\ Folded(t, Word) % (Word - 1) = t % (Word - 1)
      /\ Folded(t, Word) = 0 <=> t = 0
  <2>1. Word \in Nat /\ Word >= 2
    BY Sizes
  <2>2. QED
    BY ONLY <2>1, t \in Nat, FoldedIs
<1>4. PICK r \in Nat, d \in Nat : r = Folded(t, Word) /\ d = Word - 1 /\ d >= 1
  BY <1>f, Sizes
<1>5. r <= d /\ r % d = t % d /\ (r = 0 <=> t = 0)
  <2>1. r % d = t % d /\ (r = 0 <=> t = 0)
    BY <1>f, <1>4, Zenon
  <2>2. r <= d
    BY ONLY <1>f, <1>4, Sizes
  <2>3. QED
    BY <2>1, <2>2
<1>6. Value(check) = d - r
  BY <1>3, <1>4, ValueIs, Sizes
<1>7. GoodChecksum(bytes, p) <=> r = d
  <2>1. Value(check) = 0 <=> r = d
    BY <1>6
  <2>2. QED
    BY <1>1, <2>1, Zenon DEF GoodChecksum
<1>8. r = d <=> t > 0 /\ t % d = 0
  <2>1. d % d = 0
    <3>1. d = 1 * d + 0 /\ d > 0
      BY <1>4
    <3>2. QED
      BY ONLY <3>1, d \in Nat, ModUnique
  <2>2. r < d => r % d = r
    BY ModSmall
  <2>3. CASE r = d
    BY ONLY <1>4, <1>5, <2>1, <2>3, r \in Nat, d \in Nat, t \in Nat
  <2>4. CASE r < d
    <3>1. r = t % d
      BY <1>5, <2>2, <2>4, Zenon
    <3>2. r # d /\ (t > 0 => r # 0)
      BY ONLY <1>5, <2>4, r \in Nat, d \in Nat, t \in Nat
    <3>3. QED
      BY <3>1, <3>2, Zenon
  <2>5. r = d \/ r < d
    BY <1>5
  <2>6. QED
    BY <2>3, <2>4, <2>5, Zenon
<1>9. QED
  BY <1>3, <1>4, <1>7, <1>8, Zenon

(* What value() returns cancels the sum, modulo Word - 1. *)
LEMMA ValueCancels ==
    ASSUME NEW check, check.sum \in Nat
    PROVE  /\ Value(check) \in 0..(Word - 1)
           /\ (Value(check) + check.sum) % (Word - 1) = 0
           /\ Value(check) + check.sum > 0
<1>1. PICK t \in Nat : t = check.sum
  OBVIOUS
<1>2. /\ Folded(t, Word) \in 0..(Word - 1)
      /\ Folded(t, Word) % (Word - 1) = t % (Word - 1)
      /\ Folded(t, Word) = 0 <=> t = 0
  <2>1. Word \in Nat /\ Word >= 2
    BY Sizes
  <2>2. QED
    BY ONLY <2>1, t \in Nat, FoldedIs
<1>3. PICK r \in Nat, d \in Nat : r = Folded(t, Word) /\ d = Word - 1 /\ d >= 1
  BY <1>2, Sizes
<1>4. r <= d
  BY ONLY <1>2, <1>3, Sizes
<1>5. Value(check) = d - r
  BY <1>1, <1>3, ValueIs, Sizes
<1>6. PICK k \in Int : t = r + k * d
  <2>1. t % d = r % d
    BY <1>2, <1>3, Zenon
  <2>2. t \in Int /\ r \in Int /\ d > 0
    BY <1>3
  <2>3. QED
    BY ONLY <2>1, <2>2, d \in Nat, ModSame
<1>7. PICK u \in Int : u = (d - r) + t /\ u = (k + 1) * d + 0
  <2>1. k * d \in Int /\ (k + 1) * d = k * d + d
    OBVIOUS
  <2>2. QED
    BY <1>6, <2>1
<1>8. u % d = 0
  <2>1. k + 1 \in Int /\ d > 0 /\ 0 < d
    BY <1>3
  <2>2. QED
    BY ONLY <1>7, <2>1, u \in Int, d \in Nat, ModUnique
<1>9. u > 0
  <2>1. t = 0 => r = 0
    BY <1>2, <1>3, Zenon
  <2>2. QED
    BY ONLY <1>3, <1>4, <1>7, <2>1, u \in Int, t \in Nat, r \in Nat, d \in Nat
<1>10. d - r \in 0..d
  BY <1>4
<1>11. QED
  BY <1>1, <1>3, <1>5, <1>7, <1>8, <1>9, <1>10, Zenon

(* A change of one byte changes the sum by its difference, in its place. *)
LEMMA SumOfChanged ==
    ASSUME NEW a \in Seq(Byte), NEW b \in Seq(Byte), Len(a) = Len(b), NEW j \in 1..Len(a),
           \A i \in 1..Len(a) : i # j => b[i] = a[i]
    PROVE  WordSum(b) = WordSum(a) + (b[j] * Wt(j) - a[j] * Wt(j))
<1>1. PICK n \in Nat : n = Len(a) /\ n = Len(b)
  OBVIOUS
<1>2. PICK f : Sums(f, a)
  BY SumsExist, Zenon
<1>3. PICK g : Sums(g, b)
  BY SumsExist, Zenon
<1>4. /\ f \in [0..n -> Nat] /\ f[0] = 0 /\ f[n] = WordSum(a)
      /\ \A k \in 1..n : f[k] = f[k - 1] + a[k] * Wt(k)
  BY <1>1, <1>2, Zenon DEF Sums
<1>5. /\ g \in [0..n -> Nat] /\ g[0] = 0 /\ g[n] = WordSum(b)
      /\ \A k \in 1..n : g[k] = g[k - 1] + b[k] * Wt(k)
  BY <1>1, <1>3, Zenon DEF Sums
<1>6. ASSUME NEW k \in 1..n PROVE a[k] * Wt(k) \in Int /\ b[k] * Wt(k) \in Int
  <2>1. a[k] \in Byte /\ b[k] \in Byte /\ k \in Nat
    BY <1>1
  <2>2. a[k] * Wt(k) \in 0..((Base - 1) * Base) /\ b[k] * Wt(k) \in 0..((Base - 1) * Base)
    BY ONLY <2>1, Adds
  <2>3. QED
    BY <2>2
<1>7. PICK x \in Int, y \in Int : x = a[j] * Wt(j) /\ y = b[j] * Wt(j)
  BY <1>1, <1>6
<1> DEFINE P == {k \in 0..n : g[k] = f[k] + (IF k >= j THEN y - x ELSE 0)}
<1>8. 0 \in P
  BY <1>1, <1>4, <1>5
<1>9. ASSUME NEW k \in 1..n, k - 1 \in P PROVE k \in P
  <2>1. PICK e \in Int, h \in Int : e = a[k] * Wt(k) /\ h = b[k] * Wt(k)
    BY <1>6
  <2>2. f[k] = f[k - 1] + e /\ g[k] = g[k - 1] + h
    BY <1>4, <1>5, <2>1, Zenon
  <2>3. /\ f[k - 1] \in Int /\ f[k] \in Int /\ g[k - 1] \in Int /\ g[k] \in Int
    BY <1>4, <1>5
  <2>4. g[k - 1] = f[k - 1] + (IF k - 1 >= j THEN y - x ELSE 0)
    BY <1>9
  <2>5. CASE k = j
    <3>1. e = x /\ h = y
      BY <1>7, <2>1, <2>5, Zenon
    <3>2. g[k - 1] = f[k - 1]
      BY <1>1, <2>3, <2>4, <2>5
    <3>3. g[k] = f[k] + (y - x)
      BY ONLY <2>2, <2>3, <3>1, <3>2, x \in Int, y \in Int
    <3>4. QED
      BY <1>1, <2>5, <3>3
  <2>6. CASE k # j
    <3>1. e = h
      BY <1>1, <2>1, <2>6
    <3>2. (k - 1 >= j) <=> (k >= j)
      BY <1>1, <2>6
    <3>3. PICK z \in Int : z = (IF k >= j THEN y - x ELSE 0)
      <4>1. (IF k >= j THEN y - x ELSE 0) \in Int
        BY ONLY x \in Int, y \in Int
      <4>2. QED
        BY <4>1, Zenon
    <3>4. g[k] = f[k] + z
      <4>1. g[k - 1] = f[k - 1] + z
        BY <2>4, <3>2, <3>3, Zenon
      <4>2. QED
        BY ONLY <2>2, <2>3, <3>1, <4>1, z \in Int, e \in Int, h \in Int
    <3>5. g[k] = f[k] + (IF k >= j THEN y - x ELSE 0)
      BY <3>3, <3>4, Zenon
    <3>6. QED
      BY <3>5
  <2>7. QED
    BY <2>5, <2>6
<1>10. 0..n \subseteq P
  <2> HIDE DEF P
  <2>1. QED
    BY <1>8, <1>9, TurnByTurn
<1>11. g[n] = f[n] + (IF n >= j THEN y - x ELSE 0) /\ n >= j
  BY <1>1, <1>10
<1>12. QED
  BY <1>4, <1>5, <1>7, <1>11, Zenon

-----------------------------------------------------------------------------
(* NetParser *)

(* A parser that has read the first o of the bytes, without an error. *)
Reads(p, bytes, o) ==
    /\ o \in 0..Len(bytes)
    /\ p = [buffer |-> From(bytes, o + 1), error |-> "NoError"]

(* A parser that has failed. *)
Broken(p) == \E left : p = [buffer |-> left, error |-> "PacketTooShort"]

(* The two ways remove_prefix() ends. *)
LEMMA SkipEnds ==
    ASSUME NEW p, NEW n, NEW q, q = CheckSize(p, n)
    PROVE  /\ Failed(q) => Skip(p, n) = q
           /\ ~ Failed(q) => Skip(p, n) = [q EXCEPT !.buffer = From(q.buffer, n + 1)]
<1>1. Skip(p, n) = Advance(q, n)
  BY Zenon DEF Skip
<1>2. /\ Failed(q) => Advance(q, n) = q
      /\ ~ Failed(q) => Advance(q, n) = [q EXCEPT !.buffer = From(q.buffer, n + 1)]
  BY Zenon DEF Advance, From
<1>3. QED
  BY <1>1, <1>2, Zenon

(* remove_prefix() of bytes that are there moves on by as many. *)
LEMMA SkipReads ==
    ASSUME NEW bytes \in Seq(Byte), NEW o, NEW p, Reads(p, bytes, o), NEW n \in Nat, o + n <= Len(bytes)
    PROVE  Reads(Skip(p, n), bytes, o + n)
<1>1. o \in 0..Len(bytes) /\ p = [buffer |-> From(bytes, o + 1), error |-> "NoError"]
  BY Zenon DEF Reads
<1>2. PICK buf : buf = From(bytes, o + 1)
  OBVIOUS
<1>3. Len(buf) = Len(bytes) - o
  BY <1>1, <1>2, Rest DEF From
<1>4. n \in 0..(Len(bytes) - o) /\ ~ (n > Len(buf)) /\ o + n \in 0..Len(bytes)
  BY <1>1, <1>3
<1>5. From(buf, n + 1) = From(bytes, (o + n) + 1)
  BY <1>1, <1>2, <1>4, RestOfRest, Zenon
<1>6. p = [buffer |-> buf, error |-> "NoError"]
  BY <1>1, <1>2, Zenon
<1>7. Skip(p, n) = [buffer |-> From(buf, n + 1), error |-> "NoError"]
  <2>1. p.buffer = buf /\ p.error = "NoError"
    BY ONLY <1>6
  <2>2. CheckSize(p, n) = p /\ ~ Failed(p)
    BY <1>4, <2>1, Zenon DEF CheckSize, Failed
  <2>3. Skip(p, n) = [p EXCEPT !.buffer = From(buf, n + 1)]
    <3>1. Skip(p, n) = [p EXCEPT !.buffer = From(p.buffer, n + 1)]
      BY <2>2, SkipEnds, Zenon
    <3>2. QED
      BY <2>1, <3>1, Zenon
  <2>4. QED
    BY ONLY <1>6, <2>3
<1>8. QED
  BY <1>4, <1>5, <1>7, Zenon DEF Reads

(* remove_prefix() of more than is there sets the error and takes nothing. *)
LEMMA SkipBreaks ==
    ASSUME NEW bytes \in Seq(Byte), NEW o, NEW p, Reads(p, bytes, o), NEW n \in Nat, o + n > Len(bytes)
    PROVE  Broken(Skip(p, n))
<1>1. o \in 0..Len(bytes) /\ p = [buffer |-> From(bytes, o + 1), error |-> "NoError"]
  BY Zenon DEF Reads
<1>2. PICK buf : buf = From(bytes, o + 1)
  OBVIOUS
<1>3. Len(buf) = Len(bytes) - o
  BY <1>1, <1>2, Rest DEF From
<1>4. n > Len(buf)
  BY <1>1, <1>3
<1>5. p = [buffer |-> buf, error |-> "NoError"]
  BY <1>1, <1>2, Zenon
<1>6. Skip(p, n) = [buffer |-> buf, error |-> "PacketTooShort"]
  <2>1. p.buffer = buf
    BY ONLY <1>5
  <2>2. CheckSize(p, n) = [p EXCEPT !.error = "PacketTooShort"]
    BY <1>4, <2>1, Zenon DEF CheckSize
  <2>3. CheckSize(p, n) = [buffer |-> buf, error |-> "PacketTooShort"]
    BY ONLY <1>5, <2>2
  <2>4. Failed(CheckSize(p, n))
    BY ONLY <2>3 DEF Failed
  <2>5. QED
    BY <2>3, <2>4, SkipEnds, Zenon
<1>7. QED
  BY <1>6, Zenon DEF Broken

(* A parser with an error keeps it: the calls after it do nothing. *)
LEMMA SkipBroken ==
    ASSUME NEW p, Broken(p), NEW n
    PROVE  Broken(Skip(p, n))
<1>1. PICK left : p = [buffer |-> left, error |-> "PacketTooShort"]
  BY DEF Broken
<1>2. Skip(p, n) = [buffer |-> left, error |-> "PacketTooShort"]
  <2>1. [p EXCEPT !.error = "PacketTooShort"] = p /\ p.error = "PacketTooShort"
    BY ONLY <1>1
  <2>2. CheckSize(p, n) = p
    BY <2>1, Zenon DEF CheckSize
  <2>3. Failed(p)
    BY ONLY <2>1 DEF Failed
  <2>4. QED
    <3>1. Failed(CheckSize(p, n))
      BY <2>2, <2>3, Zenon
    <3>2. Skip(p, n) = CheckSize(p, n)
      BY <3>1, SkipEnds, Zenon
    <3>3. QED
      BY <1>1, <2>2, <3>2, Zenon
<1>3. QED
  BY <1>2, Zenon DEF Broken

(* The values ret has in the loop of _parse_int(), when the bytes are      *)
(* there.                                                                  *)
Digits(v, bytes, o, n) ==
    /\ n \in Nat /\ o + n <= Len(bytes) /\ v = [i \in 0..n |-> v[i]] /\ v[0] = 0
    /\ \A i \in 1..n : v[i] = v[i - 1] * Base + bytes[o + i]

(* _parse_int() of n bytes is the big-endian number they spell. *)
LEMMA ParseIntIs ==
    ASSUME NEW bytes \in Seq(Byte), NEW o, NEW p, Reads(p, bytes, o), NEW n, NEW v, Digits(v, bytes, o, n)
    PROVE  ParseInt(p, n) = v[n]
<1>d. /\ n \in Nat /\ o + n <= Len(bytes) /\ v = [i \in 0..n |-> v[i]] /\ v[0] = 0
      /\ \A i \in 1..n : v[i] = v[i - 1] * Base + bytes[o + i]
  BY Zenon DEF Digits
<1>1. o \in 0..Len(bytes) /\ p = [buffer |-> From(bytes, o + 1), error |-> "NoError"]
  BY Zenon DEF Reads
<1>2. PICK buf : buf = From(bytes, o + 1)
  OBVIOUS
<1>3. Len(buf) = Len(bytes) - o /\ \A i \in 1..(Len(bytes) - o) : buf[i] = bytes[o + i]
  BY <1>1, <1>2, Rest DEF From
<1>4. ~ (n > Len(buf)) /\ \A i \in 1..n : buf[i] = bytes[o + i]
  BY <1>1, <1>3, <1>d
<1>5. p = [buffer |-> buf, error |-> "NoError"]
  BY <1>1, <1>2, Zenon
<1>6. ~ Failed(CheckSize(p, n)) /\ p.buffer = buf
  <2>1. p.buffer = buf /\ p.error = "NoError"
    BY ONLY <1>5
  <2>2. QED
    BY <1>4, <2>1, Zenon DEF CheckSize, Failed
<1> DEFINE Loop(f) == f = [i \in 0..n |-> IF i = 0 THEN 0 ELSE f[i - 1] * Base + p.buffer[i]]
<1>7. Loop(v)
  <2>1. ASSUME NEW i \in 0..n PROVE v[i] = IF i = 0 THEN 0 ELSE v[i - 1] * Base + p.buffer[i]
    <3>1. CASE i = 0
      BY <1>d, <3>1
    <3>2. CASE i # 0
      <4>1. i \in 1..n
        BY <3>2
      <4>2. QED
        BY <1>4, <1>6, <1>d, <3>2, <4>1, Zenon
    <3>3. QED
      BY <3>1, <3>2
  <2>2. QED
    BY <1>d, <2>1, Zenon
<1>8. PICK g : g = CHOOSE h : Loop(h)
  OBVIOUS
<1>9. Loop(g)
  <2> HIDE DEF Loop
  <2>1. QED
    BY <1>7, <1>8, Zenon
<1>10. ParseInt(p, n) = g[n]
  BY <1>6, <1>8, Zenon DEF ParseInt
<1>11. g[n] = v[n]
  <2> DEFINE P == {i \in 0..n : g[i] = v[i]}
  <2>1. 0 \in P
    <3>1. 0 \in 0..n
      BY <1>d
    <3>2. g[0] = v[0]
      BY <1>7, <1>9, <3>1, Zenon
    <3>3. QED
      BY <3>1, <3>2
  <2>2. ASSUME NEW i \in 1..n, i - 1 \in P PROVE i \in P
    <3>1. i \in 0..n /\ i # 0
      OBVIOUS
    <3>2. g[i] = v[i]
      <4>1. g[i - 1] = v[i - 1]
        BY <2>2
      <4>2. g[i] = g[i - 1] * Base + p.buffer[i] /\ v[i] = v[i - 1] * Base + p.buffer[i]
        BY <1>7, <1>9, <3>1, Zenon
      <4>3. QED
        BY <4>1, <4>2, Zenon
    <3>3. QED
      BY <3>1, <3>2
  <2>3. 0..n \subseteq P
    <3> HIDE DEF P
    <3>1. QED
      BY <1>d, <2>1, <2>2, TurnByTurn
  <2>4. QED
    BY <1>d, <2>3
<1>12. QED
  BY <1>10, <1>11, Zenon

(* u8(), u16() and u32(): the numbers at offset o. *)
Num1(bytes, o) == bytes[o + 1]
Num2(bytes, o) == bytes[o + 1] * Base + bytes[o + 2]
Num4(bytes, o) == (Num2(bytes, o) * Base + bytes[o + 3]) * Base + bytes[o + 4]

(* u8(), u16() and u32() are those numbers, where the bytes are there. *)
LEMMA NumbersRead ==
    ASSUME NEW bytes \in Seq(Byte), NEW o, NEW p, Reads(p, bytes, o)
    PROVE  /\ o + 1 <= Len(bytes) => ParseInt(p, 1) = Num1(bytes, o)
           /\ o + 2 <= Len(bytes) => ParseInt(p, 2) = Num2(bytes, o)
           /\ o + 4 <= Len(bytes) => ParseInt(p, 4) = Num4(bytes, o)
<1>0. o \in Nat /\ Len(bytes) \in Nat
  BY DEF Reads
<1>1. ASSUME o + 1 <= Len(bytes) PROVE ParseInt(p, 1) = Num1(bytes, o)
  <2> DEFINE v == [i \in 0..1 |-> IF i = 0 THEN 0 ELSE bytes[o + 1]]
  <2>1. bytes[o + 1] \in Int
    <3>1. o + 1 \in 1..Len(bytes)
      BY <1>0, <1>1
    <3>2. bytes[o + 1] \in Byte
      BY <3>1
    <3>3. QED
      BY <3>2, ByteIs
  <2>2. v[0] = 0 /\ v[1] = bytes[o + 1] /\ v = [i \in 0..1 |-> v[i]]
    OBVIOUS
  <2> HIDE DEF v
  <2>3. ASSUME NEW i \in 1..1 PROVE v[i] = v[i - 1] * Base + bytes[o + i]
    <3>1. i = 1 /\ i - 1 = 0 /\ 0 * Base + bytes[o + 1] = bytes[o + 1]
      BY <2>1, Sizes
    <3>2. QED
      BY <2>2, <3>1
  <2>4. Digits(v, bytes, o, 1)
    BY <1>1, <2>2, <2>3, Zenon DEF Digits
  <2>5. ParseInt(p, 1) = v[1]
    BY ONLY bytes \in Seq(Byte), Reads(p, bytes, o), <2>4, ParseIntIs
  <2>6. QED
    BY <2>2, <2>5 DEF Num1
<1>2. ASSUME o + 2 <= Len(bytes) PROVE ParseInt(p, 2) = Num2(bytes, o)
  <2> DEFINE v == [i \in 0..2 |-> IF i = 0 THEN 0 ELSE IF i = 1 THEN bytes[o + 1] ELSE Num2(bytes, o)]
  <2>1. bytes[o + 1] \in Int
    <3>1. o + 1 \in 1..Len(bytes)
      BY <1>0, <1>2
    <3>2. bytes[o + 1] \in Byte
      BY <3>1
    <3>3. QED
      BY <3>2, ByteIs
  <2>2. v[0] = 0 /\ v[1] = bytes[o + 1] /\ v[2] = Num2(bytes, o) /\ v = [i \in 0..2 |-> v[i]]
    OBVIOUS
  <2> HIDE DEF v
  <2>3. ASSUME NEW i \in 1..2 PROVE v[i] = v[i - 1] * Base + bytes[o + i]
    <3>1. CASE i = 1
      <4>1. i - 1 = 0 /\ 0 * Base + bytes[o + 1] = bytes[o + 1]
        BY <2>1, <3>1, Sizes
      <4>2. QED
        BY <2>2, <3>1, <4>1
    <3>2. CASE i = 2
      BY <2>2, <3>2 DEF Num2
    <3>3. QED
      BY <3>1, <3>2
  <2>4. Digits(v, bytes, o, 2)
    BY <1>2, <2>2, <2>3, Zenon DEF Digits
  <2>5. ParseInt(p, 2) = v[2]
    BY ONLY bytes \in Seq(Byte), Reads(p, bytes, o), <2>4, ParseIntIs
  <2>6. QED
    BY <2>2, <2>5
<1>3. ASSUME o + 4 <= Len(bytes) PROVE ParseInt(p, 4) = Num4(bytes, o)
  <2> DEFINE w == Num2(bytes, o) * Base + bytes[o + 3]
             v == [i \in 0..4 |-> IF i = 0 THEN 0 ELSE IF i = 1 THEN bytes[o + 1]
                      ELSE IF i = 2 THEN Num2(bytes, o) ELSE IF i = 3 THEN w ELSE Num4(bytes, o)]
  <2>1. bytes[o + 1] \in Int
    <3>1. o + 1 \in 1..Len(bytes)
      BY <1>0, <1>3
    <3>2. bytes[o + 1] \in Byte
      BY <3>1
    <3>3. QED
      BY <3>2, ByteIs
  <2>2. /\ v[0] = 0 /\ v[1] = bytes[o + 1] /\ v[2] = Num2(bytes, o) /\ v[3] = w /\ v[4] = Num4(bytes, o)
        /\ v = [i \in 0..4 |-> v[i]]
    OBVIOUS
  <2> HIDE DEF v
  <2>3. ASSUME NEW i \in 1..4 PROVE v[i] = v[i - 1] * Base + bytes[o + i]
    <3>1. CASE i = 1
      <4>1. i - 1 = 0 /\ 0 * Base + bytes[o + 1] = bytes[o + 1]
        BY <2>1, <3>1, Sizes
      <4>2. QED
        BY <2>2, <3>1, <4>1
    <3>2. CASE i = 2
      BY <2>2, <3>2 DEF Num2
    <3>3. CASE i = 3
      BY <2>2, <3>3
    <3>4. CASE i = 4
      BY <2>2, <3>4 DEF Num4
    <3>5. QED
      BY <3>1, <3>2, <3>3, <3>4
  <2>4. Digits(v, bytes, o, 4)
    BY <1>3, <2>2, <2>3, Zenon DEF Digits
  <2>5. ParseInt(p, 4) = v[4]
    BY ONLY bytes \in Seq(Byte), Reads(p, bytes, o), <2>4, ParseIntIs
  <2>6. QED
    BY <2>2, <2>5
<1>4. QED
  BY <1>1, <1>2, <1>3

-----------------------------------------------------------------------------
(* TCPHeader::parse() *)

(* A parser that was to read the first o of the bytes: it has failed when  *)
(* there are not so many.                                                  *)
At(p, bytes, o) ==
    /\ o \in Nat
    /\ o <= Len(bytes) => Reads(p, bytes, o)
    /\ o > Len(bytes) => Broken(p)

(* Skipping keeps the parser at its offset, or broken beyond the end. *)
LEMMA SkipTo ==
    ASSUME NEW bytes \in Seq(Byte), NEW o, NEW p, At(p, bytes, o), NEW n \in Nat
    PROVE  At(Skip(p, n), bytes, o + n)
<1>1. /\ o \in Nat /\ Len(bytes) \in Nat
      /\ o <= Len(bytes) => Reads(p, bytes, o)
      /\ o > Len(bytes) => Broken(p)
  BY DEF At
<1>2. o + n \in Nat
  BY <1>1
<1>3. o + n <= Len(bytes) => Reads(Skip(p, n), bytes, o + n)
  <2>1. SUFFICES ASSUME o + n <= Len(bytes) PROVE Reads(Skip(p, n), bytes, o + n)
    OBVIOUS
  <2>2. o <= Len(bytes)
    BY <1>1, <2>1
  <2>3. QED
    BY <1>1, <2>1, <2>2, SkipReads, Zenon
<1>4. o + n > Len(bytes) => Broken(Skip(p, n))
  <2>1. SUFFICES ASSUME o + n > Len(bytes) PROVE Broken(Skip(p, n))
    OBVIOUS
  <2>2. CASE o <= Len(bytes)
    BY <1>1, <2>1, <2>2, SkipBreaks, Zenon
  <2>3. CASE o > Len(bytes)
    BY <1>1, <2>3, SkipBroken, Zenon
  <2>4. QED
    BY <1>1, <2>2, <2>3
<1>5. QED
  BY <1>2, <1>3, <1>4 DEF At

(* The header that the first bytes of a packet are. *)
HeaderOf(bytes) ==
    [sport |-> Num2(bytes, 0), dport |-> Num2(bytes, 2), seqno |-> Num4(bytes, 4), ackno |-> Num4(bytes, 8),
     doff |-> DoffOf(Num1(bytes, 12)), flags |-> FlagsOf(Num1(bytes, 13)), win |-> Num2(bytes, 14),
     cksum |-> Num2(bytes, 16), uptr |-> Num2(bytes, 18)]

(* The fields come from where they are in the packet, if it has them all.  *)
LEMMA FieldsRead ==
    ASSUME NEW bytes \in Seq(Byte)
    PROVE  /\ At(ParseFields(Parser(bytes)).p, bytes, 20)
           /\ 20 <= Len(bytes) => ParseFields(Parser(bytes)).header = HeaderOf(bytes)
<1>1. PICK p0, p1, p2, p3, p4, p5, p6, p7, p8, p9 :
         /\ p0 = Parser(bytes) /\ p1 = Skip(p0, 2) /\ p2 = Skip(p1, 2) /\ p3 = Skip(p2, 4)
         /\ p4 = Skip(p3, 4) /\ p5 = Skip(p4, 1) /\ p6 = Skip(p5, 1) /\ p7 = Skip(p6, 2)
         /\ p8 = Skip(p7, 2) /\ p9 = Skip(p8, 2)
  BY Zenon
<1>2. At(p0, bytes, 0)
  <2>1. 0 \in 0..Len(bytes) /\ 0 + 1 = 1 /\ ~ (0 > Len(bytes)) /\ 0 \in Nat
    OBVIOUS
  <2>2. From(bytes, 1) = bytes
    BY SubSeqFull, Zenon DEF From
  <2>3. Reads(p0, bytes, 0)
    BY <1>1, <2>1, <2>2, Zenon DEF Reads, Parser
  <2>4. QED
    BY <2>1, <2>3, Zenon DEF At
<1>3. At(p1, bytes, 2)
  BY ONLY <1>1, <1>2, bytes \in Seq(Byte), SkipTo
<1>4. At(p2, bytes, 4)
  BY ONLY <1>1, <1>3, bytes \in Seq(Byte), SkipTo
<1>5. At(p3, bytes, 8)
  BY ONLY <1>1, <1>4, bytes \in Seq(Byte), SkipTo
<1>6. At(p4, bytes, 12)
  BY ONLY <1>1, <1>5, bytes \in Seq(Byte), SkipTo
<1>7. At(p5, bytes, 13)
  BY ONLY <1>1, <1>6, bytes \in Seq(Byte), SkipTo
<1>8. At(p6, bytes, 14)
  BY ONLY <1>1, <1>7, bytes \in Seq(Byte), SkipTo
<1>9. At(p7, bytes, 16)
  BY ONLY <1>1, <1>8, bytes \in Seq(Byte), SkipTo
<1>10. At(p8, bytes, 18)
  BY ONLY <1>1, <1>9, bytes \in Seq(Byte), SkipTo
<1>11. At(p9, bytes, 20)
  BY ONLY <1>1, <1>10, bytes \in Seq(Byte), SkipTo
<1>12. PICK h : h =
         [sport |-> ParseInt(p0, 2), dport |-> ParseInt(p1, 2),
          seqno |-> ParseInt(p2, 4), ackno |-> ParseInt(p3, 4),
          doff  |-> DoffOf(ParseInt(p4, 1)), flags |-> FlagsOf(ParseInt(p5, 1)),
          win   |-> ParseInt(p6, 2), cksum |-> ParseInt(p7, 2), uptr |-> ParseInt(p8, 2)]
  OBVIOUS
<1>13. ParseFields(p0) = [header |-> h, p |-> p9]
  BY ONLY <1>1, <1>12 DEF ParseFields
<1>14. 20 <= Len(bytes) => h = HeaderOf(bytes)
  <2>1. SUFFICES ASSUME 20 <= Len(bytes) PROVE h = HeaderOf(bytes)
    OBVIOUS
  <2>2. /\ Reads(p0, bytes, 0) /\ Reads(p1, bytes, 2) /\ Reads(p2, bytes, 4) /\ Reads(p3, bytes, 8)
        /\ Reads(p4, bytes, 12) /\ Reads(p5, bytes, 13) /\ Reads(p6, bytes, 14) /\ Reads(p7, bytes, 16)
        /\ Reads(p8, bytes, 18)
    BY <1>2, <1>3, <1>4, <1>5, <1>6, <1>7, <1>8, <1>9, <1>10, <2>1 DEF At
  <2>3. ParseInt(p0, 2) = Num2(bytes, 0) /\ ParseInt(p1, 2) = Num2(bytes, 2)
    BY ONLY <2>1, <2>2, bytes \in Seq(Byte), NumbersRead
  <2>4. ParseInt(p2, 4) = Num4(bytes, 4) /\ ParseInt(p3, 4) = Num4(bytes, 8)
    BY ONLY <2>1, <2>2, bytes \in Seq(Byte), NumbersRead
  <2>5. ParseInt(p4, 1) = Num1(bytes, 12) /\ ParseInt(p5, 1) = Num1(bytes, 13)
    BY ONLY <2>1, <2>2, bytes \in Seq(Byte), NumbersRead
  <2>6. ParseInt(p6, 2) = Num2(bytes, 14) /\ ParseInt(p7, 2) = Num2(bytes, 16)
    BY ONLY <2>1, <2>2, bytes \in Seq(Byte), NumbersRead
  <2>7. ParseInt(p8, 2) = Num2(bytes, 18)
    BY ONLY <2>1, <2>2, bytes \in Seq(Byte), NumbersRead
  <2>8. QED
    BY <1>12, <2>3, <2>4, <2>5, <2>6, <2>7, Zenon DEF HeaderOf
<1>15. QED
  BY ONLY <1>1, <1>11, <1>13, <1>14

(* Where the payload of a packet starts, by its doff. *)
StartOf(bytes) == 4 * DoffOf(bytes[13])

(* The data offset of a byte: four bits. *)
LEMMA DoffIs ==
    ASSUME NEW b \in Byte
    PROVE  DoffOf(b) \in 0..15
<1>1. b \in Int /\ 0 <= b /\ b <= Base - 1
  BY ByteIs
<1>2. CASE Base = 64
  BY <1>1, <1>2 DEF DoffOf
<1>3. CASE Base = 128
  BY <1>1, <1>3 DEF DoffOf
<1>4. CASE Base = 256
  BY <1>1, <1>4 DEF DoffOf
<1>5. QED
  BY <1>2, <1>3, <1>4, BaseAssumption

(* TCPHeader::parse() of a packet: it fails when the fields or the options *)
(* are not all there, and otherwise stops where doff says.                 *)
LEMMA HeaderRead ==
    ASSUME NEW bytes \in Seq(Byte), NEW s, s = ParseHeader(Parser(bytes))
    PROVE  /\ Len(bytes) < 20 => Broken(s.p)
           /\ 20 <= Len(bytes) =>
                /\ s.header = HeaderOf(bytes) /\ StartOf(bytes) \in 0..60
                /\ StartOf(bytes) < 20 => Reads(s.p, bytes, 20)
                /\ StartOf(bytes) >= 20 => At(s.p, bytes, StartOf(bytes))
<1>1. PICK f : f = ParseFields(Parser(bytes))
  OBVIOUS
<1>2. s = IF f.header.doff < 5 THEN f ELSE [f EXCEPT !.p = Skip(f.p, f.header.doff * 4 - 20)]
  BY <1>1, Zenon DEF ParseHeader, SkipOptions, LENGTH
<1>3. At(f.p, bytes, 20) /\ (20 <= Len(bytes) => f.header = HeaderOf(bytes))
  BY <1>1, FieldsRead, Zenon
<1>4. PICK h, p : f = [header |-> h, p |-> p]
  BY <1>1, Zenon DEF ParseFields
<1>5. f.header = h /\ f.p = p
  BY ONLY <1>4
<1>6. s.header = h /\ s.p = IF h.doff < 5 THEN p ELSE Skip(p, h.doff * 4 - 20)
  <2>1. [f EXCEPT !.p = Skip(p, h.doff * 4 - 20)] = [header |-> h, p |-> Skip(p, h.doff * 4 - 20)]
    BY ONLY <1>4
  <2>2. s = IF h.doff < 5 THEN f ELSE [header |-> h, p |-> Skip(p, h.doff * 4 - 20)]
    BY <1>2, <1>5, <2>1, Zenon
  <2>3. QED
    BY ONLY <1>4, <2>2
<1>7. ASSUME Len(bytes) < 20 PROVE Broken(s.p)
  <2>1. Broken(p)
    BY <1>3, <1>5, <1>7 DEF At
  <2>2. Broken(Skip(p, h.doff * 4 - 20))
    BY <2>1, SkipBroken, Zenon
  <2>3. QED
    BY <1>6, <2>1, <2>2, Zenon
<1>8. ASSUME 20 <= Len(bytes)
      PROVE  /\ s.header = HeaderOf(bytes) /\ StartOf(bytes) \in 0..60
             /\ StartOf(bytes) < 20 => Reads(s.p, bytes, 20)
             /\ StartOf(bytes) >= 20 => At(s.p, bytes, StartOf(bytes))
  <2>1. h = HeaderOf(bytes)
    BY <1>3, <1>5, <1>8, Zenon
  <2>2. PICK d \in 0..15 : d = h.doff /\ StartOf(bytes) = 4 * d
    <3>1. bytes[13] \in Byte /\ 12 + 1 = 13
      BY <1>8
    <3>2. DoffOf(bytes[13]) \in 0..15
      BY <3>1, DoffIs
    <3>3. HeaderOf(bytes).doff = DoffOf(Num1(bytes, 12))
      BY DEF HeaderOf
    <3>4. h.doff = DoffOf(bytes[13])
      BY <2>1, <3>1, <3>3, Zenon DEF Num1
    <3>5. QED
      BY <3>2, <3>4, Zenon DEF StartOf
  <2>3. d < 5 => Reads(s.p, bytes, 20)
    <3>1. Reads(p, bytes, 20)
      BY <1>3, <1>5, <1>8, Zenon DEF At
    <3>2. QED
      BY <1>6, <2>2, <3>1, Zenon
  <2>4. ~ (d < 5) => At(s.p, bytes, 4 * d)
    <3>1. SUFFICES ASSUME ~ (d < 5) PROVE At(s.p, bytes, 4 * d)
      OBVIOUS
    <3>2. PICK n \in Nat : n = d * 4 - 20 /\ 20 + n = 4 * d
      BY <3>1
    <3>3. At(Skip(p, n), bytes, 20 + n)
      BY <1>3, <1>5, SkipTo, Zenon
    <3>4. s.p = Skip(p, n)
      BY <1>6, <2>2, <3>1, <3>2, Zenon
    <3>5. QED
      BY <3>2, <3>3, <3>4, Zenon
  <2>5. 4 * d \in 0..60 /\ (4 * d < 20 <=> d < 5) /\ (4 * d >= 20 <=> ~ (d < 5))
    OBVIOUS
  <2>6. QED
    BY <1>6, <2>1, <2>2, <2>3, <2>4, <2>5, Zenon
<1>9. QED
  BY <1>7, <1>8

(* What TCPSegment::parse() makes of a packet, by its length, its doff and *)
(* whether its checksum is good.                                           *)
ParsedAs(bytes, p, r) ==
    /\ ~ GoodChecksum(bytes, p) => r = [segment |-> TCPSegmentInit, result |-> "BadChecksum"]
    /\ GoodChecksum(bytes, p) =>
         /\ r.result = IF Len(bytes) < 20 \/ Len(bytes) < StartOf(bytes) THEN "PacketTooShort" ELSE "NoError"
         /\ 20 <= Len(bytes) => r.segment.header = HeaderOf(bytes)
         /\ 20 <= StartOf(bytes) /\ 20 <= Len(bytes) /\ StartOf(bytes) <= Len(bytes) =>
               r.segment.payload = From(bytes, StartOf(bytes) + 1)

(* parse() of any bytes under any pseudo-header is what ParsedAs says. *)
LEMMA SegmentRead ==
    ASSUME NEW bytes \in Seq(Byte), NEW p
    PROVE  ParsedAs(bytes, p, ParseSegment(TCPSegmentInit, bytes, p))
<1>1. PICK s : s = ParseHeader(Parser(bytes))
  OBVIOUS
<1>2. PICK r : r = ParseSegment(TCPSegmentInit, bytes, p)
  OBVIOUS
<1>3. r = IF ~ GoodChecksum(bytes, p) THEN [segment |-> TCPSegmentInit, result |-> "BadChecksum"]
          ELSE [segment |-> [header |-> s.header, payload |-> s.p.buffer], result |-> s.p.error]
  BY <1>1, <1>2, Zenon DEF ParseSegment
<1>4. ASSUME GoodChecksum(bytes, p)
      PROVE  /\ r.result = IF Len(bytes) < 20 \/ Len(bytes) < StartOf(bytes) THEN "PacketTooShort" ELSE "NoError"
             /\ 20 <= Len(bytes) => r.segment.header = HeaderOf(bytes)
             /\ 20 <= StartOf(bytes) /\ 20 <= Len(bytes) /\ StartOf(bytes) <= Len(bytes) =>
                   r.segment.payload = From(bytes, StartOf(bytes) + 1)
  <2>1. r.result = s.p.error /\ r.segment.header = s.header /\ r.segment.payload = s.p.buffer
    BY <1>3, <1>4
  <2>2. PICK n \in Nat : n = Len(bytes)
    OBVIOUS
  <2>3. ASSUME n < 20 PROVE s.p.error = "PacketTooShort"
    <3>1. Broken(s.p)
      BY <1>1, <2>2, <2>3, HeaderRead, Zenon
    <3>2. QED
      BY <3>1 DEF Broken
  <2>4. ASSUME 20 <= n
        PROVE  /\ s.header = HeaderOf(bytes)
               /\ s.p.error = IF n < StartOf(bytes) THEN "PacketTooShort" ELSE "NoError"
               /\ 20 <= StartOf(bytes) /\ StartOf(bytes) <= n => s.p.buffer = From(bytes, StartOf(bytes) + 1)
    <3>1. /\ s.header = HeaderOf(bytes) /\ StartOf(bytes) \in 0..60
          /\ StartOf(bytes) < 20 => Reads(s.p, bytes, 20)
          /\ StartOf(bytes) >= 20 => At(s.p, bytes, StartOf(bytes))
      BY <1>1, <2>2, <2>4, HeaderRead, Zenon
    <3>2. PICK o \in 0..60 : o = StartOf(bytes)
      BY <3>1
    <3>3. CASE o < 20
      <4>1. s.p.error = "NoError"
        BY <3>1, <3>2, <3>3 DEF Reads
      <4>2. ~ (n < o) /\ ~ (20 <= o)
        BY <2>4, <3>3
      <4>3. QED
        BY <3>1, <3>2, <4>1, <4>2, Zenon
    <3>4. CASE o >= 20
      <4>1. At(s.p, bytes, o)
        BY <3>1, <3>2, <3>4, Zenon
      <4>2. o <= n => Reads(s.p, bytes, o)
        BY <2>2, <4>1, Zenon DEF At
      <4>3. o > n => Broken(s.p)
        BY <2>2, <4>1, Zenon DEF At
      <4>4. o <= n => s.p.error = "NoError" /\ s.p.buffer = From(bytes, o + 1)
        BY <4>2 DEF Reads
      <4>5. o > n => s.p.error = "PacketTooShort"
        <5>1. SUFFICES ASSUME o > n PROVE s.p.error = "PacketTooShort"
          OBVIOUS
        <5>2. Broken(s.p)
          BY <4>3, <5>1
        <5>3. QED
          BY <5>2 DEF Broken
      <4>6. (n < o <=> o > n) /\ (o > n <=> ~ (o <= n))
        OBVIOUS
      <4>7. QED
        BY <3>1, <3>2, <4>4, <4>5, <4>6, Zenon
    <3>5. QED
      BY <3>3, <3>4
  <2>5. n < 20 <=> ~ (20 <= n)
    OBVIOUS
  <2>6. QED
    BY <2>1, <2>2, <2>3, <2>4, <2>5, Zenon
<1>5. QED
  BY <1>2, <1>3, <1>4, Zenon DEF ParsedAs

-----------------------------------------------------------------------------
(* NetUnparser *)

(* Division of a natural number. *)
LEMMA DivNat ==
    ASSUME NEW v \in Nat, NEW W \in Nat, W > 0
    PROVE  /\ v \div W \in Nat /\ v % W \in 0..(W - 1)
           /\ v = (v \div W) * W + (v % W)
<1>1. PICK q \in Int, r \in Int : q = v \div W /\ r = v % W /\ v = q * W + r /\ 0 <= r /\ r < W
  BY DivMod
<1>2. q \in Nat
  <2>1. SUFFICES ASSUME q <= -1 PROVE FALSE
    OBVIOUS
  <2>2. q * W <= (-1) * W /\ q * W \in Int
    BY <2>1, TimesAtLeast
  <2>3. QED
    BY <1>1, <2>2
<1>3. v % W \in 0..(W - 1)
  BY <1>1
<1>4. v = (v \div W) * W + (v % W)
  BY DivMod
<1>5. QED
  BY <1>1, <1>2, <1>3, <1>4

(* The division of a division. *)
LEMMA DivDiv ==
    ASSUME NEW v \in Nat, NEW B \in Nat, B > 0, NEW W \in Nat, W > 0, NEW n \in Nat, n = W * B
    PROVE  v \div n = (v \div W) \div B
<1>1. PICK q \in Int, r \in Int : q = v \div W /\ r = v % W /\ v = q * W + r /\ 0 <= r /\ r < W
  BY DivMod
<1>3. PICK k \in Int, s \in Int : k = q \div B /\ s = q % B /\ q = k * B + s /\ 0 <= s /\ s < B
  BY DivMod
<1>4. n > 0
  BY TimesAtLeast
<1>5. v = k * n + (s * W + r) /\ s * W + r \in Int /\ 0 <= s * W + r /\ s * W + r < n
  <2>1. s * W >= 0 * W /\ s * W <= (B - 1) * W /\ s * W \in Int
    BY <1>3, TimesAtLeast
  <2>2. (B - 1) * W = n - W
    BY <1>4
  <2>3. v = (k * B + s) * W + r /\ (k * B + s) * W = k * n + s * W /\ k * n \in Int
    BY <1>1, <1>3, <1>4
  <2>4. QED
    BY <1>1, <1>4, <2>1, <2>2, <2>3
<1>6. v \div n = k
  <2>1. PICK m \in Int : m = s * W + r
    BY <1>5
  <2>2. PICK j \in Int, t \in Int : j = v \div n /\ v = j * n + t /\ 0 <= t /\ t < n
    BY <1>4, DivMod
  <2>3. ~ (j >= k + 1)
    <3>1. SUFFICES ASSUME j >= k + 1 PROVE FALSE
      OBVIOUS
    <3>2. j * n >= (k + 1) * n /\ j * n \in Int
      BY <3>1, TimesAtLeast
    <3>3. (k + 1) * n = k * n + n /\ k * n \in Int
      OBVIOUS
    <3>4. QED
      BY <1>5, <2>1, <2>2, <3>2, <3>3
  <2>4. ~ (k >= j + 1)
    <3>1. SUFFICES ASSUME k >= j + 1 PROVE FALSE
      OBVIOUS
    <3>2. k * n >= (j + 1) * n /\ k * n \in Int
      BY <3>1, TimesAtLeast
    <3>3. (j + 1) * n = j * n + n /\ j * n \in Int
      OBVIOUS
    <3>4. QED
      BY <1>5, <2>1, <2>2, <3>2, <3>3
  <2>5. j = k
    BY <2>3, <2>4
  <2>6. QED
    BY <2>2, <2>5
<1>7. QED
  BY <1>1, <1>3, <1>6

(* The leading digit of a number below B * W. *)
LEMMA DivBelow ==
    ASSUME NEW v \in Nat, NEW B \in Nat, B > 0, NEW W \in Nat, W > 0, NEW n \in Nat, n = B * W, v < n
    PROVE  v \div W \in 0..(B - 1)
<1>1. PICK q \in Nat, r \in Int : q = v \div W /\ v = q * W + r /\ 0 <= r
  BY DivNat
<1>2. SUFFICES ASSUME q >= B PROVE FALSE
  BY <1>1
<1>3. q * W >= B * W /\ q * W \in Int /\ B * W \in Int
  BY <1>2, TimesAtLeast
<1>4. QED
  BY <1>1, <1>3

(* A number in one, two or four bytes. *)
LEMMA UnparseIs ==
    /\ \A v \in Byte : UnparseInt(v, 1) = <<v>>
    /\ \A v \in Uint16 :
          \E b1, b2 \in Byte : UnparseInt(v, 2) = <<b1, b2>> /\ v = b1 * Base + b2
    /\ \A v \in Uint32 :
          \E b1, b2, b3, b4 \in Byte :
             /\ UnparseInt(v, 4) = <<b1, b2, b3, b4>>
             /\ v = ((b1 * Base + b2) * Base + b3) * Base + b4
<1>0. Base \in Nat /\ Base > 0 /\ Word = Base * Base /\ Word \in Nat /\ Word > 0
  BY Sizes
<1>1. Weight[1] = 1 /\ Weight[2] = Base /\ Weight[3] = Word /\ Weight[4] = Word * Base
  BY DEF Weight
<1>2. ASSUME NEW v \in Nat PROVE v \div 1 = v
  OBVIOUS
<1>3. ASSUME NEW v \in Nat
      PROVE  /\ UnparseInt(v, 1) = <<v % Base>>
             /\ UnparseInt(v, 2) = <<(v \div Base) % Base, v % Base>>
             /\ UnparseInt(v, 4) = <<(v \div (Word * Base)) % Base, (v \div Word) % Base,
                                     (v \div Base) % Base, v % Base>>
  <2>1. PICK d1, d2, d3, d4 : /\ d1 = v % Base /\ d2 = (v \div Base) % Base
                             /\ d3 = (v \div Word) % Base /\ d4 = (v \div (Word * Base)) % Base
    BY Zenon
  <2>2. /\ (v \div Weight[1]) % Base = d1 /\ (v \div Weight[2]) % Base = d2
        /\ (v \div Weight[3]) % Base = d3 /\ (v \div Weight[4]) % Base = d4
    BY <1>1, <1>2, <2>1, Zenon
  <2> DEFINE D(n) == (v \div Weight[n]) % Base
  <2> HIDE DEF D
  <2>3. D(1) = d1 /\ D(2) = d2 /\ D(3) = d3 /\ D(4) = d4
    BY <2>2, Zenon DEF D
  <2>4. ASSUME NEW n PROVE UnparseInt(v, n) = [i \in 1..n |-> D(n - i + 1)]
    BY Zenon DEF D, UnparseInt
  <2>5. [i \in 1..1 |-> D(1 - i + 1)] = <<d1>>
    BY ONLY <2>3
  <2>6. [i \in 1..2 |-> D(2 - i + 1)] = <<d2, d1>>
    BY ONLY <2>3
  <2>7. [i \in 1..4 |-> D(4 - i + 1)] = <<d4, d3, d2, d1>>
    BY ONLY <2>3
  <2>8. QED
    BY <2>1, <2>4, <2>5, <2>6, <2>7, Zenon
<1>4. ASSUME NEW v \in Nat
      PROVE  /\ \E q \in Nat, b \in Byte : q = v \div Base /\ b = v % Base /\ v = q * Base + b
             /\ v < Base => v % Base = v
  <2>1. v % Base \in 0..(Base - 1) /\ v \div Base \in Nat /\ v = (v \div Base) * Base + (v % Base)
    BY ONLY <1>0, v \in Nat, DivNat
  <2>2. PICK q \in Nat, b \in Byte : q = v \div Base /\ b = v % Base
    BY <2>1, Zenon DEF Byte
  <2>3. v = q * Base + b
    BY ONLY <2>1, <2>2
  <2>4. v < Base => v % Base = v
    BY ONLY <1>0, v \in Nat, ModSmall
  <2>5. QED
    BY <2>2, <2>3, <2>4, Zenon
<1>5. ASSUME NEW v \in Byte PROVE UnparseInt(v, 1) = <<v>>
  <2>1. v \in Nat /\ v < Base
    BY <1>0, ByteIs
  <2>2. v % Base = v
    BY <1>4, <2>1
  <2>3. UnparseInt(v, 1) = <<v % Base>>
    BY <1>3, <2>1
  <2>4. QED
    BY <2>2, <2>3, Zenon
<1>6. ASSUME NEW v \in Uint16
      PROVE  \E b1, b2 \in Byte : UnparseInt(v, 2) = <<b1, b2>> /\ v = b1 * Base + b2
  <2>1. v \in Nat /\ v < Word
    BY <1>0 DEF Uint16
  <2>2. v \div Base \in 0..(Base - 1)
    BY ONLY <1>0, <2>1, DivBelow
  <2>3. PICK q \in Nat, b2 \in Byte : q = v \div Base /\ b2 = v % Base /\ v = q * Base + b2
    BY <1>4, <2>1
  <2>4. PICK b1 \in Byte : b1 = q /\ b1 \in Nat /\ b1 < Base
    BY <1>0, <2>2, <2>3 DEF Byte
  <2>5. b1 % Base = b1
    BY <1>4, <2>4
  <2>6. UnparseInt(v, 2) = <<(v \div Base) % Base, v % Base>>
    BY <1>3, <2>1
  <2>7. UnparseInt(v, 2) = <<b1, b2>>
    BY <2>3, <2>4, <2>5, <2>6, Zenon
  <2>8. v = b1 * Base + b2
    BY <2>3, <2>4, Zenon
  <2>9. QED
    BY <2>7, <2>8, Zenon
<1>7. ASSUME NEW v \in Uint32
      PROVE  \E b1, b2, b3, b4 \in Byte :
                /\ UnparseInt(v, 4) = <<b1, b2, b3, b4>>
                /\ v = ((b1 * Base + b2) * Base + b3) * Base + b4
  <2>1. v \in Nat /\ v < Word * Word
    BY Sizes DEF Uint32
  <2>2. PICK q1 \in Nat, b4 \in Byte : q1 = v \div Base /\ b4 = v % Base /\ v = q1 * Base + b4
    BY <1>4, <2>1, Zenon
  <2>3. PICK q2 \in Nat, b3 \in Byte : q2 = q1 \div Base /\ b3 = q1 % Base /\ q1 = q2 * Base + b3
    BY <1>4, Zenon
  <2>4. PICK q3 \in Nat, b2 \in Byte : q3 = q2 \div Base /\ b2 = q2 % Base /\ q2 = q3 * Base + b2
    BY <1>4, Zenon
  <2>5. v \div Word = q2
    <3>1. v \div Word = (v \div Base) \div Base
      BY ONLY <1>0, <2>1, DivDiv
    <3>2. QED
      BY <1>0, <2>2, <2>3, <3>1, Zenon
  <2>6. v \div (Word * Base) = q3
    <3>0. PICK n \in Nat : n = Word * Base
      BY <1>0
    <3>1. v \div n = (v \div Word) \div Base
      BY ONLY <1>0, <2>1, <3>0, n \in Nat, DivDiv
    <3>2. QED
      BY <2>4, <2>5, <3>0, <3>1, Zenon
  <2>7. q2 < Word
    <3>0. PICK n \in Nat : n = Word * Word
      BY <1>0
    <3>1. v \div Word \in 0..(Word - 1)
      BY ONLY <1>0, <2>1, <3>0, n \in Nat, DivBelow
    <3>2. QED
      BY <1>0, <2>5, <3>1
  <2>8. q3 \in 0..(Base - 1)
    <3>2. q2 \div Base \in 0..(Base - 1)
      BY ONLY <1>0, <2>7, q2 \in Nat, DivBelow
    <3>3. QED
      BY <2>4, <3>2, Zenon
  <2>9. PICK b1 \in Byte : b1 = q3 /\ b1 \in Nat /\ b1 < Base
    BY <1>0, <2>8 DEF Byte
  <2>10. b1 % Base = b1
    BY <1>4, <2>9
  <2>11. UnparseInt(v, 4) = <<(v \div (Word * Base)) % Base, (v \div Word) % Base,
                              (v \div Base) % Base, v % Base>>
    BY <1>3, <2>1
  <2>12. UnparseInt(v, 4) = <<b1, b2, b3, b4>>
    BY <2>2, <2>3, <2>4, <2>5, <2>6, <2>9, <2>10, <2>11, Zenon
  <2>13. v = ((b1 * Base + b2) * Base + b3) * Base + b4
    BY <2>2, <2>3, <2>4, <2>9, Zenon
  <2>14. QED
    BY <2>12, <2>13, Zenon
<1>8. QED
  BY <1>5, <1>6, <1>7, Zenon

-----------------------------------------------------------------------------
(* TCPHeader::serialize() *)

(* The byte with the data offset, and back. *)
LEMMA DoffRead ==
    ASSUME NEW d \in 5..15
    PROVE  DoffByte(d) \in Byte /\ DoffOf(DoffByte(d)) = d
<1>1. CASE Base = 64
  BY <1>1 DEF DoffOf, DoffByte, Byte
<1>2. CASE Base = 128
  BY <1>2 DEF DoffOf, DoffByte, Byte
<1>3. CASE Base = 256
  BY <1>3 DEF DoffOf, DoffByte, Byte
<1>4. QED
  BY <1>1, <1>2, <1>3, BaseAssumption

(* The byte with the flags, and back: six bits that do not disturb each    *)
(* other.                                                                  *)
LEMMA BitsRead ==
    ASSUME NEW u \in 0..1, NEW a \in 0..1, NEW p \in 0..1, NEW r \in 0..1, NEW s \in 0..1, NEW f \in 0..1,
           NEW b \in Int, b = 32 * u + 16 * a + 8 * p + 4 * r + 2 * s + f
    PROVE  /\ b \in 0..63
           /\ (b \div 32) % 2 = u /\ (b \div 16) % 2 = a /\ (b \div 8) % 2 = p
           /\ (b \div 4) % 2 = r /\ (b \div 2) % 2 = s /\ (b \div 1) % 2 = f
  OBVIOUS

(* The flags that parse() reads from the byte that serialize() writes are  *)
(* the same set.                                                           *)
LEMMA FlagsRead ==
    ASSUME NEW flags \in SUBSET DOMAIN FlagBit
    PROVE  FlagByte(flags) \in Byte /\ FlagsOf(FlagByte(flags)) = flags
<1> DEFINE in(g) == IF g \in flags THEN 1 ELSE 0
<1>1. PICK u \in 0..1, a \in 0..1, p \in 0..1, r \in 0..1, s \in 0..1, f \in 0..1 :
         /\ u = in("urg") /\ a = in("ack") /\ p = in("psh") /\ r = in("rst") /\ s = in("syn") /\ f = in("fin")
  <2>1. \A g : in(g) \in 0..1
    OBVIOUS
  <2> HIDE DEF in
  <2>2. QED
    BY <2>1, Zenon
<1>2. PICK b \in Int : b = 32 * u + 16 * a + 8 * p + 4 * r + 2 * s + f
  OBVIOUS
<1>3. /\ b \in 0..63
      /\ (b \div 32) % 2 = u /\ (b \div 16) % 2 = a /\ (b \div 8) % 2 = p
      /\ (b \div 4) % 2 = r /\ (b \div 2) % 2 = s /\ (b \div 1) % 2 = f
  BY ONLY <1>2, BitsRead, u \in 0..1, a \in 0..1, p \in 0..1, r \in 0..1, s \in 0..1, f \in 0..1, b \in Int
<1>4. /\ FlagBit["urg"] = 32 /\ FlagBit["ack"] = 16 /\ FlagBit["psh"] = 8
      /\ FlagBit["rst"] = 4 /\ FlagBit["syn"] = 2 /\ FlagBit["fin"] = 1
      /\ DOMAIN FlagBit = {"urg", "ack", "psh", "rst", "syn", "fin"}
  BY DEF FlagBit
<1>5. FlagByte(flags) = b
  <2>1. FlagByte(flags) = (IF "urg" \in flags THEN 32 ELSE 0) + (IF "ack" \in flags THEN 16 ELSE 0)
                          + (IF "psh" \in flags THEN 8 ELSE 0) + (IF "rst" \in flags THEN 4 ELSE 0)
                          + (IF "syn" \in flags THEN 2 ELSE 0) + (IF "fin" \in flags THEN 1 ELSE 0)
    BY <1>4 DEF FlagByte
  <2>2. QED
    BY <1>1, <1>2, <2>1
<1>6. FlagsOf(b) = flags
  <2>1. ASSUME NEW g \in DOMAIN FlagBit PROVE (b \div FlagBit[g]) % 2 = 1 <=> g \in flags
    <3>1. g \in {"urg", "ack", "psh", "rst", "syn", "fin"}
      BY <1>4
    <3>2. in(g) = 1 <=> g \in flags
      OBVIOUS
    <3> HIDE DEF in
    <3>3. (b \div FlagBit[g]) % 2 = in(g)
      BY <1>1, <1>3, <1>4, <3>1, Zenon
    <3>4. QED
      BY <3>2, <3>3, Zenon
  <2>2. QED
    BY <2>1, Zenon DEF FlagsOf
<1>7. b \in Byte
  BY <1>3, BaseAssumption DEF Byte
<1>8. QED
  BY <1>5, <1>6, <1>7

(* The bytes begin with c; and they hold u after the first o. *)
Starts(bytes, c) ==
    /\ bytes \in Seq(Byte) /\ c \in Seq(Byte) /\ Len(c) <= Len(bytes)
    /\ \A i \in 1..Len(c) : bytes[i] = c[i]

(* The bytes after the first o begin with those of u. *)
Holds(bytes, o, u) == \A i \in 1..Len(u) : bytes[o + i] = u[i]

(* Bytes that begin with two pieces begin with the first and hold the      *)
(* second after it.                                                        *)
LEMMA StartsWithBoth ==
    ASSUME NEW bytes, NEW c \in Seq(Byte), NEW u \in Seq(Byte), Starts(bytes, c \o u)
    PROVE  Starts(bytes, c) /\ Holds(bytes, Len(c), u)
<1>1. PICK a : a = c \o u
  OBVIOUS
<1>2. /\ a \in Seq(Byte) /\ Len(a) = Len(c) + Len(u) /\ Len(c) \in Nat /\ Len(u) \in Nat
      /\ \A i \in 1..Len(c) : a[i] = c[i]
      /\ \A i \in 1..Len(u) : a[Len(c) + i] = u[i]
  BY <1>1, ConcatProperties
<1>3. /\ bytes \in Seq(Byte) /\ Len(a) <= Len(bytes) /\ Len(bytes) \in Nat
      /\ \A i \in 1..Len(a) : bytes[i] = a[i]
  BY <1>1 DEF Starts
<1>4. Starts(bytes, c)
  BY <1>2, <1>3 DEF Starts
<1>5. Holds(bytes, Len(c), u)
  BY <1>2, <1>3 DEF Holds
<1>6. QED
  BY <1>4, <1>5

(* The options that serialize() fills up with. *)
Zeros(n) == [i \in 1..n |-> 0]

(* A sequence of n bytes, and what it grows to. *)
Is(c, n) == c \in Seq(Byte) /\ n \in Nat /\ Len(c) = n

(* Two pieces together: serialize() appends one field after the other. *)
LEMMA Grows ==
    ASSUME NEW c, NEW m, Is(c, m), NEW u, NEW k, Is(u, k)
    PROVE  Is(c \o u, m + k)
  BY ConcatProperties DEF Is

(* The same as StartsWithBoth, with the lengths given. *)
LEMMA StartsWith ==
    ASSUME NEW bytes, NEW c, NEW m, Is(c, m), NEW u, NEW k, Is(u, k), NEW a, a = c \o u, Starts(bytes, a)
    PROVE  Starts(bytes, c) /\ Holds(bytes, m, u)
<1>1. c \in Seq(Byte) /\ u \in Seq(Byte) /\ Len(c) = m
  BY DEF Is
<1>2. QED
  BY <1>1, StartsWithBoth, Zenon

(* The pieces a header is made of. *)
LEMMA PiecesOfHeader ==
    ASSUME NEW h \in SentHeaders
    PROVE  /\ h.sport \in Uint16 /\ h.dport \in Uint16 /\ h.seqno \in Uint32 /\ h.ackno \in Uint32
           /\ h.doff \in 5..15 /\ h.flags \in SUBSET DOMAIN FlagBit
           /\ h.win \in Uint16 /\ h.cksum \in Uint16 /\ h.uptr \in Uint16
           /\ h = [sport |-> h.sport, dport |-> h.dport, seqno |-> h.seqno, ackno |-> h.ackno,
                   doff |-> h.doff, flags |-> h.flags, win |-> h.win, cksum |-> h.cksum, uptr |-> h.uptr]
  BY DEF SentHeaders

(* The sequences of a number. *)
LEMMA UnparsedAre ==
    /\ \A v \in Byte : Is(UnparseInt(v, 1), 1)
    /\ \A v \in Uint16 : Is(UnparseInt(v, 2), 2)
    /\ \A v \in Uint32 : Is(UnparseInt(v, 4), 4)
<1>1. ASSUME NEW v \in Byte PROVE Is(UnparseInt(v, 1), 1)
  <2>1. UnparseInt(v, 1) = <<v>>
    BY UnparseIs
  <2>2. Is(<<v>>, 1)
    BY DEF Is
  <2>3. QED
    BY <2>1, <2>2, Zenon
<1>2. ASSUME NEW v \in Uint16 PROVE Is(UnparseInt(v, 2), 2)
  <2>1. PICK b1 \in Byte, b2 \in Byte : UnparseInt(v, 2) = <<b1, b2>>
    BY UnparseIs, Zenon
  <2>2. Is(<<b1, b2>>, 2)
    BY DEF Is
  <2>3. QED
    BY <2>1, <2>2, Zenon
<1>3. ASSUME NEW v \in Uint32 PROVE Is(UnparseInt(v, 4), 4)
  <2>1. PICK b1 \in Byte, b2 \in Byte, b3 \in Byte, b4 \in Byte : UnparseInt(v, 4) = <<b1, b2, b3, b4>>
    BY UnparseIs, Zenon
  <2>2. Is(<<b1, b2, b3, b4>>, 4)
    BY DEF Is
  <2>3. QED
    BY <2>1, <2>2, Zenon
<1>4. QED
  BY <1>1, <1>2, <1>3

(* A number that a packet holds is read from it. *)
LEMMA HeldIsRead ==
    ASSUME NEW bytes, NEW o \in Nat
    PROVE  /\ \A v \in Byte : Holds(bytes, o, UnparseInt(v, 1)) => Num1(bytes, o) = v
           /\ \A v \in Uint16 : Holds(bytes, o, UnparseInt(v, 2)) => Num2(bytes, o) = v
           /\ \A v \in Uint32 : Holds(bytes, o, UnparseInt(v, 4)) => Num4(bytes, o) = v
<1>1. ASSUME NEW v \in Byte, Holds(bytes, o, UnparseInt(v, 1)) PROVE Num1(bytes, o) = v
  <2>1. UnparseInt(v, 1) = <<v>>
    BY UnparseIs
  <2>2. Holds(bytes, o, <<v>>)
    BY <1>1, <2>1, Zenon
  <2>3. bytes[o + 1] = v
    BY <2>2 DEF Holds
  <2>4. QED
    BY <2>3 DEF Num1
<1>2. ASSUME NEW v \in Uint16, Holds(bytes, o, UnparseInt(v, 2)) PROVE Num2(bytes, o) = v
  <2>1. PICK b1 \in Byte, b2 \in Byte : UnparseInt(v, 2) = <<b1, b2>> /\ v = b1 * Base + b2
    BY UnparseIs, Zenon
  <2>2. Holds(bytes, o, <<b1, b2>>)
    BY <1>2, <2>1, Zenon
  <2>3. bytes[o + 1] = b1 /\ bytes[o + 2] = b2
    BY <2>2 DEF Holds
  <2>4. QED
    BY <2>1, <2>3, Zenon DEF Num2
<1>3. ASSUME NEW v \in Uint32, Holds(bytes, o, UnparseInt(v, 4)) PROVE Num4(bytes, o) = v
  <2>1. PICK b1 \in Byte, b2 \in Byte, b3 \in Byte, b4 \in Byte :
           UnparseInt(v, 4) = <<b1, b2, b3, b4>> /\ v = ((b1 * Base + b2) * Base + b3) * Base + b4
    BY UnparseIs, Zenon
  <2>2. Holds(bytes, o, <<b1, b2, b3, b4>>)
    BY <1>3, <2>1, Zenon
  <2>3. bytes[o + 1] = b1 /\ bytes[o + 2] = b2 /\ bytes[o + 3] = b3 /\ bytes[o + 4] = b4
    BY <2>2 DEF Holds
  <2>4. QED
    BY <2>1, <2>3, Zenon DEF Num4, Num2
<1>4. QED
  BY <1>1, <1>2, <1>3, Zenon

(* What serialize() writes before the checksum, and what after it. *)
Before(h) ==
    UnparseInt(h.sport, 2) \o UnparseInt(h.dport, 2)
    \o UnparseInt(h.seqno, 4) \o UnparseInt(h.ackno, 4)
    \o UnparseInt(DoffByte(h.doff), 1) \o UnparseInt(FlagByte(h.flags), 1)
    \o UnparseInt(h.win, 2)

(* serialize() writes 4 * doff bytes, from which the header is read again. *)
LEMMA HeaderBytes ==
    ASSUME NEW h \in SentHeaders
    PROVE  /\ SerializeHeader(h) \in Seq(Byte) /\ Len(SerializeHeader(h)) = 4 * h.doff
           /\ Before(h) \in Seq(Byte) /\ Len(Before(h)) = 16
           /\ SerializeHeader(h) = ((Before(h) \o UnparseInt(h.cksum, 2)) \o UnparseInt(h.uptr, 2))
                                   \o Zeros(4 * h.doff - 20)
           /\ \A bytes : Starts(bytes, SerializeHeader(h)) => HeaderOf(bytes) = h
<1>0. /\ h.sport \in Uint16 /\ h.dport \in Uint16 /\ h.seqno \in Uint32 /\ h.ackno \in Uint32
      /\ h.doff \in 5..15 /\ h.flags \in SUBSET DOMAIN FlagBit
      /\ h.win \in Uint16 /\ h.cksum \in Uint16 /\ h.uptr \in Uint16
  BY PiecesOfHeader
<1>1. DoffByte(h.doff) \in Byte /\ FlagByte(h.flags) \in Byte
  BY <1>0, DoffRead, FlagsRead, Zenon
<1>2. PICK u1, u2, u3, u4, u5, u6, u7, u8, u9, z :
         /\ u1 = UnparseInt(h.sport, 2) /\ u2 = UnparseInt(h.dport, 2) /\ u3 = UnparseInt(h.seqno, 4)
         /\ u4 = UnparseInt(h.ackno, 4) /\ u5 = UnparseInt(DoffByte(h.doff), 1)
         /\ u6 = UnparseInt(FlagByte(h.flags), 1) /\ u7 = UnparseInt(h.win, 2)
         /\ u8 = UnparseInt(h.cksum, 2) /\ u9 = UnparseInt(h.uptr, 2) /\ z = Zeros(4 * h.doff - 20)
  BY Zenon
<1>3. /\ Is(u1, 2) /\ Is(u2, 2)
      /\ Is(u3, 4) /\ Is(u4, 4)
      /\ Is(u5, 1) /\ Is(u6, 1)
      /\ Is(u7, 2) /\ Is(u8, 2)
      /\ Is(u9, 2)
  BY <1>0, <1>1, <1>2, UnparsedAre, Zenon
<1>4. PICK n \in Nat : n = 4 * h.doff - 20 /\ 20 + n = 4 * h.doff
  BY <1>0
<1>5. Is(z, n)
  <2>1. 0 \in Byte
    BY BaseAssumption DEF Byte
  <2>2. z = [i \in 1..n |-> 0]
    BY <1>2, <1>4, Zenon DEF Zeros
  <2>3. QED
    BY <2>1, <2>2 DEF Is
<1>n. /\ 2 + 2 = 4 /\ 4 + 4 = 8 /\ 8 + 4 = 12 /\ 12 + 1 = 13 /\ 13 + 1 = 14
      /\ 14 + 2 = 16 /\ 16 + 2 = 18 /\ 18 + 2 = 20
  OBVIOUS
<1>6. Is(u1 \o u2, 4)
  BY <1>3, <1>n, Grows, Zenon
<1>7. PICK c2 : c2 = u1 \o u2
  OBVIOUS
<1>8. Is(c2 \o u3, 8)
  BY <1>3, <1>6, <1>7, <1>n, Grows, Zenon
<1>9. PICK c3 : c3 = c2 \o u3
  OBVIOUS
<1>10. Is(c3 \o u4, 12)
  BY <1>3, <1>8, <1>9, <1>n, Grows, Zenon
<1>11. PICK c4 : c4 = c3 \o u4
  OBVIOUS
<1>12. Is(c4 \o u5, 13)
  BY <1>3, <1>10, <1>11, <1>n, Grows, Zenon
<1>13. PICK c5 : c5 = c4 \o u5
  OBVIOUS
<1>14. Is(c5 \o u6, 14)
  BY <1>3, <1>12, <1>13, <1>n, Grows, Zenon
<1>15. PICK c6 : c6 = c5 \o u6
  OBVIOUS
<1>16. Is(c6 \o u7, 16)
  BY <1>3, <1>14, <1>15, <1>n, Grows, Zenon
<1>17. PICK c7 : c7 = c6 \o u7
  OBVIOUS
<1>18. Is(c7 \o u8, 18)
  BY <1>3, <1>16, <1>17, <1>n, Grows, Zenon
<1>19. PICK c8 : c8 = c7 \o u8
  OBVIOUS
<1>20. Is(c8 \o u9, 20)
  BY <1>3, <1>18, <1>19, <1>n, Grows, Zenon
<1>21. PICK c9 : c9 = c8 \o u9
  OBVIOUS
<1>22. Is(c9 \o z, 4 * h.doff)
  BY <1>4, <1>5, <1>20, <1>21, <1>n, Grows, Zenon
<1>23. Before(h) = c7
  BY <1>2, <1>7, <1>9, <1>11, <1>13, <1>15, <1>17, Zenon DEF Before
<1>24. SerializeHeader(h) = ((Before(h) \o UnparseInt(h.cksum, 2)) \o UnparseInt(h.uptr, 2))
                            \o Zeros(4 * h.doff - 20)
  BY Zenon DEF SerializeHeader, Before, Zeros, LENGTH
<1>25. SerializeHeader(h) = c9 \o z
  BY <1>2, <1>19, <1>21, <1>23, <1>24, Zenon
<1>26. ASSUME NEW bytes, Starts(bytes, SerializeHeader(h)) PROVE HeaderOf(bytes) = h
  <2>1. Starts(bytes, c9)
    BY <1>5, <1>20, <1>21, <1>25, <1>26, StartsWith, Zenon
  <2>2. Starts(bytes, c8) /\ Holds(bytes, 18, u9)
    BY <1>3, <1>18, <1>19, <1>21, <2>1, StartsWith, Zenon
  <2>3. Starts(bytes, c7) /\ Holds(bytes, 16, u8)
    BY <1>3, <1>16, <1>17, <1>19, <2>2, StartsWith, Zenon
  <2>4. Starts(bytes, c6) /\ Holds(bytes, 14, u7)
    BY <1>3, <1>14, <1>15, <1>17, <2>3, StartsWith, Zenon
  <2>5. Starts(bytes, c5) /\ Holds(bytes, 13, u6)
    BY <1>3, <1>12, <1>13, <1>15, <2>4, StartsWith, Zenon
  <2>6. Starts(bytes, c4) /\ Holds(bytes, 12, u5)
    BY <1>3, <1>10, <1>11, <1>13, <2>5, StartsWith, Zenon
  <2>7. Starts(bytes, c3) /\ Holds(bytes, 8, u4)
    BY <1>3, <1>8, <1>9, <1>11, <2>6, StartsWith, Zenon
  <2>8. Starts(bytes, c2) /\ Holds(bytes, 4, u3)
    BY <1>3, <1>6, <1>7, <1>9, <2>7, StartsWith, Zenon
  <2>9. Starts(bytes, u1) /\ Holds(bytes, 2, u2)
    BY <1>3, <1>7, <2>8, StartsWith, Zenon
  <2>10. Holds(bytes, 0, u1)
    BY <2>9 DEF Starts, Holds
  <2>n. 0 \in Nat /\ 2 \in Nat /\ 4 \in Nat /\ 8 \in Nat /\ 12 \in Nat /\ 13 \in Nat /\ 14 \in Nat
        /\ 16 \in Nat /\ 18 \in Nat
    OBVIOUS
  <2>11. Num2(bytes, 0) = h.sport /\ Num2(bytes, 2) = h.dport
    BY <1>0, <1>2, <2>9, <2>10, <2>n, HeldIsRead, Zenon
  <2>12. Num4(bytes, 4) = h.seqno /\ Num4(bytes, 8) = h.ackno
    BY <1>0, <1>2, <2>7, <2>8, <2>n, HeldIsRead, Zenon
  <2>13. Num1(bytes, 12) = DoffByte(h.doff) /\ Num1(bytes, 13) = FlagByte(h.flags)
    BY <1>1, <1>2, <2>5, <2>6, <2>n, HeldIsRead, Zenon
  <2>14. Num2(bytes, 14) = h.win /\ Num2(bytes, 16) = h.cksum /\ Num2(bytes, 18) = h.uptr
    BY <1>0, <1>2, <2>2, <2>3, <2>4, <2>n, HeldIsRead, Zenon
  <2>15. DoffOf(DoffByte(h.doff)) = h.doff /\ FlagsOf(FlagByte(h.flags)) = h.flags
    BY <1>0, DoffRead, FlagsRead, Zenon
  <2>16. h = [sport |-> h.sport, dport |-> h.dport, seqno |-> h.seqno, ackno |-> h.ackno,
              doff |-> h.doff, flags |-> h.flags, win |-> h.win, cksum |-> h.cksum, uptr |-> h.uptr]
    BY PiecesOfHeader
  <2>17. HeaderOf(bytes) =
           [sport |-> h.sport, dport |-> h.dport, seqno |-> h.seqno, ackno |-> h.ackno,
            doff |-> h.doff, flags |-> h.flags, win |-> h.win, cksum |-> h.cksum, uptr |-> h.uptr]
    BY <2>11, <2>12, <2>13, <2>14, <2>15, Zenon DEF HeaderOf
  <2>18. QED
    BY ONLY <2>16, <2>17
<1>27. QED
  BY <1>16, <1>17, <1>22, <1>23, <1>24, <1>25, <1>26, Zenon DEF Is
=============================================================================
