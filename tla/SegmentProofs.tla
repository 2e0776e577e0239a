--------------------------- MODULE SegmentProofs ---------------------------
(***************************************************************************)
(* TCP segments in UDP datagrams, for every set of headers, payloads and   *)
(* foreign packets, every pseudo-header and every byte that is damaged.    *)
(*                                                                         *)
(* The argument: serialize() makes bytes whose sum, with the sum of the    *)
(* pseudo-header, is a positive multiple of 2^16 - 1 (SerializedIs).  One  *)
(* changed byte moves that sum by less than 2^16 - 1 and not by nothing    *)
(* (ChangeIsSeen).  The invariant LinkInv carries this from the sender to  *)
(* the receiver, and what parse() makes of the bytes that arrive is given  *)
(* by SegmentRead.                                                         *)
(***************************************************************************)
EXTENDS SegmentLemmas

-----------------------------------------------------------------------------
(* TCPSegment::serialize() *)

(* Two bytes after the first sixteen, where the checksum is. *)
Around(x, c, d, y) == (x \o <<c, d>>) \o y

(* What stands where in them. *)
Placed(e, x, c, d, y) ==
    /\ e \in Seq(Byte) /\ Len(e) = 18 + Len(y) /\ e[17] = c /\ e[18] = d
    /\ \A i \in 1..Len(e) : i # 17 /\ i # 18 => e[i] = IF i <= 16 THEN x[i] ELSE y[i - 18]

(* The bytes and where they stand. *)
LEMMA AroundIs ==
    ASSUME NEW x, Is(x, 16), NEW c \in Byte, NEW d \in Byte, NEW y \in Seq(Byte)
    PROVE  Placed(Around(x, c, d, y), x, c, d, y)
<1>e. PICK e : e = Around(x, c, d, y)
  OBVIOUS
<1>1. x \in Seq(Byte) /\ Len(x) = 16 /\ Len(y) \in Nat
  BY DEF Is
<1>2. PICK t : t = <<c, d>>
  OBVIOUS
<1>3. t \in Seq(Byte) /\ Len(t) = 2 /\ t[1] = c /\ t[2] = d
  BY <1>2
<1>4. PICK a : a = x \o t
  OBVIOUS
<1>5. /\ a \in Seq(Byte) /\ Len(a) = 18
      /\ \A i \in 1..16 : a[i] = x[i]
      /\ a[17] = c /\ a[18] = d
  <2>1. /\ a \in Seq(Byte) /\ Len(a) = Len(x) + Len(t)
        /\ \A i \in 1..(Len(x) + Len(t)) : a[i] = IF i <= Len(x) THEN x[i] ELSE t[i - Len(x)]
    BY ONLY <1>1, <1>3, <1>4, ConcatProperties
  <2>2. QED
    BY <1>1, <1>3, <2>1
<1>6. /\ e \in Seq(Byte) /\ Len(e) = Len(a) + Len(y)
      /\ \A i \in 1..(Len(a) + Len(y)) : e[i] = IF i <= Len(a) THEN a[i] ELSE y[i - Len(a)]
  <2>1. e = a \o y
    BY <1>e, <1>2, <1>4, Zenon DEF Around
  <2>2. QED
    BY ONLY <1>5, <2>1, y \in Seq(Byte), ConcatProperties
<1>7. Len(e) = 18 + Len(y) /\ e[17] = c /\ e[18] = d
  <2>1. Len(e) = 18 + Len(y)
    BY <1>5, <1>6, Zenon
  <2>2. 17 \in 1..(18 + Len(y)) /\ 17 <= 18 /\ 18 \in 1..(18 + Len(y)) /\ 18 <= 18
    BY <1>1
  <2>3. QED
    BY <1>5, <1>6, <2>1, <2>2, Zenon
<1>8. ASSUME NEW i \in 1..Len(e), i # 17, i # 18 PROVE e[i] = IF i <= 16 THEN x[i] ELSE y[i - 18]
  <2>1. i \in 1..(Len(a) + Len(y)) /\ (i <= 18 => i \in 1..16 /\ i <= 16) /\ (~ (i <= 18) => ~ (i <= 16))
    BY <1>1, <1>6, <1>8
  <2>2. e[i] = IF i <= 18 THEN a[i] ELSE y[i - 18]
    BY <1>5, <1>6, <2>1, Zenon
  <2>3. QED
    BY <1>5, <2>1, <2>2, Zenon
<1>9. QED
  BY <1>e, <1>6, <1>7, <1>8 DEF Placed

(* The checksum field adds its value to the sum. *)
LEMMA SumAround ==
    ASSUME NEW x, Is(x, 16), NEW c \in Byte, NEW d \in Byte, NEW y \in Seq(Byte)
    PROVE  WordSum(Around(x, c, d, y)) = WordSum(Around(x, 0, 0, y)) + (c * Base + d)
<1>0. 0 \in Byte /\ Len(y) \in Nat
  BY BaseAssumption DEF Byte
<1>1. PICK a, m, b : a = Around(x, 0, 0, y) /\ m = Around(x, c, 0, y) /\ b = Around(x, c, d, y)
  BY Zenon
<1>p. Placed(a, x, 0, 0, y) /\ Placed(m, x, c, 0, y) /\ Placed(b, x, c, d, y)
  BY <1>0, <1>1, AroundIs, Zenon
<1>2. /\ a \in Seq(Byte) /\ Len(a) = 18 + Len(y) /\ a[17] = 0 /\ a[18] = 0
      /\ \A i \in 1..Len(a) : i # 17 /\ i # 18 => a[i] = IF i <= 16 THEN x[i] ELSE y[i - 18]
  BY <1>p, Zenon DEF Placed
<1>3. /\ m \in Seq(Byte) /\ Len(m) = 18 + Len(y) /\ m[17] = c /\ m[18] = 0
      /\ \A i \in 1..Len(m) : i # 17 /\ i # 18 => m[i] = IF i <= 16 THEN x[i] ELSE y[i - 18]
  BY <1>p, Zenon DEF Placed
<1>4. /\ b \in Seq(Byte) /\ Len(b) = 18 + Len(y) /\ b[17] = c /\ b[18] = d
      /\ \A i \in 1..Len(b) : i # 17 /\ i # 18 => b[i] = IF i <= 16 THEN x[i] ELSE y[i - 18]
  BY <1>p, Zenon DEF Placed
<1>5. WordSum(m) = WordSum(a) + (m[17] * Wt(17) - a[17] * Wt(17))
  <2>1. \A i \in 1..Len(a) : i # 17 => m[i] = a[i]
    <3>1. SUFFICES ASSUME NEW i \in 1..Len(a), i # 17 PROVE m[i] = a[i]
      OBVIOUS
    <3>2. CASE i = 18
      BY <1>2, <1>3, <3>2
    <3>3. CASE i # 18
      BY <1>2, <1>3, <3>1, <3>3, Zenon
    <3>4. QED
      BY <3>2, <3>3
  <2>2. 17 \in 1..Len(a) /\ Len(a) = Len(m)
    BY <1>0, <1>2, <1>3
  <2>3. a \in Seq(Byte) /\ m \in Seq(Byte)
    BY <1>2, <1>3
  <2>4. QED
    BY ONLY <2>1, <2>2, <2>3, SumOfChanged
<1>6. WordSum(b) = WordSum(m) + (b[18] * Wt(18) - m[18] * Wt(18))
  <2>1. \A i \in 1..Len(m) : i # 18 => b[i] = m[i]
    <3>1. SUFFICES ASSUME NEW i \in 1..Len(m), i # 18 PROVE b[i] = m[i]
      OBVIOUS
    <3>2. CASE i = 17
      BY <1>3, <1>4, <3>2
    <3>3. CASE i # 17
      BY <1>3, <1>4, <3>1, <3>3, Zenon
    <3>4. QED
      BY <3>2, <3>3
  <2>2. 18 \in 1..Len(m) /\ Len(m) = Len(b)
    BY <1>0, <1>3, <1>4
  <2>3. m \in Seq(Byte) /\ b \in Seq(Byte)
    BY <1>3, <1>4
  <2>4. QED
    BY ONLY <2>1, <2>2, <2>3, SumOfChanged
<1>7. Wt(17) = Base /\ Wt(18) = 1
  BY DEF Wt
<1>8. PICK s \in Nat, e \in Int : s = WordSum(a) /\ e = c * Base
  <2>1. WordSum(a) \in Nat
    <3>1. PICK f : Sums(f, a)
      BY <1>2, SumsExist, Zenon
    <3>2. f \in [0..Len(a) -> Nat] /\ f[Len(a)] = WordSum(a)
      BY <3>1, Zenon DEF Sums
    <3>3. Len(a) \in 0..Len(a)
      BY <1>2
    <3>4. QED
      BY <3>2, <3>3
  <2>2. c * Base \in Int
    BY ByteIs, Sizes
  <2>3. QED
    BY <2>1, <2>2, Zenon
<1>9. c * Base - 0 * Base = e /\ d * 1 - 0 * 1 = d /\ d \in Int
  BY <1>8, ByteIs, Sizes
<1>10. WordSum(m) = s + e
  BY <1>2, <1>3, <1>5, <1>7, <1>8, <1>9, Zenon
<1>11. WordSum(b) = (s + e) + d
  BY <1>3, <1>4, <1>6, <1>7, <1>9, <1>10, Zenon
<1>12. (s + e) + d = s + (e + d)
  BY <1>9
<1>13. QED
  BY <1>1, <1>8, <1>11, <1>12, Zenon

(* Whatever is added, the sum stays a number. *)
Checks == [sum : Nat, parity : BOOLEAN]

(* add() of any bytes to any sum. *)
LEMMA AddStays ==
    ASSUME NEW check \in Checks, NEW data \in Seq(Byte)
    PROVE  Add(check, data) \in Checks
<1>0. PICK m \in Nat : m = Len(data)
  OBVIOUS
<1> DEFINE Loop(h) == h = [i \in 0..m |-> IF i = 0 THEN check ELSE AddByte(h[i - 1], data[i])]
           body == [k \in 1..m |-> [s \in Checks |-> AddByte(s, data[k])]]
<1>1. ASSUME NEW s \in Checks, NEW b \in Byte PROVE AddByte(s, b) \in Checks
  <2>1. PICK W \in Nat : W = Word * Word /\ W > 0
    BY Sizes
  <2>2. PICK t \in Nat : t = s.sum + (IF s.parity THEN b ELSE b * Base)
    <3>1. s.sum \in Nat /\ b \in Nat /\ b * Base \in Nat
      BY ByteIs, Sizes DEF Checks
    <3>2. (IF s.parity THEN b ELSE b * Base) \in Nat
      BY <3>1, Zenon
    <3>3. PICK x \in Nat : x = (IF s.parity THEN b ELSE b * Base)
      BY <3>2, Zenon
    <3>4. s.sum + x \in Nat
      BY <3>1
    <3>5. QED
      BY <3>3, <3>4, Zenon
  <2>3. AddByte(s, b) = [sum |-> t % W, parity |-> ~ s.parity]
    BY <2>1, <2>2, Zenon DEF AddByte
  <2>4. t % W \in Nat
    BY <2>1, DivMod
  <2>5. QED
    BY <2>3, <2>4 DEF Checks
<1>2. ASSUME NEW k \in 1..m PROVE data[k] \in Byte
  BY <1>0
<1>3. body \in Bodies(Checks, m)
  BY <1>1, <1>2 DEF Bodies
<1>4. ASSUME NEW k \in 1..m, NEW s \in Checks PROVE body[k][s] = AddByte(s, data[k])
  OBVIOUS
<1> HIDE DEF body
<1>5. PICK f : IsRun(f, Checks, check, body, m)
  BY <1>3, LoopRuns, Zenon
<1>6. Loop(f)
  <2>1. ASSUME NEW i \in 0..m PROVE f[i] = IF i = 0 THEN check ELSE AddByte(f[i - 1], data[i])
    <3>1. CASE i = 0
      BY <1>5, <3>1, Zenon DEF IsRun
    <3>2. CASE i # 0
      <4>1. i \in 1..m /\ i - 1 \in 0..m
        BY <3>2
      <4>2. f[i - 1] \in Checks /\ f[i] = body[i][f[i - 1]]
        BY <1>5, <4>1, Zenon DEF IsRun
      <4>3. QED
        BY <1>4, <3>2, <4>1, <4>2, Zenon
    <3>3. QED
      BY <3>1, <3>2
  <2>2. f \in [0..m -> Checks]
    BY <1>5 DEF IsRun
  <2>3. QED
    BY <2>1, <2>2, Zenon
<1>7. PICK g : g = CHOOSE h : Loop(h)
  OBVIOUS
<1>8. Loop(g)
  <2> HIDE DEF Loop
  <2>1. QED
    BY <1>6, <1>7, Zenon
<1>9. Add(check, data) = g[m]
  BY <1>0, <1>7, Zenon DEF Add, AddBytes
<1>10. g[0] = check /\ \A k \in 1..m : g[k] = AddByte(g[k - 1], data[k])
  <2>1. ASSUME NEW k \in 0..m PROVE g[k] = IF k = 0 THEN check ELSE AddByte(g[k - 1], data[k])
    BY <1>8, Zenon
  <2>2. 0 \in 0..m /\ \A k \in 1..m : k \in 0..m /\ k # 0
    OBVIOUS
  <2>3. QED
    BY <2>1, <2>2, Zenon
<1>11. g = [i \in 0..m |-> g[i]]
  BY <1>8, Zenon
<1>12. IsRun(g, Checks, check, body, m)
  <2>1. \A k \in 1..m : g[k - 1] \in Checks => g[k] = body[k][g[k - 1]]
    BY <1>4, <1>10, Zenon
  <2>2. QED
    BY <1>3, <1>10, <1>11, <2>1, LoopIs, Zenon
<1>13. g[m] \in Checks
  BY <1>12 DEF IsRun
<1>14. QED
  BY <1>9, <1>13

(* What value() returns for a header and a payload. *)
LEMMA ValueFits ==
    ASSUME NEW p \in Nat, NEW a \in Seq(Byte), NEW b \in Seq(Byte)
    PROVE  /\ Value(Add(Add(InitialSum(p), a), b)) \in Uint16
           /\ Value(Add(InitialSum(p), a)) \in Uint16
<1>1. InitialSum(p) \in Checks
  <2>1. PICK W \in Nat : W = Word * Word /\ W > 0
    BY Sizes
  <2>2. p % W \in Nat
    BY <2>1, DivMod
  <2>3. InitialSum(p) = [sum |-> p % W, parity |-> FALSE]
    BY <2>1, Zenon DEF InitialSum
  <2>4. QED
    BY <2>2, <2>3 DEF Checks
<1>2. Add(InitialSum(p), a) \in Checks
  BY <1>1, AddStays, Zenon
<1>3. Add(Add(InitialSum(p), a), b) \in Checks
  BY <1>2, AddStays, Zenon
<1>4. ASSUME NEW c \in Checks PROVE Value(c) \in Uint16
  <2>1. c.sum \in Nat
    BY DEF Checks
  <2>2. QED
    BY <2>1, ValueCancels, Zenon DEF Uint16
<1>5. QED
  BY <1>2, <1>3, <1>4, Zenon

(* A header with another checksum. *)
LEMMA WithCksum ==
    ASSUME NEW h \in SentHeaders, NEW c \in Uint16, NEW g, g = [h EXCEPT !.cksum = c]
    PROVE  /\ g \in SentHeaders /\ g.cksum = c
           /\ g.sport = h.sport /\ g.dport = h.dport /\ g.seqno = h.seqno /\ g.ackno = h.ackno
           /\ g.doff = h.doff /\ g.flags = h.flags /\ g.win = h.win /\ g.uptr = h.uptr
  BY DEF SentHeaders

(* A header and a payload, as one sequence around the checksum field. *)
LEMMA HeaderAround ==
    ASSUME NEW h \in SentHeaders, NEW payload \in Seq(Byte), NEW c \in Byte, NEW d \in Byte,
           UnparseInt(h.cksum, 2) = <<c, d>>
    PROVE  /\ SerializeHeader(h) \o payload =
                Around(Before(h), c, d, UnparseInt(h.uptr, 2) \o (Zeros(4 * h.doff - 20) \o payload))
           /\ UnparseInt(h.uptr, 2) \o (Zeros(4 * h.doff - 20) \o payload) \in Seq(Byte)
           /\ Is(Before(h), 16)
<1>1. PICK x, u, z, s : /\ x = Before(h) /\ u = UnparseInt(h.uptr, 2) /\ z = Zeros(4 * h.doff - 20)
                        /\ s = x \o <<c, d>>
  BY Zenon
<1>2. SerializeHeader(h) = (s \o u) \o z
  BY <1>1, HeaderBytes, Zenon
<1>3. Is(x, 16) /\ x \in Seq(Byte)
  <2>1. Before(h) \in Seq(Byte) /\ Len(Before(h)) = 16
    BY HeaderBytes, Zenon
  <2>2. 16 \in Nat
    OBVIOUS
  <2>3. QED
    BY <1>1, <2>1, <2>2, Zenon DEF Is
<1>4. s \in Seq(Byte)
  <2>1. <<c, d>> \in Seq(Byte)
    OBVIOUS
  <2>2. QED
    BY <1>1, <1>3, <2>1, ConcatProperties, Zenon
<1>5. u \in Seq(Byte) /\ z \in Seq(Byte)
  <2>1. u \in Seq(Byte)
    BY <1>1, UnparsedAre, PiecesOfHeader, Zenon DEF Is
  <2>2. 0 \in Byte
    BY BaseAssumption DEF Byte
  <2>3. PICK n \in Nat : n = 4 * h.doff - 20
    <3>1. h.doff \in 5..15
      BY PiecesOfHeader, Zenon
    <3>2. QED
      BY <3>1
  <2>4. z = [i \in 1..n |-> 0]
    BY <1>1, <2>3, Zenon DEF Zeros
  <2>5. z \in Seq(Byte)
    BY <2>2, <2>4
  <2>6. QED
    BY <2>1, <2>5
<1>6. z \o payload \in Seq(Byte) /\ s \o u \in Seq(Byte)
  BY <1>4, <1>5, ConcatProperties, Zenon
<1>7. u \o (z \o payload) \in Seq(Byte)
  BY <1>5, <1>6, ConcatProperties, Zenon
<1>8. ((s \o u) \o z) \o payload = (s \o u) \o (z \o payload)
  <2>1. Associates(s \o u, z, payload)
    BY <1>5, <1>6, Associative, Zenon
  <2>2. QED
    BY <2>1, Zenon DEF Associates
<1>9. (s \o u) \o (z \o payload) = s \o (u \o (z \o payload))
  <2>1. Associates(s, u, z \o payload)
    BY <1>4, <1>5, <1>6, Associative, Zenon
  <2>2. QED
    BY <2>1, Zenon DEF Associates
<1>10. QED
  BY <1>1, <1>2, <1>3, <1>7, <1>8, <1>9, Zenon DEF Around

(* What serialize() makes of a segment that fits into a datagram: its      *)
(* checksum is good, and the header and the payload can be read from it.   *)
Serialized(seg, bytes) ==
    /\ 20 <= Len(bytes) /\ 20 <= StartOf(bytes) /\ StartOf(bytes) <= Len(bytes)
    /\ \E c \in Uint16 : HeaderOf(bytes) = [seg.header EXCEPT !.cksum = c]
    /\ From(bytes, StartOf(bytes) + 1) = seg.payload

(* The pieces are those bytes, and the checksum in them is right. *)
Written(seg, p, views, bytes) ==
    /\ bytes \in Seq(Byte) /\ Size(views) = Len(bytes) /\ Serialized(seg, bytes)
    /\ Len(bytes) < Word => GoodChecksum(bytes, p)

(* TCPSegment::serialize() of a header whose fields fit and of any         *)
(* payload.                                                                *)
LEMMA SerializedIs ==
    ASSUME NEW h \in SentHeaders, NEW payload \in Seq(Byte), NEW seg, seg = [header |-> h, payload |-> payload],
           NEW p \in 0..(Word * Base), NEW views, views = SerializeSegment(seg, p),
           NEW bytes, bytes = Bytes(views)
    PROVE  Written(seg, p, views, bytes)
<1>1. PICK out, z : out = [h EXCEPT !.cksum = 0] /\ z = SerializeHeader(out)
  BY Zenon
<1>2. PICK check, c : check = Add(Add(InitialSum(p), z), payload) /\ c = Value(check)
  BY Zenon
<1>3. PICK g, b : g = [out EXCEPT !.cksum = c] /\ b = SerializeHeader(g)
  BY Zenon
<1>4. views = <<b, payload>>
  <2>1. seg.header = h /\ seg.payload = payload
    OBVIOUS
  <2>2. QED
    BY <1>1, <1>2, <1>3, <2>1, Zenon DEF SerializeSegment
<1>5. 0 \in Uint16 /\ p \in Nat
  BY Sizes DEF Uint16
<1>6. /\ out \in SentHeaders /\ out.cksum = 0
      /\ out.sport = h.sport /\ out.dport = h.dport /\ out.seqno = h.seqno /\ out.ackno = h.ackno
      /\ out.doff = h.doff /\ out.flags = h.flags /\ out.win = h.win /\ out.uptr = h.uptr
  BY ONLY <1>1, <1>5, h \in SentHeaders, WithCksum
<1>7. z \in Seq(Byte) /\ Len(z) = 4 * h.doff
  BY <1>1, <1>6, HeaderBytes, Zenon
<1>8. c \in Uint16
  BY <1>2, <1>5, <1>7, ValueFits, Zenon
<1>9. /\ g \in SentHeaders /\ g.cksum = c
      /\ g.sport = out.sport /\ g.dport = out.dport /\ g.seqno = out.seqno /\ g.ackno = out.ackno
      /\ g.doff = out.doff /\ g.flags = out.flags /\ g.win = out.win /\ g.uptr = out.uptr
  BY ONLY <1>3, <1>6, <1>8, WithCksum
<1>10. b \in Seq(Byte) /\ Len(b) = 4 * h.doff
  BY <1>3, <1>6, <1>9, HeaderBytes, Zenon
<1>11. bytes = b \o payload /\ Size(views) = Len(bytes) /\ bytes \in Seq(Byte)
  <2>1. /\ <<b>> \in Seq(Seq(Byte)) /\ <<payload>> \in Seq(Seq(Byte))
        /\ <<b>> \o <<payload>> = <<b, payload>> /\ <<b, payload>> \in Seq(Seq(Byte))
    <3>1. PICK S : S = Seq(Byte) /\ b \in S /\ payload \in S
      BY <1>10, Zenon
    <3>2. <<b>> \in Seq(S) /\ <<payload>> \in Seq(S) /\ <<b, payload>> \in Seq(S)
      BY ONLY <3>1
    <3>3. <<b>> \o <<payload>> = <<b, payload>>
      <4>1. Append(<<b>>, payload) = <<b, payload>>
        <5>1. PICK t, w : t = Append(<<b>>, payload) /\ w = <<b, payload>>
          BY Zenon
        <5>2. t \in Seq(S) /\ Len(t) = 2 /\ t[1] = b /\ t[2] = payload
          BY ONLY <3>1, <3>2, <5>1
        <5>3. w \in Seq(S) /\ Len(w) = 2 /\ w[1] = b /\ w[2] = payload
          BY ONLY <3>1, <5>1
        <5>4. Len(t) = Len(w) /\ \A i \in 1..Len(t) : t[i] = w[i]
          BY ONLY <5>2, <5>3
        <5>5. QED
          BY <5>1, <5>2, <5>3, <5>4, SeqEqual, Zenon
      <4>2. <<b>> \o <<payload>> = Append(<<b>>, payload)
        BY <3>1, <3>2, AppendIsConcat, Zenon
      <4>3. QED
        BY <4>1, <4>2, Zenon
    <3>4. QED
      BY <3>1, <3>2, <3>3, Zenon
  <2>2. Bytes(<<b>> \o <<payload>>) = Bytes(<<b>>) \o Bytes(<<payload>>)
    BY <2>1, BytesOfBoth, Zenon
  <2>3. Bytes(<<b>>) = b /\ Bytes(<<payload>>) = payload
    BY <1>10, BytesOfFew, Zenon
  <2>4. Size(views) = Len(bytes) /\ bytes \in Seq(Byte)
    BY <1>4, <2>1, SizeIs, BytesOfFew, Zenon
  <2>5. QED
    BY <1>4, <2>1, <2>2, <2>3, <2>4, Zenon
<1>12. PICK n \in 20..60 : n = 4 * h.doff
  <2>1. PICK d \in 5..15 : d = h.doff
    BY PiecesOfHeader, Zenon
  <2>2. 4 * d \in 20..60
    OBVIOUS
  <2>3. QED
    BY <2>1, <2>2, Zenon
<1>13. /\ Len(bytes) = n + Len(payload) /\ Len(payload) \in Nat
       /\ \A i \in 1..n : bytes[i] = b[i]
  <2>1. Len(b) = n /\ b \in Seq(Byte)
    BY <1>10, <1>12, Zenon
  <2>2. /\ Len(b \o payload) = Len(b) + Len(payload)
        /\ \A i \in 1..(Len(b) + Len(payload)) :
              (b \o payload)[i] = IF i <= Len(b) THEN b[i] ELSE payload[i - Len(b)]
    BY <2>1, ConcatProperties, Zenon
  <2>3. PICK m \in Nat : m = Len(payload)
    OBVIOUS
  <2>4. /\ Len(bytes) = n + m
        /\ \A i \in 1..(n + m) : bytes[i] = IF i <= n THEN b[i] ELSE payload[i - n]
    BY <1>11, <2>1, <2>2, <2>3, Zenon
  <2>5. \A i \in 1..n : i \in 1..(n + m) /\ i <= n
    BY ONLY n \in 20..60, m \in Nat
  <2>6. QED
    BY <2>3, <2>4, <2>5, Zenon
<1>14. Starts(bytes, b)
  BY <1>10, <1>11, <1>12, <1>13 DEF Starts
<1>15. HeaderOf(bytes) = g
  BY <1>3, <1>9, <1>14, HeaderBytes, Zenon
<1>16. StartOf(bytes) = n
  <2>1. HeaderOf(bytes).doff = DoffOf(Num1(bytes, 12))
    BY DEF HeaderOf
  <2>2. Num1(bytes, 12) = bytes[13]
    BY DEF Num1
  <2>3. QED
    BY <1>6, <1>9, <1>12, <1>15, <2>1, <2>2, Zenon DEF StartOf
<1>17. From(bytes, n + 1) = payload
  <2>1. Len(b) = n /\ b \in Seq(Byte)
    BY <1>10, <1>12, Zenon
  <2>2. payload = SubSeq(bytes, Len(b) + 1, Len(bytes))
    BY ONLY <1>11, <1>13, <2>1, payload \in Seq(Byte)
  <2>3. QED
    BY <2>1, <2>2, Zenon DEF From
<1>18. HeaderOf(bytes) = [seg.header EXCEPT !.cksum = c]
  <2>1. [[h EXCEPT !.cksum = 0] EXCEPT !.cksum = c] = [h EXCEPT !.cksum = c]
    BY DEF SentHeaders
  <2>2. seg.header = h
    OBVIOUS
  <2>3. QED
    BY <1>1, <1>3, <1>15, <2>1, <2>2, Zenon
<1>19. Serialized(seg, bytes)
  <2>1. 20 <= Len(bytes) /\ 20 <= n /\ n <= Len(bytes)
    BY <1>13
  <2>2. seg.payload = payload
    OBVIOUS
  <2>3. QED
    BY <1>8, <1>16, <1>17, <1>18, <2>1, <2>2, Zenon DEF Serialized
<1>20. Before(g) = Before(out)
  BY <1>9, Zenon DEF Before
<1>21. PICK c1 \in Byte, c2 \in Byte : UnparseInt(c, 2) = <<c1, c2>> /\ c = c1 * Base + c2
  BY <1>8, UnparseIs, Zenon
<1>22. UnparseInt(0, 2) = <<0, 0>> /\ 0 \in Byte
  <2>1. PICK d1 \in Byte, d2 \in Byte : UnparseInt(0, 2) = <<d1, d2>> /\ 0 = d1 * Base + d2
    BY <1>5, UnparseIs, Zenon
  <2>2. d1 \in Nat /\ d2 \in Nat /\ Base \in Nat /\ Base >= 1
    BY ByteIs, Sizes
  <2>3. d1 * Base >= d1 * 1
    BY <2>2
  <2>4. d1 = 0 /\ d2 = 0
    BY <2>1, <2>2, <2>3
  <2>5. QED
    BY <2>1, <2>4
<1>23. PICK x, y : x = Before(out) /\ y = UnparseInt(out.uptr, 2) \o (Zeros(4 * out.doff - 20) \o payload)
  BY Zenon
<1>24. z \o payload = Around(x, 0, 0, y) /\ y \in Seq(Byte) /\ Is(x, 16)
  <2>1. UnparseInt(out.cksum, 2) = <<0, 0>> /\ out \in SentHeaders
    BY <1>6, <1>22, Zenon
  <2>2. /\ SerializeHeader(out) \o payload =
             Around(Before(out), 0, 0, UnparseInt(out.uptr, 2) \o (Zeros(4 * out.doff - 20) \o payload))
        /\ UnparseInt(out.uptr, 2) \o (Zeros(4 * out.doff - 20) \o payload) \in Seq(Byte)
        /\ Is(Before(out), 16)
    BY <1>22, <2>1, HeaderAround, Zenon
  <2>3. QED
    BY <1>1, <1>23, <2>2, Zenon
<1>25. bytes = Around(x, c1, c2, y)
  <2>1. UnparseInt(g.cksum, 2) = <<c1, c2>> /\ g \in SentHeaders
    BY <1>9, <1>21, Zenon
  <2>2. SerializeHeader(g) \o payload =
           Around(Before(g), c1, c2, UnparseInt(g.uptr, 2) \o (Zeros(4 * g.doff - 20) \o payload))
    BY <2>1, HeaderAround, Zenon
  <2>3. g.uptr = out.uptr /\ g.doff = out.doff
    BY <1>9
  <2>4. QED
    BY <1>3, <1>11, <1>20, <1>23, <2>2, <2>3, Zenon
<1>26. WordSum(bytes) = WordSum(z \o payload) + c
  <2>1. WordSum(Around(x, c1, c2, y)) = WordSum(Around(x, 0, 0, y)) + (c1 * Base + c2)
    BY <1>24, SumAround, Zenon
  <2>2. QED
    BY <1>21, <1>24, <1>25, <2>1, Zenon
<1>27. ASSUME Len(bytes) < Word PROVE GoodChecksum(bytes, p)
  <2>1. z \o payload \in Seq(Byte) /\ Len(z \o payload) = Len(bytes)
    BY <1>7, <1>12, <1>13, ConcatProperties
  <2>2. PICK a : a = z \o payload
    OBVIOUS
  <2>3. check.sum = p + WordSum(a) /\ WordSum(a) \in Nat
    <3>1. a \in Seq(Byte) /\ Len(a) < Word
      BY <1>27, <2>1, <2>2, Zenon
    <3>2. QED
      BY <1>2, <1>7, <2>2, <3>1, PiecesIs, Zenon
  <2>4. PICK t \in Nat : t = check.sum /\ t = p + WordSum(a)
    BY <1>5, <2>3
  <2>5. (c + t) % (Word - 1) = 0 /\ c + t > 0
    BY <1>2, <2>4, ValueCancels, Zenon
  <2>6. p + WordSum(bytes) = c + t
    <3>1. WordSum(bytes) = WordSum(a) + c
      BY <1>26, <2>2, Zenon
    <3>2. c \in Nat
      BY <1>8, Sizes DEF Uint16
    <3>3. QED
      BY ONLY <1>5, <2>3, <2>4, <3>1, <3>2, t \in Nat
  <2>7. QED
    BY <1>11, <1>27, <2>5, <2>6, GoodIff, Zenon
<1>28. QED
  BY <1>11, <1>19, <1>27, Zenon DEF Written

-----------------------------------------------------------------------------
(* What happens to a datagram on its way. *)

(* The bytes with the one at j replaced by v. *)
Changed(bytes, j, v) == [bytes EXCEPT ![j] = v]

(* The sum changes by less than Word - 1 and not by nothing, so that a     *)
(* good checksum does not stay good.                                       *)
LEMMA ChangeIsSeen ==
    ASSUME NEW bytes \in Seq(Byte), Len(bytes) < Word, NEW p \in 0..(Word * Base), GoodChecksum(bytes, p),
           NEW j \in 1..Len(bytes), NEW v \in Byte, v # bytes[j], NEW c, c = Changed(bytes, j, v)
    PROVE  c \in Seq(Byte) /\ Len(c) = Len(bytes) /\ ~ GoodChecksum(c, p)
<1>1. /\ c \in Seq(Byte) /\ Len(c) = Len(bytes) /\ c[j] = v
      /\ \A i \in 1..Len(bytes) : i # j => c[i] = bytes[i]
  BY DEF Changed
<1>2. WordSum(c) = WordSum(bytes) + (c[j] * Wt(j) - bytes[j] * Wt(j))
  <2>1. Len(bytes) = Len(c)
    BY <1>1
  <2>2. QED
    BY ONLY <1>1, <2>1, bytes \in Seq(Byte), j \in 1..Len(bytes), SumOfChanged
<1>3. PICK d \in Nat : d = Word - 1 /\ d > 0
  BY Sizes
<1>4. PICK w \in Byte : w = bytes[j]
  OBVIOUS
<1>5. PICK x \in Int, y \in Int :
         /\ x = w * Wt(j) /\ y = v * Wt(j) /\ x # y
         /\ 0 <= x /\ x < d /\ 0 <= y /\ y < d
  <2>1. j \in Nat
    OBVIOUS
  <2>2. w * Wt(j) \in 0..((Base - 1) * Base) /\ v * Wt(j) \in 0..((Base - 1) * Base) /\ Wt(j) \in {1, Base}
    BY <2>1, Adds
  <2>3. PICK x \in Int, y \in Int, most \in Int :
           x = w * Wt(j) /\ y = v * Wt(j) /\ most = (Base - 1) * Base /\ 0 <= x /\ x <= most /\ 0 <= y /\ y <= most
    <3>1. (Base - 1) * Base \in Int
      BY Sizes
    <3>2. PICK most \in Int : most = (Base - 1) * Base
      BY <3>1
    <3>3. QED
      BY <2>2, <3>2
  <2>4. most < d
    <3>1. (Base - 1) * Base = Base * Base - Base /\ Base * Base \in Int /\ Base \in Nat /\ Base >= 64
      BY Sizes
    <3>2. Word = Base * Base
      BY DEF Word
    <3>3. QED
      BY <1>3, <2>3, <3>1, <3>2
  <2>5. x # y
    <3>1. w \in Int /\ v \in Int /\ w # v
      BY <1>4, ByteIs
    <3>2. CASE Wt(j) = 1
      BY <2>3, <3>1, <3>2
    <3>3. CASE Wt(j) = Base
      <4>1. PICK B \in Nat : B = Base /\ B >= 1
        BY Sizes
      <4>2. CASE w >= v + 1
        <5>1. w * B >= (v + 1) * B
          BY <3>1, <4>1, <4>2, TimesAtLeast
        <5>2. (v + 1) * B = v * B + B /\ v * B \in Int /\ w * B \in Int
          BY <3>1
        <5>3. w * B # v * B
          BY <4>1, <5>1, <5>2
        <5>4. QED
          BY <2>3, <3>3, <4>1, <5>3, Zenon
      <4>3. CASE v >= w + 1
        <5>1. v * B >= (w + 1) * B
          BY <3>1, <4>1, <4>3, TimesAtLeast
        <5>2. (w + 1) * B = w * B + B /\ v * B \in Int /\ w * B \in Int
          BY <3>1
        <5>3. w * B # v * B
          BY <4>1, <5>1, <5>2
        <5>4. QED
          BY <2>3, <3>3, <4>1, <5>3, Zenon
      <4>4. QED
        BY <3>1, <4>2, <4>3
    <3>4. QED
      BY <2>2, <3>2, <3>3
  <2>6. QED
    BY <2>3, <2>4, <2>5
<1>6. PICK t \in Nat, s \in Int : t = p + WordSum(bytes) /\ s = p + WordSum(c) /\ s = t + (y - x)
  <2>1. WordSum(bytes) \in Nat /\ p \in Nat
    BY WholeIs, Sizes
  <2>2. WordSum(c) = WordSum(bytes) + (y - x)
    BY <1>1, <1>2, <1>4, <1>5, Zenon
  <2>3. QED
    BY ONLY <2>1, <2>2, x \in Int, y \in Int
<1>7. t % d = 0
  BY <1>3, <1>6, GoodIff, Zenon
<1>8. SUFFICES ASSUME GoodChecksum(c, p) PROVE FALSE
  BY <1>1
<1>9. s % d = 0
  <2>1. Len(c) < Word
    BY <1>1
  <2>2. QED
    BY <1>1, <1>3, <1>6, <1>8, <2>1, GoodIff, Zenon
<1>10. PICK k \in Int : s = t + k * d
  <2>1. s % d = t % d
    BY <1>7, <1>9, Zenon
  <2>2. t \in Int /\ d > 0
    BY <1>3
  <2>3. QED
    BY ONLY <2>1, <2>2, s \in Int, d \in Nat, ModSame
<1>11. y - x = k * d /\ k * d \in Int
  BY ONLY <1>6, <1>10, t \in Nat, x \in Int, y \in Int, k \in Int, d \in Nat
<1>12. k = 0 \/ k >= 1 \/ k <= -1
  OBVIOUS
<1>13. CASE k = 0
  BY <1>5, <1>11, <1>13
<1>14. CASE k >= 1
  <2>1. k * d >= 1 * d
    BY <1>14, TimesAtLeast
  <2>2. QED
    BY <1>5, <1>11, <2>1
<1>15. CASE k <= -1
  <2>1. (-1) * d >= k * d
    BY <1>15, TimesAtLeast
  <2>2. QED
    BY <1>5, <1>11, <2>1
<1>16. QED
  BY <1>12, <1>13, <1>14, <1>15

(* A packet that is good under one pseudo-header is not good under one     *)
(* with another remainder.                                                 *)
LEMMA OtherPseudoIsSeen ==
    ASSUME NEW bytes \in Seq(Byte), Len(bytes) < Word, NEW p \in 0..(Word * Base), NEW q \in 0..(Word * Base),
           p % (Word - 1) # q % (Word - 1), GoodChecksum(bytes, p)
    PROVE  ~ GoodChecksum(bytes, q)
<1>1. SUFFICES ASSUME GoodChecksum(bytes, q) PROVE FALSE
  OBVIOUS
<1>2. PICK d \in Nat : d = Word - 1 /\ d > 0
  BY Sizes
<1>3. PICK s \in Nat, t \in Int, u \in Int : s = WordSum(bytes) /\ t = p + s /\ u = q + s
  <2>1. WordSum(bytes) \in Nat
    BY WholeIs, Zenon
  <2>2. QED
    BY <2>1
<1>4. t % d = 0 /\ u % d = 0
  BY <1>1, <1>2, <1>3, GoodIff, Zenon
<1>5. PICK k \in Int : t = u + k * d
  <2>1. t % d = u % d
    BY <1>4, Zenon
  <2>2. d > 0
    BY <1>2
  <2>3. QED
    BY ONLY <2>1, <2>2, t \in Int, u \in Int, d \in Nat, ModSame
<1>6. p = q + k * d /\ p \in Int /\ q \in Int
  BY <1>3, <1>5
<1>7. p % d = q % d
  <2>1. PICK x \in Int, y \in Int : x = p /\ y = q
    BY <1>6
  <2>2. x = y + k * d /\ d > 0
    BY <1>2, <1>6, <2>1, Zenon
  <2>3. x % d = y % d
    BY ONLY <2>2, x \in Int, y \in Int, k \in Int, d \in Nat, ModShift
  <2>4. QED
    BY <2>1, <2>3, Zenon
<1>8. QED
  BY <1>2, <1>7, Zenon

(* UDPSocket::recv() gives back what came, when mtu has room for it. *)
LEMMA ReceivedIs ==
    ASSUME NEW S, NEW new \in Seq(S), NEW old, NEW mtu \in Nat, Len(new) <= mtu
    PROVE  Resized(Overwritten(old, new, mtu), Len(new)) = new
<1>1. PICK room : room = Overwritten(old, new, mtu)
  OBVIOUS
<1>2. PICK n \in Nat : n = Len(new) /\ new = [i \in 1..n |-> new[i]]
  OBVIOUS
<1>3. ASSUME NEW i \in 1..n PROVE room[i] = new[i] /\ i <= Len(room)
  <2>1. PICK e, f : e = [j \in 1..mtu |-> f[j]] /\ room = e /\ \A k \in 1..n : f[k] = new[k]
    <3> DEFINE f == [j \in 1..mtu |-> IF j <= Len(new) THEN new[j] ELSE IF j <= Len(old) THEN old[j] ELSE 0]
    <3>1. room = f
      BY <1>1 DEF Overwritten
    <3>2. \A k \in 1..n : f[k] = new[k]
      BY <1>2
    <3>3. f = [j \in 1..mtu |-> f[j]]
      OBVIOUS
    <3> HIDE DEF f
    <3>4. QED
      BY <3>1, <3>2, <3>3, Zenon
  <2>2. Len(room) = mtu
    BY ONLY <2>1, mtu \in Nat
  <2>3. room[i] = f[i] /\ i <= mtu
    BY <1>2, <2>1
  <2>4. QED
    BY <2>1, <2>2, <2>3, Zenon
<1>4. Resized(room, n) = [i \in 1..n |-> new[i]]
  BY <1>3, Zenon DEF Resized
<1>5. QED
  BY <1>1, <1>2, <1>4, Zenon

(* A packet of another implementation, with its checksum. *)
LEMMA WithChecksumIs ==
    ASSUME NEW bytes \in Seq(Byte), 20 <= Len(bytes), NEW p \in Nat
    PROVE  WithChecksum(bytes, p) \in Seq(Byte) /\ Len(WithChecksum(bytes, p)) = Len(bytes)
<1>1. PICK v : v = Value(Add(InitialSum(p), bytes))
  OBVIOUS
<1>2. v \in Uint16
  BY <1>1, ValueFits, Zenon
<1>3. PICK b1 \in Byte, b2 \in Byte : UnparseInt(v, 2) = <<b1, b2>>
  BY <1>2, UnparseIs, Zenon
<1>4. WithChecksum(bytes, p) = [bytes EXCEPT ![17] = b1, ![18] = b2]
  <2>1. <<b1, b2>>[1] = b1 /\ <<b1, b2>>[2] = b2
    OBVIOUS
  <2>2. QED
    BY <1>1, <1>3, <2>1, Zenon DEF WithChecksum
<1>5. QED
  BY <1>4

-----------------------------------------------------------------------------
(* The invariant of the link *)

(* A datagram as the network carries it: a sender, and bytes that fit. *)
Datagram(d) ==
    /\ d = [source_address |-> d.source_address, payload |-> d.payload]
    /\ d.payload \in Seq(Byte) /\ Len(d.payload) < Word

(* The bytes are those of the segment seg, as serialize() wrote them under *)
(* the pseudo-header p, and the next segment begins where it ends.         *)
Genuine(bytes, p, seg, after) ==
    /\ p \in Pseudos /\ seg.header \in SentHeaders
    /\ GoodChecksum(bytes, p) /\ Serialized(seg, bytes)
    /\ after = (seg.header.seqno + SequenceLength(seg)) % (Word * Word)

(* What is on its way or was taken is a datagram. What recv() gave out is  *)
(* what it took. The result is that of parse() on what was taken. While    *)
(* nothing has harmed the segment, the bytes are the ones serialize() made *)
(* of it; after a change of a byte or of the pseudo-header the checksum of *)
(* the bytes is wrong.                                                     *)
LinkInv ==
    /\ network # NoDatagram => Datagram(network)
    /\ Datagram(taken)
    /\ pseudo \in Pseudos \cup {0} /\ next \in Uint32
    /\ outcome = "received" => datagram = taken
    /\ result # "none" /\ network # NoDatagram => network = taken
    /\ result # "none" => /\ segment = ParseSegment(TCPSegmentInit, taken.payload, pseudo).segment
                          /\ result = ParseSegment(TCPSegmentInit, taken.payload, pseudo).result
    /\ harm = "none" /\ network # NoDatagram => Genuine(network.payload, pseudo, sent, next)
    /\ harm = "none" /\ result # "none" => Genuine(taken.payload, pseudo, sent, next)
    /\ harm \in {"byte", "pseudo"} /\ network # NoDatagram => ~ GoodChecksum(network.payload, pseudo)
    /\ harm \in {"byte", "pseudo"} => result \in {"none", "BadChecksum"}

(* The sums of the pseudo-headers, that of none included. *)
LEMMA PseudoIs ==
    ASSUME NEW p \in Pseudos \cup {0}
    PROVE  p \in 0..(Word * Base) /\ p \in Nat
<1>1. 0 \in 0..(Word * Base)
  BY Sizes
<1>2. p \in 0..(Word * Base)
  BY <1>1, LinkAssumption
<1>3. QED
  BY <1>2, Sizes

(* Before anything is sent. *)
LEMMA LinkInit ==
    ASSUME Init
    PROVE  LinkInv
<1>1. Datagram(Blank)
  <2>1. << >> \in Seq(Byte) /\ Len(<< >>) < Word
    BY Sizes
  <2>2. QED
    BY <2>1 DEF Datagram, Blank
<1>2. ISN \in Uint32
  BY LinkAssumption, Zenon
<1>3. network = NoDatagram /\ taken = Blank /\ pseudo = 0 /\ next = ISN /\ outcome = "none" /\ result = "none"
  BY DEF Init, UDPInit
<1>4. QED
  BY <1>1, <1>2, <1>3 DEF LinkInv

(* A datagram sets out: nothing has been made of it yet. *)
LEMMA SetsOut ==
    ASSUME LinkInv, NEW d, Datagram(d), network' = d, taken' = taken, pseudo' \in Pseudos \cup {0},
           next' \in Uint32, (outcome' = "received" => datagram' = taken'), result' = "none",
           harm' = "none" => Genuine(d.payload, pseudo', sent', next'),
           harm' \in {"byte", "pseudo"} => ~ GoodChecksum(d.payload, pseudo')
    PROVE  LinkInv'
<1>1. Datagram(taken)
  BY Zenon DEF LinkInv
<1>2. QED
  BY <1>1, Zenon DEF LinkInv

(* Nothing happens to what has arrived, or it is lost. *)
LEMMA StaysAsItIs ==
    ASSUME LinkInv, network' \in {network, NoDatagram}, taken' = taken, pseudo' = pseudo, next' = next,
           sent' = sent, harm' = harm, segment' = segment, result' = result,
           outcome' = "received" => datagram' = taken'
    PROVE  LinkInv'
  BY Zenon DEF LinkInv

(* A header with the seqno of the next segment. *)
LEMMA WithSeqno ==
    ASSUME NEW h \in SentHeaders, NEW n \in Uint32, NEW g, g = [h EXCEPT !.seqno = n]
    PROVE  g \in SentHeaders /\ g.seqno = n
  BY DEF SentHeaders

(* length_in_sequence_space() is a number. *)
LEMMA LengthIs ==
    ASSUME NEW seg, Len(seg.payload) \in Nat
    PROVE  SequenceLength(seg) \in Nat
<1>1. PICK n \in Nat, x \in 0..1, y \in 0..1 :
         /\ n = Len(seg.payload)
         /\ x = (IF "syn" \in seg.header.flags THEN 1 ELSE 0)
         /\ y = (IF "fin" \in seg.header.flags THEN 1 ELSE 0)
  <2>1. (IF "syn" \in seg.header.flags THEN 1 ELSE 0) \in 0..1 /\ (IF "fin" \in seg.header.flags THEN 1 ELSE 0) \in 0..1
    OBVIOUS
  <2>2. QED
    BY <2>1, Zenon
<1>2. SequenceLength(seg) = n + x + y
  BY <1>1, Zenon DEF SequenceLength
<1>3. QED
  BY <1>2

(* sendto() or send() of a serialized segment: what sets out is genuine. A *)
(* call that throws leaves the link as it was.                             *)
LEMMA SendInv ==
    ASSUME LinkInv, Send
    PROVE  LinkInv'
<1>0. next \in Uint32
  BY Zenon DEF LinkInv
<1>a. PICK h \in Headers, payload \in Payloads, p \in Pseudos, addressed \in BOOLEAN :
         LET seg   == [header |-> [h EXCEPT !.seqno = next], payload |-> payload]
             views == SerializeSegment(seg, p)
         IN  \/ /\ Sendto(Self, addressed, views)
                /\ sent' = seg
                /\ next' = (next + SequenceLength(seg)) % (Word * Word)
                /\ Travels(p, "none")
             \/ SendThrows(addressed, views) /\ UNCHANGED <<next, sent, pseudo, harm, segment, result>>
  BY Zenon DEF Send
<1>1. PICK seg, views :
         /\ seg = [header |-> [h EXCEPT !.seqno = next], payload |-> payload]
         /\ views = SerializeSegment(seg, p)
         /\ \/ /\ Sendto(Self, addressed, views)
               /\ sent' = seg
               /\ next' = (next + SequenceLength(seg)) % (Word * Word)
               /\ Travels(p, "none")
            \/ SendThrows(addressed, views) /\ UNCHANGED <<next, sent, pseudo, harm, segment, result>>
  BY <1>a, Zenon
<1>2. CASE SendThrows(addressed, views) /\ UNCHANGED <<next, sent, pseudo, harm, segment, result>>
  <2>1. /\ network' = network /\ taken' = taken /\ outcome' = "threw"
        /\ pseudo' = pseudo /\ next' = next /\ sent' = sent /\ harm' = harm /\ segment' = segment /\ result' = result
    BY <1>2 DEF SendThrows
  <2>2. outcome' # "received"
    BY <2>1
  <2>3. QED
    BY <2>1, <2>2, StaysAsItIs, Zenon
<1>3. CASE /\ Sendto(Self, addressed, views)
           /\ sent' = seg
           /\ next' = (next + SequenceLength(seg)) % (Word * Word)
           /\ Travels(p, "none")
  <2>1. PICK g \in SentHeaders : g = [h EXCEPT !.seqno = next] /\ g.seqno = next
    <3>1. h \in SentHeaders
      BY LinkAssumption, Zenon
    <3>2. PICK g : g = [h EXCEPT !.seqno = next]
      OBVIOUS
    <3>3. QED
      BY <1>0, <3>1, <3>2, WithSeqno, Zenon
  <2>2. payload \in Seq(Byte) /\ p \in 0..(Word * Base)
    BY LinkAssumption, Zenon
  <2>3. seg = [header |-> g, payload |-> payload]
    BY <1>1, <2>1, Zenon
  <2>4. PICK bytes : bytes = Bytes(views)
    OBVIOUS
  <2>5. /\ bytes \in Seq(Byte) /\ Size(views) = Len(bytes) /\ Serialized(seg, bytes)
        /\ Len(bytes) < Word => GoodChecksum(bytes, p)
    <3>1. views = SerializeSegment(seg, p)
      BY <1>1
    <3>2. Written(seg, p, views, bytes)
      BY <2>2, <2>3, <2>4, <3>1, SerializedIs, Zenon
    <3>3. QED
      BY <3>2, Zenon DEF Written
  <2>6. Len(bytes) < Word
    <3>1. ~ (Size(views) > MaxDatagram)
      BY <1>3, Zenon DEF Sendto, SendmsgFails
    <3>2. MaxDatagram \in 0..(Word - 1)
      BY LinkAssumption, Zenon
    <3>3. QED
      BY <2>5, <3>1, <3>2, Sizes
  <2>7. PICK d : d = [source_address |-> Self, payload |-> bytes]
    OBVIOUS
  <2>8. d.payload = bytes /\ Datagram(d)
    BY <2>5, <2>6, <2>7 DEF Datagram
  <2>9. /\ network' = d /\ taken' = taken /\ outcome' = "sent" /\ pseudo' = p /\ harm' = "none"
        /\ result' = "none" /\ sent' = seg /\ next' = (next + SequenceLength(seg)) % (Word * Word)
    BY <1>3, <2>4, <2>7, Zenon DEF Sendto, Travels
  <2>10. seg.header = g /\ seg.payload = payload
    BY <2>3
  <2>11. Genuine(bytes, p, seg, next')
    BY <2>1, <2>5, <2>6, <2>9, <2>10, Zenon DEF Genuine
  <2>12. next' \in Uint32
    <3>1. SequenceLength(seg) \in Nat
      <4>1. Len(seg.payload) \in Nat
        BY <2>2, <2>10
      <4>2. QED
        BY <4>1, LengthIs, Zenon
    <3>2. PICK W \in Nat, s \in Nat : W = Word * Word /\ W > 0 /\ s = next + SequenceLength(seg)
      BY <1>0, <3>1, Sizes DEF Uint32
    <3>3. s % W \in 0..(W - 1)
      BY ONLY <3>2, W \in Nat, s \in Nat, DivNat
    <3>4. QED
      BY <2>9, <3>2, <3>3, Zenon DEF Uint32
  <2>13. outcome' # "received" /\ harm' \notin {"byte", "pseudo"} /\ pseudo' \in Pseudos \cup {0}
    BY <2>9
  <2>14. QED
    BY <2>8, <2>9, <2>11, <2>12, <2>13, SetsOut, Zenon
<1>4. QED
  BY <1>1, <1>2, <1>3, Zenon

(* A packet of another sender sets out, with a checksum that is right for  *)
(* it.                                                                     *)
LEMMA ForeignInv ==
    ASSUME LinkInv, ForeignSends
    PROVE  LinkInv'
<1>1. PICK packet \in Foreign, p \in Pseudos :
         network' = [source_address |-> Other, payload |-> WithChecksum(packet, p)] /\ Travels(p, "foreign")
  BY Zenon DEF ForeignSends
<1>2. packet \in Seq(Byte) /\ LENGTH <= Len(packet) /\ Len(packet) < Word /\ p \in Nat
  <2>1. p \in Pseudos \cup {0}
    OBVIOUS
  <2>2. p \in Nat
    BY <2>1, PseudoIs, Zenon
  <2>3. QED
    BY <2>2, LinkAssumption, Zenon
<1>3. PICK bytes : bytes = WithChecksum(packet, p)
  OBVIOUS
<1>4. bytes \in Seq(Byte) /\ Len(bytes) = Len(packet)
  BY <1>2, <1>3, WithChecksumIs, Zenon DEF LENGTH
<1>5. PICK d : d = [source_address |-> Other, payload |-> bytes]
  OBVIOUS
<1>6. Datagram(d)
  BY <1>2, <1>4, <1>5 DEF Datagram
<1>7. /\ network' = d /\ taken' = taken /\ pseudo' = p /\ next' = next /\ outcome' = outcome
      /\ datagram' = datagram /\ result' = "none" /\ harm' = "foreign"
  BY <1>1, <1>3, <1>5 DEF ForeignSends, Travels
<1>8. pseudo' \in Pseudos \cup {0} /\ harm' # "none" /\ harm' \notin {"byte", "pseudo"}
  BY <1>7
<1>9. next' \in Uint32 /\ (outcome' = "received" => datagram' = taken')
  BY <1>7, Zenon DEF LinkInv
<1>10. QED
  BY <1>6, <1>7, <1>8, <1>9, SetsOut, Zenon

(* A byte is changed, the end is cut off, or the pseudo-header is not the  *)
(* one it was written for.                                                 *)
LEMMA SuffersInv ==
    ASSUME LinkInv, Suffers
    PROVE  LinkInv'
<1>1. /\ harm = "none" /\ network # NoDatagram
      /\ taken' = taken /\ next' = next /\ outcome' = outcome /\ datagram' = datagram
  BY DEF Suffers
<1>2. Datagram(network) /\ Genuine(network.payload, pseudo, sent, next)
  BY <1>1, Zenon DEF LinkInv
<1>3. PICK bytes, from : network = [source_address |-> from, payload |-> bytes] /\ bytes = network.payload
  BY <1>2, Zenon DEF Datagram
<1>4. bytes \in Seq(Byte) /\ Len(bytes) < Word /\ pseudo \in Pseudos /\ GoodChecksum(bytes, pseudo)
  BY <1>2, <1>3, Zenon DEF Datagram, Genuine
<1>5. next' \in Uint32 /\ (outcome' = "received" => datagram' = taken')
  BY <1>1, Zenon DEF LinkInv
<1>6. ASSUME NEW new \in Seq(Byte), Len(new) < Word, NEW p \in Pseudos, NEW what \in {"byte", "cut", "pseudo"},
             what # "cut" => ~ GoodChecksum(new, p), Becomes(new), Travels(p, what)
      PROVE  LinkInv'
  <2>1. PICK d : d = [source_address |-> from, payload |-> new]
    OBVIOUS
  <2>2. d.payload = new /\ Datagram(d)
    BY <1>6, <2>1 DEF Datagram
  <2>3. network' = d
    BY <1>3, <1>6, <2>1 DEF Becomes
  <2>4. pseudo' = p /\ harm' = what /\ result' = "none"
    BY <1>6, Zenon DEF Travels
  <2>5. harm' # "none" /\ pseudo' \in Pseudos \cup {0} /\ (harm' \in {"byte", "pseudo"} => what # "cut")
    BY <2>4
  <2>6. QED
    BY <1>1, <1>5, <1>6, <2>2, <2>3, <2>4, <2>5, SetsOut, Zenon
<1>7. \/ \E i \in DOMAIN bytes : \E b \in Damages \ {bytes[i]} :
            Becomes([bytes EXCEPT ![i] = b]) /\ Travels(pseudo, "byte")
      \/ \E n \in 0..(Len(bytes) - 1) : Becomes(SubSeq(bytes, 1, n)) /\ Travels(pseudo, "cut")
      \/ \E p \in Pseudos \ {pseudo} : Becomes(bytes) /\ Travels(p, "pseudo")
  BY <1>3, Zenon DEF Suffers
<1>8. pseudo \in 0..(Word * Base)
  BY <1>4, LinkAssumption, Zenon
<1>9. CASE \E i \in DOMAIN bytes : \E b \in Damages \ {bytes[i]} :
             Becomes([bytes EXCEPT ![i] = b]) /\ Travels(pseudo, "byte")
  <2>0. PICK i \in DOMAIN bytes : \E b \in Damages \ {bytes[i]} :
           Becomes([bytes EXCEPT ![i] = b]) /\ Travels(pseudo, "byte")
    BY <1>9, Zenon
  <2>1. PICK b \in Damages \ {bytes[i]} : Becomes([bytes EXCEPT ![i] = b]) /\ Travels(pseudo, "byte")
    BY <2>0, Zenon
  <2>2. i \in 1..Len(bytes) /\ b \in Byte /\ b # bytes[i]
    <3>1. i \in 1..Len(bytes)
      BY <1>4
    <3>2. b \in Byte
      BY LinkAssumption
    <3>3. QED
      BY <3>1, <3>2
  <2>3. PICK new : new = [bytes EXCEPT ![i] = b]
    OBVIOUS
  <2>4. new \in Seq(Byte) /\ Len(new) = Len(bytes) /\ ~ GoodChecksum(new, pseudo)
    <3>1. PICK p, j, v, c : p = pseudo /\ j = i /\ v = b /\ c = new
      BY Zenon
    <3>3. /\ p \in 0..(Word * Base) /\ GoodChecksum(bytes, p) /\ j \in 1..Len(bytes) /\ v \in Byte
          /\ v # bytes[j] /\ c = Changed(bytes, j, v) /\ bytes \in Seq(Byte) /\ Len(bytes) < Word
      BY <1>4, <1>8, <2>2, <2>3, <3>1, Zenon DEF Changed
    <3>4. c \in Seq(Byte) /\ Len(c) = Len(bytes) /\ ~ GoodChecksum(c, p)
      BY ONLY <3>3, ChangeIsSeen, SMT
    <3>5. QED
      BY <3>1, <3>4, Zenon
  <2>5. "byte" \in {"byte", "cut", "pseudo"} /\ Len(new) < Word
    BY ONLY <1>4, <2>4
  <2>6. QED
    BY <1>4, <1>6, <2>1, <2>3, <2>4, <2>5, Zenon
<1>10. CASE \E n \in 0..(Len(bytes) - 1) : Becomes(SubSeq(bytes, 1, n)) /\ Travels(pseudo, "cut")
  <2>1. PICK n \in 0..(Len(bytes) - 1) : Becomes(SubSeq(bytes, 1, n)) /\ Travels(pseudo, "cut")
    BY <1>10, Zenon
  <2>2. PICK new : new = SubSeq(bytes, 1, n)
    OBVIOUS
  <2>3. new \in Seq(Byte) /\ Len(new) < Word
    <3>1. 1 \in 1..(Len(bytes) + 1) /\ n \in (1 - 1)..Len(bytes) /\ n - 1 + 1 = n /\ n < Len(bytes) /\ Len(bytes) \in Nat
      BY <1>4
    <3>2. new \in Seq(Byte) /\ Len(new) = n - 1 + 1
      BY <1>4, <2>2, <3>1, Slice
    <3>3. QED
      BY <1>4, <3>1, <3>2, Sizes
  <2>4. "cut" \in {"byte", "cut", "pseudo"}
    OBVIOUS
  <2>5. QED
    BY <1>4, <1>6, <2>1, <2>2, <2>3, <2>4, Zenon
<1>11. CASE \E p \in Pseudos \ {pseudo} : Becomes(bytes) /\ Travels(p, "pseudo")
  <2>1. PICK p \in Pseudos \ {pseudo} : Becomes(bytes) /\ Travels(p, "pseudo")
    BY <1>11, Zenon
  <2>2. p \in Pseudos /\ p # pseudo
    OBVIOUS
  <2>3. p \in 0..(Word * Base) /\ pseudo % (Word - 1) # p % (Word - 1)
    BY <1>4, <2>2, LinkAssumption, PseudoAssumption, Zenon
  <2>4. ~ GoodChecksum(bytes, p)
    BY <1>4, <1>8, <2>3, OtherPseudoIsSeen, Zenon
  <2>5. QED
    BY <1>4, <1>6, <2>1, <2>2, <2>4, Zenon
<1>12. QED
  BY <1>7, <1>9, <1>10, <1>11

(* UDPSocket::recv() and TCPSegment::parse() of its payload; a datagram    *)
(* that does not fit into the buffer makes recv() throw and nothing is     *)
(* parsed.                                                                 *)
LEMMA TakenInv ==
    ASSUME LinkInv, Receive, NEW mtu \in MTUs, Recv(mtu)
    PROVE  LinkInv'
<1>1. Recv(mtu)
  OBVIOUS
<1>2. mtu \in Nat
  BY LinkAssumption
<1>3. /\ network # NoDatagram /\ taken' = network /\ network' \in {network, NoDatagram}
      /\ pseudo' = pseudo /\ next' = next /\ sent' = sent /\ harm' = harm
  BY <1>1, Zenon DEF Recv, Receive
<1>4. Datagram(network)
  BY <1>3, Zenon DEF LinkInv
<1>5. PICK bytes, from : network = [source_address |-> from, payload |-> bytes] /\ bytes = network.payload
  BY <1>4, Zenon DEF Datagram
<1>6. bytes \in Seq(Byte) /\ Len(bytes) < Word
  BY <1>4, <1>5, Zenon DEF Datagram
<1>7. outcome' = "received" => datagram' = network
  <2>1. SUFFICES ASSUME outcome' = "received" PROVE datagram' = network
    OBVIOUS
  <2>2. /\ ~ (Len(bytes) > mtu)
        /\ datagram' = [network EXCEPT !.payload = Resized(Overwritten(datagram.payload, bytes, mtu), Len(bytes))]
    <3>1. outcome' # "threw"
      BY <2>1
    <3>2. QED
      BY <1>1, <1>5, <3>1, Zenon DEF Recv, Oversized
  <2>3. Len(bytes) <= mtu
    BY <1>2, <1>6, <2>2
  <2>4. Resized(Overwritten(datagram.payload, bytes, mtu), Len(bytes)) = bytes
    BY <1>2, <1>6, <2>3, ReceivedIs, Zenon
  <2>5. [network EXCEPT !.payload = bytes] = network
    BY ONLY <1>5
  <2>6. QED
    BY <2>2, <2>4, <2>5, Zenon
<1>8. CASE /\ outcome' = "received"
           /\ segment' = ParseSegment(TCPSegmentInit, datagram'.payload, pseudo).segment
           /\ result' = ParseSegment(TCPSegmentInit, datagram'.payload, pseudo).result
  <2>1. PICK r : r = ParseSegment(TCPSegmentInit, bytes, pseudo)
    OBVIOUS
  <2>2. segment' = r.segment /\ result' = r.result /\ datagram' = taken' /\ taken'.payload = bytes
    BY <1>3, <1>5, <1>7, <1>8, <2>1, Zenon
  <2>3. harm \in {"byte", "pseudo"} => r.result = "BadChecksum"
    <3>1. SUFFICES ASSUME harm \in {"byte", "pseudo"} PROVE r.result = "BadChecksum"
      OBVIOUS
    <3>2. ~ GoodChecksum(bytes, pseudo)
      BY <1>3, <1>5, <3>1, Zenon DEF LinkInv
    <3>3. r = [segment |-> TCPSegmentInit, result |-> "BadChecksum"]
      BY <2>1, <3>2, Zenon DEF ParseSegment
    <3>4. QED
      BY ONLY <3>3
  <2>4. harm = "none" => Genuine(bytes, pseudo, sent, next)
    BY <1>3, <1>5, Zenon DEF LinkInv
  <2>5. harm \in {"byte", "pseudo"} => ~ GoodChecksum(bytes, pseudo)
    BY <1>3, <1>5, Zenon DEF LinkInv
  <2>6. pseudo \in Pseudos \cup {0} /\ next \in Uint32
    BY Zenon DEF LinkInv
  <2>7. network' # NoDatagram => network' = taken' /\ network'.payload = bytes
    BY <1>3, <1>5, Zenon
  <2>8. QED
    BY <1>3, <1>4, <2>1, <2>2, <2>3, <2>4, <2>5, <2>6, <2>7, Zenon DEF LinkInv
<1>9. CASE outcome' = "threw" /\ segment' = segment /\ result' = result
  <2>1. outcome' # "received"
    BY <1>9
  <2>2. result # "none" => taken = network
    BY <1>3, Zenon DEF LinkInv
  <2>3. QED
    BY <1>3, <1>4, <1>9, <2>1, <2>2, Zenon DEF LinkInv
<1>10. QED
  BY <1>8, <1>9, Zenon DEF Receive

(* UDPSocket::recv(), whether or not recvfrom() fails. *)
LEMMA ReceiveInv ==
    ASSUME LinkInv, Receive
    PROVE  LinkInv'
<1>1. PICK mtu \in MTUs : Recv(mtu) \/ RecvThrows(mtu)
  BY Zenon DEF Receive
<1>2. CASE Recv(mtu)
  BY <1>2, TakenInv, Zenon
<1>3. CASE RecvThrows(mtu)
  <2>1. /\ network' \in {network, NoDatagram} /\ taken' = taken /\ outcome' = "threw"
    BY <1>3 DEF RecvThrows
  <2>2. outcome' # "received"
    BY <2>1
  <2>3. /\ pseudo' = pseudo /\ next' = next /\ sent' = sent /\ harm' = harm
        /\ segment' = segment /\ result' = result
    BY <2>2, Zenon DEF Receive
  <2>4. QED
    BY <2>1, <2>2, <2>3, StaysAsItIs, Zenon
<1>4. QED
  BY <1>1, <1>2, <1>3

(* Every step keeps the invariant. *)
LEMMA LinkStep ==
    ASSUME LinkInv, [Next]_vars
    PROVE  LinkInv'
<1>1. CASE SenderConnects
  <2>1. /\ network' \in {network, NoDatagram} /\ taken' = taken /\ pseudo' = pseudo /\ next' = next
        /\ sent' = sent /\ harm' = harm /\ segment' = segment /\ result' = result
        /\ outcome' = outcome /\ datagram' = datagram
    BY <1>1 DEF SenderConnects, Connect, linkVars
  <2>2. outcome' = "received" => datagram' = taken'
    BY <2>1, Zenon DEF LinkInv
  <2>3. QED
    BY <2>1, <2>2, StaysAsItIs, Zenon
<1>2. CASE Loses
  <2>1. /\ network' \in {network, NoDatagram} /\ taken' = taken /\ pseudo' = pseudo /\ next' = next
        /\ sent' = sent /\ harm' = harm /\ segment' = segment /\ result' = result
        /\ outcome' = outcome /\ datagram' = datagram
    BY <1>2 DEF Loses, Lose, linkVars
  <2>2. outcome' = "received" => datagram' = taken'
    BY <2>1, Zenon DEF LinkInv
  <2>3. QED
    BY <2>1, <2>2, StaysAsItIs, Zenon
<1>3. CASE UNCHANGED vars
  <2>1. /\ network' \in {network, NoDatagram} /\ taken' = taken /\ pseudo' = pseudo /\ next' = next
        /\ sent' = sent /\ harm' = harm /\ segment' = segment /\ result' = result
        /\ outcome' = outcome /\ datagram' = datagram
    BY <1>3 DEF vars, udpVars, linkVars
  <2>2. outcome' = "received" => datagram' = taken'
    BY <2>1, Zenon DEF LinkInv
  <2>3. QED
    BY <2>1, <2>2, StaysAsItIs, Zenon
<1>4. QED
  BY <1>1, <1>2, <1>3, SendInv, ForeignInv, SuffersInv, ReceiveInv, Zenon DEF Next

-----------------------------------------------------------------------------
(* What holds of the link *)

(* The invariant holds in every state of the link. *)
THEOREM LinkInvariant == Spec => []LinkInv
<1>1. Init => LinkInv
  BY LinkInit
<1>2. LinkInv /\ [Next]_vars => LinkInv'
  BY LinkStep
<1>3. QED
  BY <1>1, <1>2, PTL DEF Spec

(* UDPSocket::recv() hands out the datagram it took, whole and with its    *)
(* source address, whatever the payload of its argument held before: the   *)
(* resize() after recvfrom() and the test of the size leave nothing of the *)
(* old bytes.                                                              *)
THEOREM DatagramsWholeCorrect == Spec => []DatagramsWhole
<1>1. LinkInv => DatagramsWhole
  BY Zenon DEF LinkInv, DatagramsWhole
<1>2. QED
  BY <1>1, LinkInvariant, PTL

(* A change of one byte anywhere in a segment, or a pseudo-header with     *)
(* another sum, makes TCPSegment::parse() return BadChecksum: whatever the *)
(* segment is, its checksum field included.                                *)
THEOREM DamageDetectedCorrect == Spec => []DamageDetected
<1>1. LinkInv => DamageDetected
  BY Zenon DEF LinkInv, DamageDetected
<1>2. QED
  BY <1>1, LinkInvariant, PTL

(* ParseExact from the invariant: what was parsed is what was taken. *)
LEMMA ParseIsExact ==
    ASSUME LinkInv
    PROVE  ParseExact
<1>1. SUFFICES ASSUME result \in {"NoError", "PacketTooShort"}
               PROVE  IF Len(Arrived) < LENGTH \/ Len(Arrived) < WireStart
                      THEN result = "PacketTooShort"
                      ELSE /\ result = "NoError"
                           /\ WireStart >= LENGTH => segment.payload = SubSeq(Arrived, WireStart + 1, Len(Arrived))
  BY Zenon DEF ParseExact
<1>2. PICK bytes, start, r : /\ bytes = Arrived /\ start = StartOf(bytes)
                             /\ r = ParseSegment(TCPSegmentInit, bytes, pseudo)
  BY Zenon
<1>3. WireStart = start
  BY <1>2, Zenon DEF WireStart, StartOf, DoffOf
<1>4. result # "none" /\ result # "BadChecksum"
  BY <1>1
<1>5. segment = r.segment /\ result = r.result /\ bytes \in Seq(Byte)
  BY <1>2, <1>4, Zenon DEF LinkInv, Arrived, Datagram
<1>6. ParsedAs(bytes, pseudo, r)
  BY <1>2, <1>5, SegmentRead, Zenon
<1>7. GoodChecksum(bytes, pseudo)
  <2>1. SUFFICES ASSUME ~ GoodChecksum(bytes, pseudo) PROVE FALSE
    OBVIOUS
  <2>2. r = [segment |-> TCPSegmentInit, result |-> "BadChecksum"]
    BY <1>6, <2>1, Zenon DEF ParsedAs
  <2>3. r.result = "BadChecksum"
    BY ONLY <2>2
  <2>4. QED
    BY <1>4, <1>5, <2>3, Zenon
<1>8. /\ r.result = IF Len(bytes) < 20 \/ Len(bytes) < start THEN "PacketTooShort" ELSE "NoError"
      /\ 20 <= start /\ 20 <= Len(bytes) /\ start <= Len(bytes) => r.segment.payload = SubSeq(bytes, start + 1, Len(bytes))
  BY <1>2, <1>6, <1>7, Zenon DEF ParsedAs, From
<1>9. CASE Len(bytes) < 20 \/ Len(bytes) < start
  BY <1>2, <1>3, <1>5, <1>8, <1>9, Zenon DEF LENGTH
<1>10. CASE ~ (Len(bytes) < 20 \/ Len(bytes) < start)
  <2>1. result = "NoError"
    BY <1>5, <1>8, <1>10, Zenon
  <2>2. ASSUME start >= 20 PROVE segment.payload = SubSeq(bytes, start + 1, Len(bytes))
    <3>1. 20 <= Len(bytes)
      BY ONLY <1>5, <1>10
    <3>2. Len(bytes) \in Nat /\ start \in Nat
      <4>1. 13 \in 1..Len(bytes)
        BY ONLY <1>5, <3>1
      <4>2. bytes[13] \in Byte
        BY ONLY <1>5, <4>1
      <4>3. PICK d : d = DoffOf(bytes[13])
        OBVIOUS
      <4>4. d \in 0..15
        BY <4>2, <4>3, DoffIs, Zenon
      <4>5. start = 4 * d
        BY <1>2, <4>3, Zenon DEF StartOf
      <4>6. QED
        BY ONLY <1>5, <4>4, <4>5
    <3>3. 20 <= start /\ start <= Len(bytes)
      BY ONLY <1>10, <2>2, <3>2
    <3>4. QED
      BY <1>5, <1>8, <3>1, <3>3, Zenon
  <2>3. QED
    BY <1>2, <1>3, <1>10, <2>1, <2>2, Zenon DEF LENGTH
<1>11. QED
  BY <1>9, <1>10

(* TCPSegment::parse() of a packet with a good checksum, genuine, cut off  *)
(* or foreign, of any length, returns PacketTooShort exactly when the      *)
(* fields or the options that doff announces are not all there, and        *)
(* otherwise the payload is what follows the options.  Of a doff below the *)
(* minimum it says only that the result is not PacketTooShort.             *)
THEOREM ParseExactCorrect == Spec => []ParseExact
<1>1. LinkInv => ParseExact
  BY ParseIsExact
<1>2. QED
  BY <1>1, LinkInvariant, PTL

(* ChecksumOfPieces from the invariant: what was taken is shorter than     *)
(* 2^16.                                                                   *)
LEMMA PiecesAgree ==
    ASSUME LinkInv
    PROVE  ChecksumOfPieces
<1>1. PICK bytes, p : bytes = Arrived /\ p = pseudo
  BY Zenon
<1>2. bytes \in Seq(Byte) /\ Len(bytes) < Word /\ p \in Pseudos \cup {0}
  BY <1>1, Zenon DEF LinkInv, Arrived, Datagram
<1>3. p \in 0..(Word * Base) /\ p \in Nat
  BY <1>2, PseudoIs, Zenon
<1>4. SUFFICES ASSUME NEW n \in 0..Len(bytes)
               PROVE  (Value(Add(Add(InitialSum(p), SubSeq(bytes, 1, n)), SubSeq(bytes, n + 1, Len(bytes))))
                         + (p + WordSum(bytes))) % (Word - 1) = 0
  BY <1>1, Zenon DEF ChecksumOfPieces
<1>5. PICK a, b : a = SubSeq(bytes, 1, n) /\ b = SubSeq(bytes, n + 1, Len(bytes))
  OBVIOUS
<1>6. a \in Seq(Byte) /\ b \in Seq(Byte) /\ bytes = a \o b
  <2>1. bytes = a \o b
    BY <1>2, <1>5, CutAt, Zenon
  <2>2. PICK m \in Nat : m = Len(bytes) /\ n \in 0..m
    BY <1>2
  <2>3. 1 \in 1..(m + 1) /\ n \in (1 - 1)..m /\ n + 1 \in 1..(m + 1) /\ m \in (n + 1 - 1)..m
    BY ONLY <2>2, m \in Nat
  <2>4. a \in Seq(Byte)
    BY ONLY <1>2, <1>5, <2>2, <2>3, Slice
  <2>5. b \in Seq(Byte)
    BY ONLY <1>2, <1>5, <2>2, <2>3, Slice
  <2>6. QED
    BY <2>1, <2>4, <2>5
<1>7. PICK check : check = Add(Add(InitialSum(p), a), b)
  OBVIOUS
<1>8. check.sum = p + WordSum(bytes) /\ WordSum(bytes) \in Nat
  BY <1>2, <1>3, <1>6, <1>7, PiecesIs, Zenon
<1>9. check.sum \in Nat
  BY ONLY <1>3, <1>8
<1>10. (Value(check) + check.sum) % (Word - 1) = 0
  BY <1>9, ValueCancels, Zenon
<1>11. QED
  BY <1>5, <1>7, <1>8, <1>10, Zenon

(* InternetChecksum gives the complement of the sum of the words for every *)
(* way to cut the bytes in two, at an odd place too, and _sum does not     *)
(* wrap on the way.                                                        *)
THEOREM ChecksumOfPiecesCorrect == Spec => []ChecksumOfPieces
<1>1. LinkInv => ChecksumOfPieces
  BY PiecesAgree
<1>2. QED
  BY <1>1, LinkInvariant, PTL

(* RoundTrip from the invariant: what was taken is what serialize() made,  *)
(* and parse() reads its fields.                                           *)
LEMMA ReadBack ==
    ASSUME LinkInv
    PROVE  RoundTrip
<1>1. SUFFICES ASSUME harm = "none", result # "none"
               PROVE  /\ result = "NoError"
                      /\ SameHeader(segment.header, sent.header)
                      /\ \A f \in {"sport", "dport"} : segment.header[f] = sent.header[f]
                      /\ segment.payload = sent.payload
                      /\ (segment.header.seqno + SequenceLength(segment)) % (Word * Word) = next
  BY Zenon DEF RoundTrip
<1>2. PICK bytes, r : bytes = taken.payload /\ r = ParseSegment(TCPSegmentInit, bytes, pseudo)
  BY Zenon
<1>3. segment = r.segment /\ result = r.result /\ bytes \in Seq(Byte) /\ Genuine(bytes, pseudo, sent, next)
  BY <1>1, <1>2, Zenon DEF LinkInv, Datagram
<1>4. ParsedAs(bytes, pseudo, r)
  BY <1>2, <1>3, SegmentRead, Zenon
<1>5. /\ 20 <= Len(bytes) /\ 20 <= StartOf(bytes) /\ StartOf(bytes) <= Len(bytes)
      /\ \E c \in Uint16 : HeaderOf(bytes) = [sent.header EXCEPT !.cksum = c]
      /\ From(bytes, StartOf(bytes) + 1) = sent.payload
      /\ GoodChecksum(bytes, pseudo) /\ sent.header \in SentHeaders
      /\ next = (sent.header.seqno + SequenceLength(sent)) % (Word * Word)
  BY <1>3, Zenon DEF Genuine, Serialized
<1>6. /\ r.result = IF Len(bytes) < 20 \/ Len(bytes) < StartOf(bytes) THEN "PacketTooShort" ELSE "NoError"
      /\ r.segment.header = HeaderOf(bytes) /\ r.segment.payload = sent.payload
  BY <1>4, <1>5, Zenon DEF ParsedAs
<1>7. result = "NoError"
  <2>1. PICK n \in Nat : n = Len(bytes)
    BY <1>3
  <2>2. 13 \in 1..n
    BY ONLY <1>5, <2>1
  <2>3. bytes[13] \in Byte
    BY ONLY <1>3, <2>1, <2>2
  <2>4. PICK start \in Nat : start = StartOf(bytes)
    <3>1. PICK d : d = DoffOf(bytes[13])
      OBVIOUS
    <3>2. d \in 0..15
      BY <2>3, <3>1, DoffIs, Zenon
    <3>3. StartOf(bytes) = 4 * d
      BY <3>1, Zenon DEF StartOf
    <3>4. 4 * d \in Nat
      BY ONLY <3>2
    <3>5. QED
      BY <3>3, <3>4, Zenon
  <2>5. 20 <= n /\ start <= n
    BY <1>5, <2>1, <2>4, Zenon
  <2>6. ~ (n < 20 \/ n < start)
    BY ONLY <2>5, n \in Nat, start \in Nat
  <2>7. QED
    BY <1>3, <1>6, <2>1, <2>4, <2>6, Zenon
<1>8. PICK h, g, c : h = sent.header /\ g = segment.header /\ g = [h EXCEPT !.cksum = c]
  BY <1>3, <1>5, <1>6, Zenon
<1>9. /\ g.sport = h.sport /\ g.dport = h.dport /\ g.seqno = h.seqno /\ g.ackno = h.ackno /\ g.doff = h.doff
      /\ g.flags = h.flags /\ g.win = h.win /\ g.uptr = h.uptr
  BY ONLY <1>5, <1>8 DEF SentHeaders
<1>10. segment.payload = sent.payload
  BY <1>3, <1>6, Zenon
<1>11. SequenceLength(segment) = SequenceLength(sent)
  BY <1>8, <1>9, <1>10, Zenon DEF SequenceLength
<1>12. SameHeader(g, h)
  BY <1>9, Zenon DEF SameHeader
<1>13. \A f \in {"sport", "dport"} : g[f] = h[f]
  BY ONLY <1>9
<1>14. QED
  BY <1>5, <1>7, <1>8, <1>9, <1>10, <1>11, <1>12, <1>13, Zenon

(* TCPSegment::parse() of what TCPSegment::serialize() wrote gives back    *)
(* every field of the header, the ports included, and the payload, for     *)
(* every header whose fields fit their widths, every payload that fits in  *)
(* a datagram and every pseudo-header; and the next seqno is where the     *)
(* parsed segment ends.                                                    *)
THEOREM RoundTripCorrect == Spec => []RoundTrip
<1>1. LinkInv => RoundTrip
  BY ReadBack
<1>2. QED
  BY <1>1, LinkInvariant, PTL
=============================================================================
