-------------------------- MODULE BufferListProofs --------------------------
(***************************************************************************)
(* Proofs about Buffer and BufferList: strings that are shared behave like *)
(* strings that are not, and are freed when all of them is discarded.      *)
(***************************************************************************)
EXTENDS BufferList, SliceLemmas

Heaps == [Storage -> Seq(Byte)]

(* The Buffers that a heap bears: the offset is within the string, and a   *)
(* Buffer that shows nothing of it has let it go, unless it is empty.      *)
Buffers(h) ==
    {b \in [storage : Storage \cup {None}, offset : Nat] :
        b.storage # None =>
            /\ b.offset <= Len(h[b.storage])
            /\ Str(h, b) # << >> \/ h[b.storage] = << >>}

(* The inductive invariant.  It gives FreedWhenDiscarded, and the offsets  *)
(* without which nothing can be said of what remove_prefix() leaves.       *)
ListInv ==
    /\ heap \in Heaps
    /\ lists \in [List -> Seq(Buffers(heap))]
    /\ buffer \in Buffers(heap)

-----------------------------------------------------------------------------
(* What a Buffer shows. *)
LEMMA StrTyped ==
    ASSUME NEW h \in Heaps, NEW b \in Buffers(h)
    PROVE  /\ Str(h, b) \in Seq(Byte) /\ Len(Str(h, b)) \in Nat
           /\ b.storage # None => /\ h[b.storage] \in Seq(Byte)
                                  /\ b.offset \in 0..Len(h[b.storage])
                                  /\ Len(Str(h, b)) = Len(h[b.storage]) - b.offset
<1>1. CASE b.storage = None
  BY <1>1 DEF Str
<1>2. CASE b.storage # None
  <2>1. b.storage \in Storage /\ b.offset \in Nat /\ b.offset <= Len(h[b.storage])
    BY <1>2 DEF Buffers
  <2>2. PICK s \in Seq(Byte) : s = h[b.storage] /\ Len(s) \in Nat
    BY <2>1, LenProperties DEF Heaps
  <2>3. b.offset \in 0..Len(s)
    BY <2>1, <2>2
  <2>4. From(s, b.offset + 1) \in Seq(Byte) /\ Len(From(s, b.offset + 1)) = Len(s) - b.offset
    BY <2>3, Rest DEF From
  <2>5. Str(h, b) = From(s, b.offset + 1)
    BY <1>2, <2>2 DEF Str
  <2>6. QED
    BY <2>2, <2>3, <2>4, <2>5, LenProperties
<1>3. QED
  BY <1>1, <1>2

(* A list is seen as the sequence of what its Buffers show. *)
LEMMA ViewsTyped ==
    ASSUME NEW h \in Heaps, NEW bufs \in Seq(Buffers(h))
    PROVE  /\ Views(h, bufs) \in Seq(Seq(Byte)) /\ Len(Views(h, bufs)) = Len(bufs)
           /\ \A i \in 1..Len(bufs) : Views(h, bufs)[i] = Str(h, bufs[i])
<1>1. PICK n \in Nat : n = Len(bufs)
  BY LenProperties
<1>2. ASSUME NEW i \in 1..n PROVE Str(h, bufs[i]) \in Seq(Byte)
  <2>1. bufs[i] \in Buffers(h)
    BY <1>1, ElementOfSeq
  <2>2. QED
    BY <2>1, StrTyped
<1>3. PICK v : v = [i \in 1..n |-> Str(h, bufs[i])]
  OBVIOUS
<1>4. v \in [1..n -> Seq(Byte)]
  BY <1>2, <1>3
<1>5. v \in Seq(Seq(Byte)) /\ Len(v) = n
  BY <1>4
<1>6. QED
  BY <1>1, <1>3, <1>5, Zenon DEF Views

(* The views of no Buffer, of one, and of two lists. *)
LEMMA ViewsOfFew ==
    ASSUME NEW h \in Heaps
    PROVE  /\ Views(h, << >>) = << >>
           /\ \A b \in Buffers(h) : Views(h, <<b>>) = <<Str(h, b)>>
<1>1. Views(h, << >>) = << >>
  BY DEF Views
<1>2. ASSUME NEW b \in Buffers(h) PROVE Views(h, <<b>>) = <<Str(h, b)>>
  BY DEF Views
<1>3. QED
  BY <1>1, <1>2

(* Where the elements of two sequences are in the joined one. *)
Joins(c, S, a, b) ==
    /\ c \in Seq(S) /\ Len(c) = Len(a) + Len(b)
    /\ \A i \in 1..Len(a) : c[i] = a[i]
    /\ \A i \in 1..Len(b) : c[Len(a) + i] = b[i]

(* The joined sequence of two. *)
LEMMA ElementsOfBoth ==
    ASSUME NEW S, NEW a \in Seq(S), NEW b \in Seq(S)
    PROVE  Joins(a \o b, S, a, b)
  BY ConcatProperties, LenProperties DEF Joins

(* The views of one list after another. *)
LEMMA ViewsOfBoth ==
    ASSUME NEW h \in Heaps, NEW a \in Seq(Buffers(h)), NEW b \in Seq(Buffers(h))
    PROVE  Views(h, a \o b) = Views(h, a) \o Views(h, b)
<1>1. PICK m \in Nat, n \in Nat : m = Len(a) /\ n = Len(b)
  BY LenProperties
<1>2. PICK c : c = a \o b
  OBVIOUS
<1>3. /\ c \in Seq(Buffers(h)) /\ Len(c) = m + n
      /\ \A i \in 1..m : c[i] = a[i]
      /\ \A i \in 1..n : c[m + i] = b[i]
  BY <1>2, <1>1, ConcatProperties
<1>4. PICK u \in Seq(Seq(Byte)), v \in Seq(Seq(Byte)), w \in Seq(Seq(Byte)) :
        u = Views(h, a) /\ v = Views(h, b) /\ w = Views(h, c)
  <2>1. Views(h, a) \in Seq(Seq(Byte)) /\ Views(h, b) \in Seq(Seq(Byte))
    BY ViewsTyped, Zenon
  <2>2. Views(h, c) \in Seq(Seq(Byte))
    BY <1>3, ViewsTyped, Zenon
  <2>3. QED
    BY <2>1, <2>2, Zenon
<1>5. /\ Len(u) = m /\ \A i \in 1..m : u[i] = Str(h, a[i])
      /\ Len(v) = n /\ \A i \in 1..n : v[i] = Str(h, b[i])
      /\ Len(w) = m + n /\ \A i \in 1..(m + n) : w[i] = Str(h, c[i])
  <2>1. Len(u) = m /\ \A i \in 1..m : u[i] = Str(h, a[i])
    BY <1>1, <1>4, ViewsTyped, Zenon
  <2>2. Len(v) = n /\ \A i \in 1..n : v[i] = Str(h, b[i])
    BY <1>1, <1>4, ViewsTyped, Zenon
  <2>3. Len(w) = m + n /\ \A i \in 1..(m + n) : w[i] = Str(h, c[i])
    BY <1>3, <1>4, ViewsTyped, Zenon
  <2>4. QED
    BY <2>1, <2>2, <2>3, Zenon
<1>6. PICK x : x = u \o v
  OBVIOUS
<1>7. /\ x \in Seq(Seq(Byte)) /\ Len(x) = m + n
      /\ \A i \in 1..m : x[i] = u[i]
      /\ \A i \in 1..n : x[m + i] = v[i]
  <2>1. Len(u) = m /\ Len(v) = n
    BY <1>5, Zenon
  <2>2. Joins(u \o v, Seq(Byte), u, v)
    BY ElementsOfBoth, Zenon
  <2>3. QED
    BY ONLY <1>6, <2>1, <2>2, Zenon DEF Joins
<1>8. ASSUME NEW i \in 1..(m + n) PROVE w[i] = x[i]
  <2>1. w[i] = Str(h, c[i])
    BY <1>5, Zenon
  <2>2. CASE i \in 1..m
    <3>1. c[i] = a[i] /\ u[i] = Str(h, a[i]) /\ x[i] = u[i]
      BY <1>3, <1>5, <1>7, <2>2, Zenon
    <3>2. QED
      BY <2>1, <3>1, Zenon
  <2>3. CASE i \notin 1..m
    <3>1. PICK j \in 1..n : m + j = i
      <4>1. i - m \in 1..n /\ m + (i - m) = i
        BY <2>3
      <4>2. QED
        BY <4>1, Zenon
    <3>2. c[m + j] = b[j] /\ v[j] = Str(h, b[j]) /\ x[m + j] = v[j]
      BY <1>3, <1>5, <1>7, Zenon
    <3>3. QED
      BY <2>1, <3>1, <3>2, Zenon
  <2>4. QED
    BY <2>2, <2>3
<1>9. w = x
  BY <1>5, <1>7, <1>8, SeqEqual
<1>10. QED
  BY <1>2, <1>4, <1>6, <1>9, Zenon

(* What Buffer::remove_prefix() leaves is a Buffer that shows the rest. *)
LEMMA TrimmedIs ==
    ASSUME NEW h \in Heaps, NEW b \in Buffers(h), NEW n \in 0..Len(Str(h, b))
    PROVE  /\ TrimmedBuffer(h, b, n) \in Buffers(h)
           /\ Str(h, TrimmedBuffer(h, b, n)) = From(Str(h, b), n + 1)
<1>0. PICK t : t = TrimmedBuffer(h, b, n)
  OBVIOUS
<1>1. Str(h, b) \in Seq(Byte) /\ Len(Str(h, b)) \in Nat /\ n \in Nat
  BY StrTyped
<1>2. b.storage \in Storage \cup {None} /\ b.offset \in Nat
  BY DEF Buffers
<1>3. CASE b.storage = None
  <2>1. t = [storage |-> None, offset |-> b.offset + n] /\ Str(h, t) = << >> /\ Str(h, b) = << >>
    BY <1>0, <1>3 DEF TrimmedBuffer, Str
  <2>2. t \in Buffers(h)
    BY <1>1, <1>2, <2>1 DEF Buffers
  <2>3. n = 0 /\ From(Str(h, b), n + 1) = << >>
    BY <1>1, <2>1 DEF From
  <2>4. QED
    BY <1>0, <2>1, <2>2, <2>3
<1>4. CASE b.storage # None
  <2>1. PICK s \in Seq(Byte), o \in Nat :
          /\ s = h[b.storage] /\ o = b.offset /\ Len(s) \in Nat /\ o <= Len(s)
          /\ Len(Str(h, b)) = Len(s) - o /\ Str(h, b) = From(s, o + 1)
    BY <1>2, <1>4, StrTyped, LenProperties DEF Str
  <2>2. o \in 0..Len(s) /\ n \in 0..(Len(s) - o) /\ o + n \in 0..Len(s)
    BY <2>1
  <2>3. From(From(s, o + 1), n + 1) = From(s, (o + n) + 1)
    BY <2>2, RestOfRest
  <2>4. From(s, (o + n) + 1) \in Seq(Byte) /\ Len(From(s, (o + n) + 1)) = Len(s) - (o + n)
    <3>1. PICK m \in 0..Len(s) : m = o + n
      BY <2>2
    <3>2. From(s, m + 1) \in Seq(Byte) /\ Len(From(s, m + 1)) = Len(s) - m
      BY Rest DEF From
    <3>3. QED
      BY <3>1, <3>2
  <2>5. CASE o + n = Len(s)
    <3>1. t = [storage |-> None, offset |-> o + n]
      BY <1>0, <1>4, <2>1, <2>5 DEF TrimmedBuffer
    <3>2. t \in Buffers(h) /\ Str(h, t) = << >>
      BY <1>1, <3>1 DEF Buffers, Str
    <3>3. From(s, (o + n) + 1) = << >>
      BY <2>1, <2>4, <2>5, EmptySeq
    <3>4. QED
      BY <1>0, <2>1, <2>3, <3>2, <3>3
  <2>6. CASE o + n # Len(s)
    <3>1. t = [storage |-> b.storage, offset |-> o + n]
      BY <1>0, <1>4, <2>1, <2>6 DEF TrimmedBuffer
    <3>2. Str(h, t) = From(s, (o + n) + 1)
      BY <1>4, <2>1, <3>1 DEF Str
    <3>3. Str(h, t) # << >>
      <4>1. Len(s) - (o + n) # 0 /\ Len(<< >>) = 0
        BY <2>1, <2>2, <2>6
      <4>2. QED
        BY <2>4, <3>2, <4>1, Zenon
    <3>4. t \in Buffers(h)
      BY <1>1, <1>2, <2>1, <2>2, <3>1, <3>3 DEF Buffers
    <3>5. QED
      BY <1>0, <2>1, <2>3, <3>2, <3>4
  <2>7. QED
    BY <2>5, <2>6
<1>5. QED
  BY <1>3, <1>4

-----------------------------------------------------------------------------
(* A list and the string it stands for. *)
LEMMA ConcatenateIs ==
    ASSUME NEW h \in Heaps
    PROVE  /\ \A bufs \in Seq(Buffers(h)) : Concatenate(h, bufs) \in Seq(Byte)
           /\ \A bufs \in Seq(Buffers(h)) : ListSize(h, bufs) = Len(Concatenate(h, bufs))
           /\ Concatenate(h, << >>) = << >>
           /\ \A b \in Buffers(h) : Concatenate(h, <<b>>) = Str(h, b)
           /\ \A a, b \in Seq(Buffers(h)) :
                 Concatenate(h, a \o b) = Concatenate(h, a) \o Concatenate(h, b)
<1>1. ASSUME NEW bufs \in Seq(Buffers(h))
      PROVE  Concatenate(h, bufs) \in Seq(Byte) /\ ListSize(h, bufs) = Len(Concatenate(h, bufs))
  <2>1. Views(h, bufs) \in Seq(Seq(Byte))
    BY ViewsTyped
  <2>2. QED
    BY <2>1, BytesOfFew, SizeIs, Zenon DEF Concatenate, ListSize
<1>2. Concatenate(h, << >>) = << >>
  BY ViewsOfFew, BytesOfFew DEF Concatenate
<1>3. ASSUME NEW b \in Buffers(h) PROVE Concatenate(h, <<b>>) = Str(h, b)
  <2>1. Views(h, <<b>>) = <<Str(h, b)>> /\ Str(h, b) \in Seq(Byte)
    BY ViewsOfFew, StrTyped, Zenon
  <2>2. QED
    BY <2>1, BytesOfFew, Zenon DEF Concatenate
<1>4. ASSUME NEW a \in Seq(Buffers(h)), NEW b \in Seq(Buffers(h))
      PROVE  Concatenate(h, a \o b) = Concatenate(h, a) \o Concatenate(h, b)
  <2>1. Views(h, a) \in Seq(Seq(Byte)) /\ Views(h, b) \in Seq(Seq(Byte))
    BY ViewsTyped, Zenon
  <2>2. Views(h, a \o b) = Views(h, a) \o Views(h, b)
    BY ViewsOfBoth, Zenon
  <2>3. Bytes(Views(h, a) \o Views(h, b)) = Bytes(Views(h, a)) \o Bytes(Views(h, b))
    BY <2>1, BytesOfBoth, Zenon
  <2>4. QED
    BY <2>2, <2>3, Zenon DEF Concatenate
<1>5. QED
  BY <1>1, <1>2, <1>3, <1>4

(* The state of the loop in BufferList::remove_prefix(), and what a turn   *)
(* does: as many bytes leave the front as the count goes down by, and the  *)
(* count comes to zero or a Buffer goes.                                   *)
LeftOf(h) == [buffers : Seq(Buffers(h)), n : Nat]

TurnDiscards(h, bufs, n, r) ==
    /\ r \in LeftOf(h) /\ r.n <= n
    /\ r.n = 0 \/ Len(r.buffers) = Len(bufs) - 1
    /\ n - r.n <= Len(Concatenate(h, bufs))
    /\ Concatenate(h, r.buffers) = From(Concatenate(h, bufs), (n - r.n) + 1)

(* A turn of the loop in BufferList::remove_prefix() does that. *)
LEMMA DiscardTurnIs ==
    ASSUME NEW h \in Heaps, NEW bufs \in Seq(Buffers(h)), bufs # << >>, NEW n \in Nat
    PROVE  TurnDiscards(h, bufs, n, DiscardTurn(h, bufs, n))
<1>0. PICK r : r = DiscardTurn(h, bufs, n)
  OBVIOUS
<1>1. PICK b \in Buffers(h), rest \in Seq(Buffers(h)) : b = Head(bufs) /\ rest = Tail(bufs)
  <2>1. Head(bufs) \in Buffers(h) /\ Tail(bufs) \in Seq(Buffers(h))
    BY HeadTailProperties
  <2>2. QED
    BY <2>1, Zenon
<1>2. bufs = <<b>> \o rest /\ <<b>> \in Seq(Buffers(h)) /\ Len(rest) = Len(bufs) - 1
  BY <1>1, HeadTailProperties
<1>3. PICK v \in Seq(Byte), t \in Seq(Byte), c \in Seq(Byte) :
        /\ v = Str(h, b) /\ t = Concatenate(h, rest) /\ c = Concatenate(h, bufs)
        /\ Len(v) \in Nat /\ Len(t) \in Nat
  <2>1. Str(h, b) \in Seq(Byte) /\ Concatenate(h, rest) \in Seq(Byte) /\ Concatenate(h, bufs) \in Seq(Byte)
    BY StrTyped, ConcatenateIs
  <2>2. \A q \in Seq(Byte) : Len(q) \in Nat
    BY LenProperties
  <2>3. QED
    BY <2>1, <2>2, Zenon
<1>4. c = v \o t
  <2>1. Concatenate(h, <<b>> \o rest) = Concatenate(h, <<b>>) \o Concatenate(h, rest)
    BY <1>2, ConcatenateIs, Zenon
  <2>2. Concatenate(h, <<b>>) = v
    BY <1>3, ConcatenateIs, Zenon
  <2>3. QED
    BY <1>2, <1>3, <2>1, <2>2, Zenon
<1>5. Len(c) = Len(v) + Len(t)
  BY <1>4, ConcatProperties
<1>6. CASE n < Len(v)
  <2>1. n \in 0..Len(v)
    BY <1>3, <1>6
  <2>2. PICK d \in Buffers(h) : d = TrimmedBuffer(h, b, n) /\ Str(h, d) = From(v, n + 1)
    <3>1. n \in 0..Len(Str(h, b))
      BY <1>3, <2>1
    <3>2. QED
      BY <1>3, <3>1, TrimmedIs, Zenon
  <2>3. r = [buffers |-> <<d>> \o rest, n |-> 0]
    BY <1>0, <1>1, <1>3, <1>6, <2>2, Zenon DEF DiscardTurn
  <2>4. <<d>> \in Seq(Buffers(h)) /\ <<d>> \o rest \in Seq(Buffers(h))
    OBVIOUS
  <2>5. r \in LeftOf(h) /\ r.n = 0 /\ r.buffers = <<d>> \o rest
    BY <2>3, <2>4 DEF LeftOf
  <2>6. Concatenate(h, r.buffers) = From(v, n + 1) \o t
    <3>1. Concatenate(h, <<d>> \o rest) = Concatenate(h, <<d>>) \o Concatenate(h, rest)
      BY <2>4, ConcatenateIs, Zenon
    <3>2. Concatenate(h, <<d>>) = Str(h, d)
      BY ConcatenateIs, Zenon
    <3>3. QED
      BY <1>3, <2>2, <2>5, <3>1, <3>2, Zenon
  <2>7. From(c, n + 1) = From(v, n + 1) \o t
    BY <1>4, <2>1, DropOfConcat DEF From
  <2>8. r.n <= n /\ n - r.n <= Len(c) /\ (n - r.n) + 1 = n + 1
    BY <1>3, <1>5, <1>6, <2>5
  <2>9. QED
    BY <1>0, <1>3, <2>5, <2>6, <2>7, <2>8, Zenon DEF TurnDiscards
<1>7. CASE ~ (n < Len(v))
  <2>1. r = [buffers |-> rest, n |-> n - Len(v)]
    BY <1>0, <1>1, <1>3, <1>7, Zenon DEF DiscardTurn
  <2>2. r \in LeftOf(h) /\ r.n = n - Len(v) /\ r.buffers = rest
    BY <1>3, <1>7, <2>1 DEF LeftOf
  <2>3. r.n <= n /\ (n - r.n) + 1 = Len(v) + 1 /\ n - r.n <= Len(c)
    BY <1>3, <1>5, <2>2
  <2>4. t = From(c, Len(v) + 1)
    BY <1>3, <1>4, <1>5 DEF From
  <2>5. QED
    BY <1>0, <1>2, <1>3, <2>2, <2>3, <2>4, Zenon DEF TurnDiscards
<1>8. QED
  BY <1>6, <1>7

(* BufferList::remove_prefix(n) removes the first n bytes, whatever the    *)
(* Buffers they are in; it throws if there are fewer, and then no byte is  *)
(* left.                                                                   *)
LEMMA DiscardedIs ==
    ASSUME NEW h \in Heaps, NEW bufs \in Seq(Buffers(h)), NEW n \in Nat
    PROVE  /\ Discarded(h, bufs, n) \in LeftOf(h)
           /\ Concatenate(h, Discarded(h, bufs, n).buffers) = From(Concatenate(h, bufs), n + 1)
           /\ Discarded(h, bufs, n).n > 0 <=> n > Len(Concatenate(h, bufs))
<1>1. PICK L \in Nat : L = Len(bufs)
  BY LenProperties
<1>2. PICK T : T = LeftOf(h)
  OBVIOUS
<1>3. PICK c \in Seq(Byte), l \in Nat : c = Concatenate(h, bufs) /\ l = Len(c)
  <2>1. Concatenate(h, bufs) \in Seq(Byte)
    BY ConcatenateIs, Zenon
  <2>2. Len(Concatenate(h, bufs)) \in Nat
    BY <2>1, LenProperties
  <2>3. QED
    BY <2>1, <2>2, Zenon
<1>4. PICK start \in T : start = [buffers |-> bufs, n |-> n]
  <2>1. [buffers |-> bufs, n |-> n] \in T
    BY <1>2 DEF LeftOf
  <2>2. QED
    BY <2>1, Zenon
<1> DEFINE Turn(s) == IF s.n > 0 /\ s.buffers # << >> THEN DiscardTurn(h, s.buffers, s.n) ELSE s
           Loop(f) == f = [k \in 0..L |-> IF k = 0 THEN [buffers |-> bufs, n |-> n]
                                           ELSE Turn(f[k - 1])]
           body == [k \in 1..L |-> [s \in T |-> Turn(s)]]
<1>5. ASSUME NEW s \in T PROVE Turn(s) \in T
  <2>1. s.buffers \in Seq(Buffers(h)) /\ s.n \in Nat
    BY <1>2 DEF LeftOf
  <2>2. s.buffers # << >> => DiscardTurn(h, s.buffers, s.n) \in T
    BY <1>2, <2>1, DiscardTurnIs, Zenon DEF TurnDiscards
  <2>3. QED
    BY <2>2
<1> HIDE DEF Turn
<1>6. body \in Bodies(T, L)
  BY <1>5 DEF Bodies
<1>7. ASSUME NEW k \in 1..L, NEW s \in T PROVE body[k][s] = Turn(s)
  OBVIOUS
<1> HIDE DEF body
<1>8. PICK f : IsRun(f, T, start, body, L)
  BY <1>6, LoopRuns, Zenon
<1>9. Loop(f)
  <2>1. ASSUME NEW k \in 0..L
        PROVE  f[k] = IF k = 0 THEN [buffers |-> bufs, n |-> n] ELSE Turn(f[k - 1])
    <3>1. CASE k = 0
      BY <1>4, <1>8, <3>1, Zenon DEF IsRun
    <3>2. CASE k # 0
      <4>1. k \in 1..L /\ k - 1 \in 0..L
        BY <3>2
      <4>2. f[k - 1] \in T /\ f[k] = body[k][f[k - 1]]
        BY <1>8, <4>1, Zenon DEF IsRun
      <4>3. QED
        BY <1>7, <3>2, <4>1, <4>2, Zenon
    <3>3. QED
      BY <3>1, <3>2
  <2>2. f \in [0..L -> T]
    BY <1>8 DEF IsRun
  <2>3. QED
    BY <2>1, <2>2, Zenon
<1>10. PICK g : g = CHOOSE e : Loop(e)
  OBVIOUS
<1>11. Loop(g)
  <2> HIDE DEF Loop
  <2>1. QED
    BY <1>9, <1>10, Zenon
<1>12. Discarded(h, bufs, n) = g[L]
  BY <1>1, <1>10, Zenon DEF Discarded, Turn
<1>13. ASSUME NEW k \in 0..L
       PROVE  g[k] = IF k = 0 THEN [buffers |-> bufs, n |-> n] ELSE Turn(g[k - 1])
  BY <1>11, Zenon
<1>14. ASSUME NEW k \in 1..L PROVE g[k] = Turn(g[k - 1]) /\ k \in 0..L
  <2>1. k \in 0..L /\ k # 0
    OBVIOUS
  <2>2. QED
    BY <1>13, <2>1, Zenon
<1> DEFINE P == {k \in 0..L : /\ g[k] \in T /\ g[k].n <= n /\ n - g[k].n <= l
                              /\ Concatenate(h, g[k].buffers) = From(c, (n - g[k].n) + 1)
                              /\ g[k].n = 0 \/ g[k].buffers = << >> \/ Len(g[k].buffers) = L - k}
<1>15. 0 \in P
  <2>1. g[0] \in T /\ g[0].n = n /\ g[0].buffers = bufs
    BY <1>4, <1>13
  <2>2. From(c, (n - n) + 1) = c /\ n <= n /\ n - n <= l /\ L - 0 = L /\ 0 \in 0..L
    BY <1>3 DEF From
  <2>3. QED
    BY <1>1, <1>3, <2>1, <2>2, Zenon
<1>16. ASSUME NEW k \in 1..L, k - 1 \in P PROVE k \in P
  <2>1. PICK s \in T : s = g[k - 1] /\ g[k] = Turn(s)
    BY <1>14, <1>16, Zenon
  <2>2. PICK w \in Seq(Buffers(h)), m \in Nat : w = s.buffers /\ m = s.n
    <3>1. s.buffers \in Seq(Buffers(h)) /\ s.n \in Nat
      BY <1>2 DEF LeftOf
    <3>2. QED
      BY <3>1, Zenon
  <2>3. /\ m <= n /\ n - m <= l
        /\ Concatenate(h, w) = From(c, (n - m) + 1)
        /\ m = 0 \/ w = << >> \/ Len(w) = L - (k - 1)
    BY <1>16, <2>1, <2>2, Zenon
  <2>4. CASE ~ (m > 0 /\ w # << >>)
    <3>1. g[k] = s
      BY <2>1, <2>2, <2>4, Zenon DEF Turn
    <3>2. m = 0 \/ w = << >>
      BY <2>4
    <3>3. QED
      BY <1>14, <2>2, <2>3, <3>1, <3>2, Zenon
  <2>5. CASE m > 0 /\ w # << >>
    <3>1. PICK r : r = g[k] /\ r = DiscardTurn(h, w, m)
      BY <2>1, <2>2, <2>5, Zenon DEF Turn
    <3>2. TurnDiscards(h, w, m, r)
      BY <2>5, <3>1, DiscardTurnIs, Zenon
    <3>3. PICK p \in Nat, q \in Nat, j \in Nat : p = r.n /\ q = Len(w) /\ j = Len(Concatenate(h, w))
      <4>1. r.n \in Nat
        BY <3>2 DEF TurnDiscards, LeftOf
      <4>2. Len(w) \in Nat
        BY LenProperties
      <4>3. Concatenate(h, w) \in Seq(Byte)
        BY ConcatenateIs, Zenon
      <4>4. Len(Concatenate(h, w)) \in Nat
        BY <4>3, LenProperties
      <4>5. QED
        BY <4>1, <4>2, <4>4, Zenon
    <3>4. /\ r \in T /\ p <= m /\ (p = 0 \/ Len(r.buffers) = q - 1) /\ m - p <= j
          /\ Concatenate(h, r.buffers) = From(From(c, (n - m) + 1), (m - p) + 1)
      BY <1>2, <2>3, <3>2, <3>3, Zenon DEF TurnDiscards
    <3>5. j = l - (n - m)
      <4>1. PICK i \in 0..Len(c) : i = n - m
        BY <1>3, <2>3
      <4>2. Len(From(c, i + 1)) = Len(c) - i
        BY Rest DEF From
      <4>3. QED
        BY <1>3, <2>3, <3>3, <4>1, <4>2
    <3>6. PICK i \in 0..Len(c), o \in 0..(Len(c) - (n - m)) :
            i = n - m /\ o = m - p /\ i + o = n - p
      <4>1. n - m \in 0..Len(c) /\ m - p \in 0..(Len(c) - (n - m)) /\ (n - m) + (m - p) = n - p
        BY <1>3, <2>3, <3>4, <3>5
      <4>2. QED
        BY <4>1, Zenon
    <3>7. Concatenate(h, r.buffers) = From(c, (n - p) + 1)
      <4>1. From(From(c, i + 1), o + 1) = From(c, (i + o) + 1)
        <5>1. o \in 0..(Len(c) - i)
          BY <3>6
        <5>2. QED
          BY <5>1, RestOfRest
      <4>2. QED
        BY <3>4, <3>6, <4>1
    <3>8. p = 0 \/ Len(r.buffers) = L - k
      <4>1. q = L - (k - 1)
        BY <2>3, <2>5, <3>3
      <4>2. q - 1 = L - k
        BY <4>1
      <4>3. QED
        BY <3>4, <4>2
    <3>9. p <= n /\ n - p <= l
      BY <2>3, <3>4, <3>5
    <3>10. QED
      BY <1>14, <3>1, <3>3, <3>4, <3>7, <3>8, <3>9, Zenon
  <2>6. QED
    BY <2>4, <2>5
<1>17. L \in P
  <2>1. 0..L \subseteq P
    <3> HIDE DEF P
    <3>1. QED
      BY <1>15, <1>16, TurnByTurn
  <2>2. QED
    BY <2>1
<1>18. PICK w \in Seq(Buffers(h)), m \in Nat : w = g[L].buffers /\ m = g[L].n
  <2>1. g[L].buffers \in Seq(Buffers(h)) /\ g[L].n \in Nat
    BY <1>2, <1>17 DEF LeftOf
  <2>2. QED
    BY <2>1, Zenon
<1>19. /\ g[L] \in T /\ m <= n /\ n - m <= l /\ Concatenate(h, w) = From(c, (n - m) + 1)
       /\ m = 0 \/ w = << >>
  <2>1. /\ g[L] \in T /\ m <= n /\ n - m <= l /\ Concatenate(h, w) = From(c, (n - m) + 1)
        /\ m = 0 \/ w = << >> \/ Len(w) = L - L
    BY <1>17, <1>18, Zenon
  <2>2. Len(w) = L - L => w = << >>
    BY EmptySeq
  <2>3. QED
    BY <2>1, <2>2
<1>20. Concatenate(h, w) = From(c, n + 1) /\ (m > 0 <=> n > l)
  <2>1. CASE m = 0
    BY <1>19, <2>1
  <2>2. CASE m # 0
    <3>1. Concatenate(h, w) = << >>
      BY <1>19, <2>2, ConcatenateIs
    <3>2. PICK i \in 0..Len(c) : i = n - m
      BY <1>3, <1>19
    <3>3. Len(From(c, i + 1)) = Len(c) - i
      BY Rest DEF From
    <3>4. n - m = l /\ n > l
      <4>1. Len(c) - i = 0
        <5>1. From(c, i + 1) = << >>
          BY <1>19, <3>1, <3>2, Zenon
        <5>2. QED
          BY <3>3, <5>1
      <4>2. QED
        BY <1>3, <1>19, <2>2, <3>2, <4>1
    <3>5. From(c, n + 1) = << >>
      <4>1. n + 1 > Len(c) /\ n + 1 \in Int /\ Len(c) \in Int
        BY <1>3, <3>4
      <4>2. QED
        BY <4>1, SubSeqEmpty DEF From
    <3>6. QED
      BY <2>2, <3>1, <3>4, <3>5
  <2>3. QED
    BY <2>1, <2>2
<1>21. QED
  BY <1>2, <1>3, <1>12, <1>18, <1>19, <1>20, Zenon

-----------------------------------------------------------------------------
(* A Buffer shows the same on a heap that keeps the string it refers to. *)
LEMMA SameString ==
    ASSUME NEW h \in Heaps, NEW k \in Heaps, NEW b \in Buffers(h),
           b.storage # None => k[b.storage] = h[b.storage]
    PROVE  b \in Buffers(k) /\ Str(k, b) = Str(h, b)
<1>1. Str(k, b) = Str(h, b)
  BY DEF Str
<1>2. QED
  BY <1>1 DEF Buffers

(* So does a list. *)
LEMMA SameStrings ==
    ASSUME NEW h \in Heaps, NEW k \in Heaps, NEW bufs \in Seq(Buffers(h)),
           \A i \in 1..Len(bufs) : bufs[i].storage # None => k[bufs[i].storage] = h[bufs[i].storage]
    PROVE  bufs \in Seq(Buffers(k)) /\ Concatenate(k, bufs) = Concatenate(h, bufs)
<1>1. PICK n \in Nat : n = Len(bufs)
  BY LenProperties
<1>2. ASSUME NEW i \in 1..n PROVE bufs[i] \in Buffers(k) /\ Str(k, bufs[i]) = Str(h, bufs[i])
  <2>1. bufs[i] \in Buffers(h)
    BY <1>1, ElementOfSeq
  <2>2. bufs[i].storage # None => k[bufs[i].storage] = h[bufs[i].storage]
    BY <1>1
  <2>3. QED
    BY <2>1, <2>2, SameString, Zenon
<1>3. bufs \in Seq(Buffers(k))
  <2>1. bufs \in [1..n -> Buffers(h)]
    BY <1>1, LenProperties
  <2>2. bufs \in [1..n -> Buffers(k)]
    BY <1>2, <2>1
  <2>3. QED
    BY <2>2
<1>4. Views(k, bufs) = Views(h, bufs)
  BY <1>1, <1>2, Zenon DEF Views
<1>5. QED
  BY <1>3, <1>4, Zenon DEF Concatenate

(* The strings that the lists and the Buffer stand for. *)
Text == [l \in List |-> Concatenate(heap, lists[l])]
Word == Str(heap, buffer)

(* Freeing what no Buffer refers to shows in no list and in no Buffer. *)
LEMMA KeepingKeeps ==
    ASSUME NEW h \in Heaps, lists' \in [List -> Seq(Buffers(h))], buffer' \in Buffers(h), Keeping(h)
    PROVE  /\ ListInv'
           /\ Text' = [l \in List |-> Concatenate(h, lists'[l])]
           /\ Word' = Str(h, buffer')
<1>1. PICK ls, b, k : ls = lists' /\ b = buffer' /\ k = heap'
  OBVIOUS
<1>2. ls \in [List -> Seq(Buffers(h))] /\ b \in Buffers(h)
  BY <1>1
<1>3. k = [i \in Storage |-> IF i \in Uses(ls, b) THEN h[i] ELSE << >>]
  BY <1>1 DEF Keeping
<1>4. k \in Heaps
  <2>1. ASSUME NEW i \in Storage PROVE (IF i \in Uses(ls, b) THEN h[i] ELSE << >>) \in Seq(Byte)
    <3>1. h[i] \in Seq(Byte) /\ << >> \in Seq(Byte)
      BY DEF Heaps
    <3>2. QED
      BY <3>1
  <2>2. QED
    BY <1>3, <2>1 DEF Heaps
<1>5. ASSUME NEW c \in Held(ls, b), c \in Buffers(h), c.storage # None
      PROVE  k[c.storage] = h[c.storage]
  <2>1. c.storage \in Storage
    BY <1>5 DEF Buffers
  <2>2. c.storage \in Uses(ls, b)
    BY <1>5 DEF Uses
  <2>3. QED
    BY <1>3, <2>1, <2>2
<1>6. b \in Buffers(k) /\ Str(k, b) = Str(h, b)
  <2>1. b \in Held(ls, b)
    BY DEF Held
  <2>2. QED
    BY <1>2, <1>4, <1>5, <2>1, SameString
<1>7. ASSUME NEW l \in List
      PROVE  ls[l] \in Seq(Buffers(k)) /\ Concatenate(k, ls[l]) = Concatenate(h, ls[l])
  <2>1. PICK bufs \in Seq(Buffers(h)) : bufs = ls[l]
    BY <1>2
  <2>2. ASSUME NEW i \in 1..Len(bufs), bufs[i].storage # None
        PROVE  k[bufs[i].storage] = h[bufs[i].storage]
    <3>1. bufs[i] \in Buffers(h) /\ i \in DOMAIN bufs
      BY ElementOfSeq
    <3>2. bufs[i] \in Held(ls, b)
      BY <2>1, <3>1 DEF Held
    <3>3. QED
      BY <1>5, <2>2, <3>1, <3>2
  <2>3. QED
    BY <1>4, <2>1, <2>2, SameStrings
<1>8. ls \in [List -> Seq(Buffers(k))]
  BY <1>2, <1>7
<1>9. [l \in List |-> Concatenate(k, ls[l])] = [l \in List |-> Concatenate(h, ls[l])]
  BY <1>7, Zenon
<1>10. QED
  BY <1>1, <1>4, <1>6, <1>8, <1>9 DEF ListInv, Text, Word

(* One list changes. *)
LEMMA OneChanges ==
    ASSUME NEW h, NEW S, NEW ls \in [List -> S], NEW l \in List, NEW bufs \in S, NEW ks,
           ks = [ls EXCEPT ![l] = bufs]
    PROVE  /\ ks \in [List -> S]
           /\ [k \in List |-> Concatenate(h, ks[k])] =
                 [[k \in List |-> Concatenate(h, ls[k])] EXCEPT ![l] = Concatenate(h, bufs)]
<1>1. ASSUME NEW k \in List
      PROVE  Concatenate(h, ks[k]) = IF k = l THEN Concatenate(h, bufs) ELSE Concatenate(h, ls[k])
  OBVIOUS
<1>2. [k \in List |-> Concatenate(h, ks[k])] =
        [k \in List |-> IF k = l THEN Concatenate(h, bufs) ELSE Concatenate(h, ls[k])]
  BY <1>1, Zenon
<1>3. QED
  BY <1>2

-----------------------------------------------------------------------------
(* A list made from a string stands for it; the string is put where no     *)
(* other one is.                                                           *)
LEMMA MakeIs ==
    ASSUME ListInv, NEW l \in List, NEW s \in Strings, Make(l, s)
    PROVE  ListInv' /\ Plain!Assign(l, s)
<1>1. s \in Seq(Byte) /\ Storage \subseteq Nat \ {0}
  BY ListAssumption
<1>2. PICK i : i = CHOOSE j \in Storage \ InUse : TRUE
  OBVIOUS
<1>3. i \in Storage /\ i \notin InUse /\ i # None
  <2>1. InUse \subseteq Storage
    <3>1. ASSUME NEW c \in Held(lists, buffer) PROVE c.storage \in Storage \cup {None}
      <4>1. CASE c = buffer
        BY <4>1 DEF ListInv, Buffers
      <4>2. CASE c # buffer
        <5>1. PICK k \in List : \E j \in DOMAIN lists[k] : c = lists[k][j]
          BY <4>2 DEF Held
        <5>2. lists[k] \in Seq(Buffers(heap))
          BY DEF ListInv
        <5>3. c \in Buffers(heap)
          BY <5>1, <5>2
        <5>4. QED
          BY <5>3 DEF Buffers
      <4>3. QED
        BY <4>1, <4>2
    <3>2. QED
      BY <3>1 DEF InUse, Uses
  <2>2. \E j \in Storage \ InUse : TRUE
    BY <2>1 DEF Make
  <2>3. i \in Storage \ InUse
    BY <1>2, <2>2, Zenon
  <2>4. QED
    BY <1>1, <2>3 DEF None
<1>4. PICK h : h = [heap EXCEPT ![i] = s]
  OBVIOUS
<1>5. heap \in Heaps /\ h \in Heaps /\ h[i] = s /\ \A j \in Storage : j # i => h[j] = heap[j]
  BY <1>1, <1>3, <1>4 DEF ListInv, Heaps
<1>6. ASSUME NEW c \in Held(lists, buffer), c \in Buffers(heap), c.storage # None
      PROVE  h[c.storage] = heap[c.storage]
  <2>1. c.storage \in Storage
    BY <1>6 DEF Buffers
  <2>2. c.storage \in InUse
    BY <1>6 DEF InUse, Uses
  <2>3. QED
    BY <1>3, <1>5, <2>1, <2>2
<1>7. buffer \in Buffers(h) /\ Str(h, buffer) = Word
  <2>1. buffer \in Held(lists, buffer) /\ buffer \in Buffers(heap)
    BY DEF Held, ListInv
  <2>2. QED
    BY <1>5, <1>6, <2>1, SameString DEF Word
<1>8. ASSUME NEW k \in List
      PROVE  lists[k] \in Seq(Buffers(h)) /\ Concatenate(h, lists[k]) = Concatenate(heap, lists[k])
  <2>1. PICK bufs \in Seq(Buffers(heap)) : bufs = lists[k]
    BY DEF ListInv
  <2>2. ASSUME NEW j \in 1..Len(bufs), bufs[j].storage # None
        PROVE  h[bufs[j].storage] = heap[bufs[j].storage]
    <3>1. bufs[j] \in Buffers(heap) /\ j \in DOMAIN bufs
      BY ElementOfSeq
    <3>2. bufs[j] \in Held(lists, buffer)
      BY <2>1, <3>1 DEF Held
    <3>3. QED
      BY <1>6, <2>2, <3>1, <3>2
  <2>3. QED
    BY <1>5, <2>1, <2>2, SameStrings
<1>9. PICK b : b = [storage |-> i, offset |-> 0]
  OBVIOUS
<1>10. b \in Buffers(h) /\ Str(h, b) = s
  <2>1. b.storage = i /\ b.offset = 0 /\ b \in [storage : Storage \cup {None}, offset : Nat]
    BY <1>3, <1>9
  <2>2. Len(s) \in Nat /\ From(s, 0 + 1) = s
    BY <1>1, LenProperties, SubSeqFull DEF From
  <2>3. Str(h, b) = s
    BY <1>3, <1>5, <2>1, <2>2 DEF Str
  <2>4. QED
    BY <1>5, <2>1, <2>2, <2>3 DEF Buffers
<1>11. lists \in [List -> Seq(Buffers(h))] /\ [k \in List |-> Concatenate(h, lists[k])] = Text
  <2>1. lists \in [List -> Seq(Buffers(h))]
    BY <1>8 DEF ListInv
  <2>2. QED
    BY <1>8, <2>1, Zenon DEF Text
<1>12. lists' = [lists EXCEPT ![l] = <<b>>] /\ Keeping(h) /\ buffer' = buffer /\ threw' = FALSE
  BY <1>2, <1>4, <1>9 DEF Make
<1>13. <<b>> \in Seq(Buffers(h)) /\ Concatenate(h, <<b>>) = s
  BY <1>5, <1>10, ConcatenateIs
<1>14. /\ lists' \in [List -> Seq(Buffers(h))]
       /\ [k \in List |-> Concatenate(h, lists'[k])] = [Text EXCEPT ![l] = s]
  BY <1>11, <1>12, <1>13, OneChanges
<1>15. ListInv' /\ Text' = [Text EXCEPT ![l] = s] /\ Word' = Word
  BY <1>5, <1>7, <1>12, <1>14, KeepingKeeps
<1>16. QED
  BY <1>12, <1>15 DEF Plain!Assign, Text, Word

(* A step that stores nothing keeps the invariant if what it puts into a   *)
(* list or the Buffer is borne by the heap.                                *)
LEMMA ListChanges ==
    ASSUME ListInv, NEW l \in List, NEW bufs \in Seq(Buffers(heap)),
           lists' = [lists EXCEPT ![l] = bufs], buffer' = buffer, Keeping(heap)
    PROVE  ListInv' /\ Text' = [Text EXCEPT ![l] = Concatenate(heap, bufs)] /\ Word' = Word
<1>1. heap \in Heaps /\ lists \in [List -> Seq(Buffers(heap))] /\ buffer \in Buffers(heap)
  BY DEF ListInv
<1>2. /\ lists' \in [List -> Seq(Buffers(heap))]
      /\ [k \in List |-> Concatenate(heap, lists'[k])] = [Text EXCEPT ![l] = Concatenate(heap, bufs)]
  BY <1>1, OneChanges DEF Text
<1>3. QED
  BY <1>1, <1>2, KeepingKeeps DEF Word

(* The same for the Buffer. *)
LEMMA BufferChanges ==
    ASSUME ListInv, NEW b \in Buffers(heap), buffer' = b, lists' = lists, Keeping(heap)
    PROVE  ListInv' /\ Text' = Text /\ Word' = Str(heap, b)
  BY KeepingKeeps DEF ListInv, Text, Word

(* Appending a list appends its string. *)
LEMMA AppendIs ==
    ASSUME ListInv, NEW l \in List, NEW k \in List, AppendList(l, k)
    PROVE  ListInv' /\ Text' = [Text EXCEPT ![l] = Text[l] \o Text[k]] /\ Word' = Word
<1>1. heap \in Heaps /\ lists \in [List -> Seq(Buffers(heap))] /\ buffer \in Buffers(heap)
  BY DEF ListInv
<1>2. PICK bufs : bufs = lists[l] \o lists[k]
  OBVIOUS
<1>3. lists[l] \in Seq(Buffers(heap)) /\ lists[k] \in Seq(Buffers(heap))
  BY <1>1
<1>4. bufs \in Seq(Buffers(heap)) /\ Concatenate(heap, bufs) = Text[l] \o Text[k]
  <2>1. bufs \in Seq(Buffers(heap))
    BY <1>2, <1>3, ConcatProperties
  <2>2. Concatenate(heap, bufs) = Concatenate(heap, lists[l]) \o Concatenate(heap, lists[k])
    BY <1>1, <1>2, <1>3, ConcatenateIs, Zenon
  <2>3. QED
    BY <2>1, <2>2 DEF Text
<1>5. lists' = [lists EXCEPT ![l] = bufs] /\ heap' = heap /\ buffer' = buffer
  BY <1>2 DEF AppendList
<1>6. /\ lists' \in [List -> Seq(Buffers(heap))]
      /\ [j \in List |-> Concatenate(heap, lists'[j])] = [Text EXCEPT ![l] = Concatenate(heap, bufs)]
  BY <1>1, <1>4, <1>5, OneChanges DEF Text
<1>7. QED
  BY <1>1, <1>4, <1>5, <1>6 DEF ListInv, Text, Word

(* Discarding bytes of a list discards them from its string. *)
LEMMA DiscardIs ==
    ASSUME ListInv, NEW l \in List, NEW n \in Nat, Discard(l, n)
    PROVE  /\ ListInv' /\ Text' = [Text EXCEPT ![l] = From(Text[l], n + 1)] /\ Word' = Word
           /\ threw' = (n > Len(Text[l]))
<1>1. heap \in Heaps /\ lists[l] \in Seq(Buffers(heap))
  BY DEF ListInv
<1>2. PICK d : d = Discarded(heap, lists[l], n)
  OBVIOUS
<1>3. /\ d \in LeftOf(heap) /\ Concatenate(heap, d.buffers) = From(Text[l], n + 1)
      /\ d.n > 0 <=> n > Len(Text[l])
  BY <1>1, <1>2, DiscardedIs DEF Text
<1>4. d.buffers \in Seq(Buffers(heap))
  BY <1>3 DEF LeftOf
<1>5. /\ lists' = [lists EXCEPT ![l] = d.buffers] /\ threw' = (d.n > 0)
      /\ buffer' = buffer /\ Keeping(heap)
  BY <1>2 DEF Discard
<1>6. ListInv' /\ Text' = [Text EXCEPT ![l] = Concatenate(heap, d.buffers)] /\ Word' = Word
  BY <1>4, <1>5, ListChanges
<1>7. QED
  BY <1>3, <1>5, <1>6

(* Taking a list as a Buffer gives its string, or throws. *)
LEMMA TakeIs ==
    ASSUME ListInv, NEW l \in List, TakeBuffer(l)
    PROVE  /\ ListInv' /\ Text' = Text
           /\ (threw' = FALSE /\ Word' = Text[l]) \/ (threw' = TRUE /\ Word' = Word)
<1>1. heap \in Heaps /\ lists[l] \in Seq(Buffers(heap)) /\ buffer \in Buffers(heap)
  BY DEF ListInv
<1>2. lists' = lists /\ Keeping(heap) /\ threw' = (Len(lists[l]) > 1)
  BY DEF TakeBuffer
<1>3. CASE lists[l] = << >> /\ buffer' = Null
  <2>1. Null \in Buffers(heap) /\ Str(heap, Null) = << >>
    BY DEF Null, Buffers, Str
  <2>2. Text[l] = << >>
    BY <1>1, <1>3, ConcatenateIs DEF Text
  <2>3. threw' = FALSE
    <3>1. (Len(lists[l]) > 1) = FALSE
      BY <1>3
    <3>2. QED
      BY <1>2, <3>1, Zenon
  <2>4. ListInv' /\ Text' = Text /\ Word' = Str(heap, Null)
    BY <1>2, <1>3, <2>1, BufferChanges, Zenon
  <2>5. QED
    BY <2>1, <2>2, <2>3, <2>4, Zenon
<1>4. CASE Len(lists[l]) = 1 /\ buffer' = lists[l][1]
  <2>1. PICK b \in Buffers(heap) : b = lists[l][1] /\ lists[l] = <<b>>
    BY <1>1, <1>4
  <2>2. Text[l] = Str(heap, b)
    BY <1>1, <2>1, ConcatenateIs DEF Text
  <2>3. threw' = FALSE
    <3>1. (Len(lists[l]) > 1) = FALSE
      BY <1>4
    <3>2. QED
      BY <1>2, <3>1, Zenon
  <2>4. ListInv' /\ Text' = Text /\ Word' = Str(heap, b)
    BY <1>2, <1>4, <2>1, BufferChanges, Zenon
  <2>5. QED
    BY <2>2, <2>3, <2>4, Zenon
<1>5. CASE Len(lists[l]) > 1 /\ buffer' = buffer
  <2>1. threw' = TRUE
    BY <1>2, <1>5
  <2>2. QED
    BY <1>1, <1>2, <1>5, <2>1, BufferChanges DEF Word
<1>6. QED
  BY <1>3, <1>4, <1>5 DEF TakeBuffer

(* Discarding bytes of the Buffer, or throwing if there are too few. *)
LEMMA ConsumeIs ==
    ASSUME ListInv, NEW n \in Nat, Consume(n)
    PROVE  /\ ListInv' /\ Text' = Text /\ threw' = (n > Len(Word))
           /\ Word' = IF n > Len(Word) THEN Word ELSE From(Word, n + 1)
<1>1. heap \in Heaps /\ buffer \in Buffers(heap) /\ Len(Str(heap, buffer)) \in Nat
  BY StrTyped DEF ListInv
<1>2. lists' = lists /\ Keeping(heap) /\ threw' = (n > Len(Word))
  BY DEF Consume, TooMuch, Word
<1>3. CASE n > Len(Word)
  <2>1. buffer' = buffer
    BY <1>3 DEF Consume, TooMuch, Word
  <2>2. QED
    BY <1>1, <1>2, <1>3, <2>1, BufferChanges DEF Word
<1>4. CASE ~ (n > Len(Word))
  <2>1. PICK b : b = TrimmedBuffer(heap, buffer, n) /\ buffer' = b
    BY <1>4 DEF Consume, TooMuch, Word
  <2>2. n \in 0..Len(Str(heap, buffer))
    BY <1>1, <1>4 DEF Word
  <2>3. b \in Buffers(heap) /\ Str(heap, b) = From(Word, n + 1)
    BY <1>1, <2>1, <2>2, TrimmedIs DEF Word
  <2>4. QED
    BY <1>2, <1>4, <2>1, <2>3, BufferChanges
<1>5. QED
  BY <1>3, <1>4

(* A list made from the Buffer stands for its string. *)
LEMMA FromIs ==
    ASSUME ListInv, NEW l \in List, FromBuffer(l)
    PROVE  ListInv' /\ Text' = [Text EXCEPT ![l] = Word] /\ Word' = Word /\ threw' = FALSE
<1>1. heap \in Heaps /\ buffer \in Buffers(heap)
  BY DEF ListInv
<1>2. <<buffer>> \in Seq(Buffers(heap)) /\ Concatenate(heap, <<buffer>>) = Word
  BY <1>1, ConcatenateIs DEF Word
<1>3. lists' = [lists EXCEPT ![l] = <<buffer>>] /\ buffer' = buffer /\ Keeping(heap) /\ threw' = FALSE
  BY DEF FromBuffer
<1>4. QED
  BY <1>2, <1>3, ListChanges

-----------------------------------------------------------------------------
(* Every step keeps the invariant, and is a step on strings of one's own.  *)
LEMMA ListStep ==
    ListInv /\ [Next]_vars => ListInv' /\ [Plain!Next]_<<Text, Word, threw>>
<1>1. SUFFICES ASSUME ListInv, [Next]_vars
               PROVE  ListInv' /\ [Plain!Next]_<<Text, Word, threw>>
  OBVIOUS
<1>2. ASSUME NEW l \in List, NEW s \in Strings, Make(l, s)
      PROVE  ListInv' /\ Plain!Next
  BY <1>1, <1>2, MakeIs DEF Plain!Next
<1>3. ASSUME NEW l \in List, NEW k \in List, AppendList(l, k)
      PROVE  ListInv' /\ Plain!Next
  <2>1. threw' = FALSE
    BY <1>3 DEF AppendList
  <2>2. ListInv' /\ Text' = [Text EXCEPT ![l] = Text[l] \o Text[k]] /\ Word' = Word
    BY <1>1, <1>3, AppendIs
  <2>3. Plain!Assign(l, Text[l] \o Text[k])
    BY <2>1, <2>2 DEF Plain!Assign, Text, Word
  <2>4. QED
    BY <2>2, <2>3 DEF Plain!Next, Text
<1>4. ASSUME NEW l \in List, TakeBuffer(l)
      PROVE  ListInv' /\ Plain!Next
  <2>1. ListInv' /\ (Plain!Take(l) \/ Plain!Refuse)
    BY <1>1, <1>4, TakeIs DEF Plain!Take, Plain!Refuse, Text, Word
  <2>2. QED
    BY <2>1 DEF Plain!Next
<1>5. ASSUME NEW l \in List, FromBuffer(l)
      PROVE  ListInv' /\ Plain!Next
  <2>1. ListInv' /\ Plain!Assign(l, Word)
    BY <1>1, <1>5, FromIs DEF Plain!Assign, Text, Word
  <2>2. QED
    BY <2>1 DEF Plain!Next, Word
<1>6. ASSUME NEW l \in List, NEW n \in 0..(ListSize(heap, lists[l]) + 1), Discard(l, n)
      PROVE  ListInv' /\ Plain!Next
  <2>1. heap \in Heaps /\ lists[l] \in Seq(Buffers(heap))
    BY <1>1 DEF ListInv
  <2>2. ListSize(heap, lists[l]) = Len(Text[l]) /\ Text[l] \in Seq(Byte)
    BY <2>1, ConcatenateIs DEF Text
  <2>3. n \in 0..(Len(Text[l]) + 1) /\ n \in Nat
    BY <2>2, LenProperties
  <2>4. ListInv' /\ Plain!Discard(l, n)
    BY <1>1, <1>6, <2>3, DiscardIs DEF Plain!Discard, Plain!Drop, From, Text, Word
  <2>5. QED
    BY <2>3, <2>4 DEF Plain!Next, Text
<1>7. ASSUME NEW n \in 0..(Len(Str(heap, buffer)) + 1), Consume(n)
      PROVE  ListInv' /\ Plain!Next
  <2>1. n \in Nat /\ n \in 0..(Len(Word) + 1)
    BY <1>1, StrTyped DEF ListInv, Word
  <2>2. ListInv' /\ Plain!Consume(n)
    BY <1>1, <1>7, <2>1, ConsumeIs DEF Plain!Consume, Plain!Drop, From, Text, Word
  <2>3. QED
    BY <2>1, <2>2 DEF Plain!Next, Word
<1>8. CASE UNCHANGED vars
  BY <1>1, <1>8 DEF vars, ListInv, Text, Word
<1>9. QED
  BY <1>1, <1>2, <1>3, <1>4, <1>5, <1>6, <1>7, <1>8 DEF Next

(* At the start all strings are empty. *)
LEMMA ListStart ==
    Init => ListInv /\ Plain!Init
<1>1. SUFFICES ASSUME Init PROVE ListInv /\ Plain!Init
  OBVIOUS
<1>2. << >> \in Seq(Byte) /\ << >> \in Seq(Buffers(heap))
  OBVIOUS
<1>3. heap \in Heaps
  BY <1>1, <1>2 DEF Init, Heaps
<1>4. Null \in Buffers(heap) /\ Str(heap, Null) = << >>
  BY DEF Null, Buffers, Str
<1>5. ListInv
  BY <1>1, <1>2, <1>3, <1>4 DEF Init, ListInv
<1>6. Text = [l \in List |-> << >>]
  BY <1>1, <1>3, ConcatenateIs DEF Init, Text
<1>7. QED
  BY <1>1, <1>4, <1>5, <1>6 DEF Init, Plain!Init, Text

(* Whatever is made, copied, appended and discarded, a string that some    *)
(* Buffer keeps alive has a byte that this Buffer still shows, or is empty.*)
THEOREM FreedWhenDiscardedCorrect ==
    Spec => []FreedWhenDiscarded
<1>1. ListInv => FreedWhenDiscarded
  <2>1. SUFFICES ASSUME ListInv, NEW b \in Held(lists, buffer) PROVE b \in Buffers(heap)
    BY DEF FreedWhenDiscarded, Buffers
  <2>2. CASE b = buffer
    BY <2>1, <2>2 DEF ListInv
  <2>3. CASE b # buffer
    <3>1. PICK l \in List : \E i \in DOMAIN lists[l] : b = lists[l][i]
      BY <2>3 DEF Held
    <3>2. lists[l] \in Seq(Buffers(heap))
      BY <2>1 DEF ListInv
    <3>3. QED
      BY <3>1, <3>2
  <2>4. QED
    BY <2>2, <2>3
<1>2. QED
  BY <1>1, ListStart, ListStep, PTL DEF Spec

(* Lists and Buffers that share strings implement strings of their own,    *)
(* for any lists, strings and storage, and any sequence of calls.          *)
THEOREM ImplementsStringsCorrect ==
    Spec => ImplementsStrings
<1>1. ListInv /\ [Next]_vars =>
        /\ ListInv'
        /\ [Plain!Next]_<<[l \in List |-> Concatenate(heap, lists[l])], Str(heap, buffer), threw>>
  BY ListStep DEF Text, Word
<1>2. QED
  BY <1>1, ListStart, PTL DEF Spec, ImplementsStrings, Plain!Spec
=============================================================================
