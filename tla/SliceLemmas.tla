---------------------------- MODULE SliceLemmas ----------------------------
(***************************************************************************)
(* Facts that several proof modules share: about cutting and joining byte  *)
(* sequences, about the list of views of BufferViewList, a byte sequence   *)
(* in pieces, about loops given by their turns, and about quotients and    *)
(* remainders.                                                             *)
(***************************************************************************)
EXTENDS BufferViewList, Integers, SequenceTheorems, WellFoundedInduction, TLAPS

(* A slice of a sequence, possibly empty, is a sequence of the expected    *)
(* length and elements (SubSeq as used for peek_output and pop_output).    *)
LEMMA Slice ==
    ASSUME NEW S, NEW s \in Seq(S),
           NEW m \in 1..(Len(s) + 1), NEW n \in (m - 1)..Len(s)
    PROVE  /\ SubSeq(s, m, n) \in Seq(S)
           /\ Len(SubSeq(s, m, n)) = n - m + 1
           /\ \A i \in 1..(n - m + 1) : SubSeq(s, m, n)[i] = s[m + i - 1]
<1>1. Len(s) \in Nat /\ m \in Int /\ n \in Int
  BY LenProperties
<1>2. \A i \in m..n : s[i] \in S
  BY <1>1, ElementOfSeq
<1>3. QED
  BY <1>1, <1>2, SubSeqProperties

(* A sequence is its first k elements followed by the rest: what read()    *)
(* returns, followed by what it leaves in the buffer.                      *)
LEMMA CutAt ==
    ASSUME NEW S, NEW s \in Seq(S), NEW k \in 0..Len(s)
    PROVE  SubSeq(s, 1, k) \o SubSeq(s, k + 1, Len(s)) = s
<1>1. Len(s) \in Nat
  BY LenProperties
<1>2. 1 \in 1..(Len(s) + 1) /\ k \in (1 - 1)..Len(s) /\ Len(s) \in k..Len(s)
  BY <1>1
<1>3. SubSeq(s, 1, k) \o SubSeq(s, k + 1, Len(s)) = SubSeq(s, 1, Len(s))
  BY ONLY <1>2, ConcatAdjacentSubSeq, s \in Seq(S), Zenon
<1>4. QED
  BY <1>3, SubSeqFull, Zenon

(* Joining sequences is associative: what was written before and what is   *)
(* written next make one stream.                                           *)
Associates(x, y, z) == (x \o y) \o z = x \o (y \o z)

(* As a predicate, so that the lemma is instantiated from the goal. *)
LEMMA Associative ==
    ASSUME NEW S, NEW x \in Seq(S), NEW y \in Seq(S), NEW z \in Seq(S)
    PROVE  Associates(x, y, z)
  BY ConcatAssociative DEF Associates

(* Appending to a sequence leaves its prefixes alone: what was peeked      *)
(* stays at the front when more is written.                                *)
LEMMA PrefixOfConcat ==
    ASSUME NEW S, NEW s \in Seq(S), NEW t \in Seq(S), NEW k \in 0..Len(s)
    PROVE  SubSeq(s \o t, 1, k) = SubSeq(s, 1, k)
<1>1. Len(s) \in Nat /\ Len(t) \in Nat
  BY LenProperties
<1>2. CASE k = 0
  BY <1>2, SubSeqEmpty
<1>3. CASE k # 0
  <2>1. 1 \in 1..Len(s) /\ k \in 1..Len(s)
    BY <1>1, <1>3
  <2>2. QED
    BY <2>1, SubSeqOfConcat1
<1>4. QED
  BY <1>2, <1>3

(* Dropping the first k elements of a slice gives the slice that starts k  *)
(* further on: the buffer after pop_output(), seen as part of the stream.  *)
LEMMA DropOfSlice ==
    ASSUME NEW S, NEW s \in Seq(S),
           NEW m \in 1..(Len(s) + 1), NEW n \in (m - 1)..Len(s),
           NEW k \in 0..(n - m + 1)
    PROVE  SubSeq(SubSeq(s, m, n), k + 1, n - m + 1) = SubSeq(s, m + k, n)
<1>1. Len(s) \in Nat /\ m \in Int /\ n \in Int /\ k \in Int
  BY LenProperties
<1> DEFINE t == SubSeq(s, m, n)
<1>2. t \in Seq(S) /\ Len(t) = n - m + 1 /\ \A i \in 1..(n - m + 1) : t[i] = s[m + i - 1]
  BY Slice
<1>3. k + 1 \in 1..(Len(t) + 1) /\ n - m + 1 \in ((k + 1) - 1)..Len(t)
  BY <1>1, <1>2
<1> HIDE DEF t
<1>4. /\ SubSeq(t, k + 1, n - m + 1) \in Seq(S)
      /\ Len(SubSeq(t, k + 1, n - m + 1)) = (n - m + 1) - (k + 1) + 1
      /\ \A i \in 1..((n - m + 1) - (k + 1) + 1) :
            SubSeq(t, k + 1, n - m + 1)[i] = t[(k + 1) + i - 1]
  BY ONLY <1>2, <1>3, Slice
<1>5. m + k \in 1..(Len(s) + 1) /\ n \in ((m + k) - 1)..Len(s)
  BY <1>1
<1>6. /\ SubSeq(s, m + k, n) \in Seq(S)
      /\ Len(SubSeq(s, m + k, n)) = n - (m + k) + 1
      /\ \A i \in 1..(n - (m + k) + 1) : SubSeq(s, m + k, n)[i] = s[(m + k) + i - 1]
  BY ONLY <1>5, Slice, s \in Seq(S)
<1>7. Len(SubSeq(t, k + 1, n - m + 1)) = Len(SubSeq(s, m + k, n))
  BY <1>1, <1>4, <1>6
<1>8. ASSUME NEW i \in 1..Len(SubSeq(t, k + 1, n - m + 1))
      PROVE  SubSeq(t, k + 1, n - m + 1)[i] = SubSeq(s, m + k, n)[i]
  <2>1. i \in 1..((n - m + 1) - (k + 1) + 1) /\ i \in 1..(n - (m + k) + 1)
    BY <1>1, <1>4
  <2>2. SubSeq(t, k + 1, n - m + 1)[i] = t[k + i]
    <3>1. (k + 1) + i - 1 = k + i
      BY <1>1
    <3>2. QED
      BY <1>4, <2>1, <3>1
  <2>3. k + i \in 1..(n - m + 1) /\ m + (k + i) - 1 = (m + k) + i - 1
    BY <1>1, <2>1
  <2>4. t[k + i] = s[m + (k + i) - 1]
    BY <1>2, <2>3
  <2>5. SubSeq(s, m + k, n)[i] = s[(m + k) + i - 1]
    BY <1>6, <2>1
  <2>6. QED
    BY <2>2, <2>3, <2>4, <2>5
<1>9. SubSeq(t, k + 1, n - m + 1) = SubSeq(s, m + k, n)
  BY ONLY <1>4, <1>6, <1>7, <1>8, SeqEqual, Zenon
<1>10. QED
  BY <1>9 DEF t

(* What is left of a sequence without its first k elements.                *)
LEMMA Rest ==
    ASSUME NEW S, NEW s \in Seq(S), NEW k \in 0..Len(s)
    PROVE  /\ SubSeq(s, k + 1, Len(s)) \in Seq(S)
           /\ Len(SubSeq(s, k + 1, Len(s))) = Len(s) - k
           /\ \A i \in 1..(Len(s) - k) : SubSeq(s, k + 1, Len(s))[i] = s[k + i]
<1>1. Len(s) \in Nat /\ k \in Nat
  BY LenProperties
<1>2. PICK m \in Int, n \in Int : m = k + 1 /\ n = Len(s)
  BY <1>1
<1> DEFINE d == SubSeq(s, m, n)
<1>3. m \in 1..(Len(s) + 1) /\ n \in (m - 1)..Len(s)
  BY <1>1, <1>2
<1>4. d \in Seq(S) /\ Len(d) = n - m + 1 /\ \A i \in 1..(n - m + 1) : d[i] = s[m + i - 1]
  BY <1>2, <1>3, Slice
<1>5. n - m + 1 = Len(s) - k /\ \A i \in Int : m + i - 1 = k + i
  BY <1>1, <1>2
<1>6. ASSUME NEW i \in 1..(Len(s) - k) PROVE d[i] = s[k + i]
  <2>1. i \in 1..(n - m + 1) /\ m + i - 1 = k + i
    BY <1>1, <1>5
  <2>2. QED
    BY <1>4, <2>1
<1>7. QED
  BY <1>2, <1>4, <1>5, <1>6

(* Dropping elements of the first of two sequences leaves the second as it *)
(* is: what remove_prefix() does to a string in two pieces.                *)
LEMMA DropOfConcat ==
    ASSUME NEW S, NEW s \in Seq(S), NEW t \in Seq(S), NEW k \in 0..Len(s)
    PROVE  SubSeq(s \o t, k + 1, Len(s \o t)) = SubSeq(s, k + 1, Len(s)) \o t
<1>1. Len(s) \in Nat /\ Len(t) \in Nat /\ k \in Nat
  BY LenProperties
<1>2. PICK u : u = s \o t
  OBVIOUS
<1>3. /\ u \in Seq(S) /\ Len(u) = Len(s) + Len(t)
      /\ \A i \in 1..(Len(s) + Len(t)) : u[i] = IF i <= Len(s) THEN s[i] ELSE t[i - Len(s)]
  BY <1>2, ConcatProperties
<1>4. PICK a : a = SubSeq(u, k + 1, Len(u))
  OBVIOUS
<1>5. a \in Seq(S) /\ Len(a) = Len(u) - k /\ \A i \in 1..(Len(u) - k) : a[i] = u[k + i]
  <2>1. k \in 0..Len(u)
    BY <1>1, <1>3
  <2>2. QED
    BY <1>3, <1>4, <2>1, Rest
<1>6. PICK d : d = SubSeq(s, k + 1, Len(s))
  OBVIOUS
<1>7. d \in Seq(S) /\ Len(d) = Len(s) - k /\ \A i \in 1..(Len(s) - k) : d[i] = s[k + i]
  BY <1>6, Rest
<1>8. PICK e : e = d \o t
  OBVIOUS
<1>9. /\ e \in Seq(S) /\ Len(e) = Len(d) + Len(t)
      /\ \A i \in 1..(Len(d) + Len(t)) : e[i] = IF i <= Len(d) THEN d[i] ELSE t[i - Len(d)]
  BY <1>7, <1>8, ConcatProperties
<1>10. Len(a) = Len(e)
  BY <1>1, <1>3, <1>5, <1>7, <1>9
<1>11. ASSUME NEW i \in 1..Len(a) PROVE a[i] = e[i]
  <2>1. a[i] = IF k + i <= Len(s) THEN s[k + i] ELSE t[k + i - Len(s)]
    BY <1>1, <1>3, <1>5
  <2>2. e[i] = IF i <= Len(s) - k THEN s[k + i] ELSE t[i - (Len(s) - k)]
    <3>1. i \in 1..(Len(d) + Len(t)) /\ (i <= Len(d) => i \in 1..(Len(s) - k))
      BY <1>1, <1>3, <1>5, <1>7
    <3>2. e[i] = IF i <= Len(d) THEN d[i] ELSE t[i - Len(d)]
      BY <1>9, <3>1
    <3>3. QED
      BY <1>7, <3>1, <3>2
  <2>3. i \in Int /\ (k + i <= Len(s) <=> i <= Len(s) - k) /\ k + i - Len(s) = i - (Len(s) - k)
    BY <1>1
  <2>4. QED
    BY <2>1, <2>2, <2>3
<1>12. a = e
  BY ONLY <1>5, <1>9, <1>10, <1>11, SeqEqual, Zenon
<1>13. QED
  BY <1>2, <1>4, <1>6, <1>8, <1>12, Zenon

(* Removing j and then k elements from the front removes j + k.            *)
LEMMA RestOfRest ==
    ASSUME NEW S, NEW s \in Seq(S), NEW j \in 0..Len(s), NEW k \in 0..(Len(s) - j)
    PROVE  From(From(s, j + 1), k + 1) = From(s, (j + k) + 1)
<1>1. PICK n \in Nat : n = Len(s)
  BY LenProperties
<1>2. PICK m \in Int : m = j + 1
  BY <1>1
<1>3. m \in 1..(n + 1) /\ n \in (m - 1)..n /\ k \in 0..(n - m + 1)
  BY <1>1, <1>2
<1>4. SubSeq(SubSeq(s, m, n), k + 1, n - m + 1) = SubSeq(s, m + k, n)
  BY <1>1, <1>3, DropOfSlice
<1>5. Len(SubSeq(s, m, n)) = n - m + 1 /\ m + k = (j + k) + 1
  BY <1>1, <1>2, <1>3, Slice
<1>6. QED
  BY <1>1, <1>2, <1>4, <1>5 DEF From

-----------------------------------------------------------------------------
(* A set of naturals that is not empty has a least member. *)
LEMMA LeastNatural ==
    ASSUME NEW T, T \subseteq Nat, T # {}
    PROVE  \E x \in T : \A y \in T : x <= y
<1> DEFINE R == OpToRel(<, Nat)
<1>1. IsWellFoundedOn(R, Nat)
  BY NatLessThanWellFounded, Zenon
<1>2. \A x, y \in Nat : y < x => <<y, x>> \in R
  BY DEF OpToRel
<1> HIDE DEF R
<1>3. PICK x \in T : \A y \in T : ~ (<<y, x>> \in R)
  BY ONLY <1>1, WFMin, T \subseteq Nat, T # {}, Zenon
<1>4. ASSUME NEW y \in T PROVE x <= y
  <2>1. x \in Nat /\ y \in Nat /\ ~ (y < x)
    BY <1>2, <1>3, Zenon
  <2>2. QED
    BY <2>1
<1>5. QED
  BY <1>4

(* Induction, for a set P of the numbers that have the property: the turns *)
(* of a loop.                                                              *)
LEMMA TurnByTurn ==
    ASSUME NEW P, NEW n \in Nat, 0 \in P, \A k \in 1..n : k - 1 \in P => k \in P
    PROVE  0..n \subseteq P
<1> DEFINE T == (0..n) \ P
<1>1. SUFFICES ASSUME T # {} PROVE FALSE
  OBVIOUS
<1>2. PICK x \in T : \A y \in T : x <= y
  <2>1. T \subseteq Nat
    OBVIOUS
  <2>2. QED
    BY <1>1, <2>1, LeastNatural, Zenon
<1>3. x \in 1..n /\ x - 1 \in 0..n /\ ~ (x <= x - 1)
  BY <1>2
<1>4. x - 1 \in P
  BY <1>2, <1>3
<1>5. QED
  BY <1>2, <1>3, <1>4

(* The bodies of a loop of n turns, each of which makes a state from the   *)
(* one before, and the states a run of it goes through.                    *)
Bodies(S, n) == [1..n -> [S -> S]]

IsRun(f, S, start, body, n) ==
    /\ f \in [0..n -> S] /\ f[0] = start
    /\ \A k \in 1..n : f[k] = body[k][f[k - 1]]

(* Such a loop has a run. *)
LEMMA LoopRuns ==
    ASSUME NEW S, NEW start \in S, NEW n \in Nat, NEW body \in Bodies(S, n)
    PROVE  \E f : IsRun(f, S, start, body, n)
<1> DEFINE P == {m \in 0..n : \E f : IsRun(f, S, start, body, m)}
<1>0. body \in [1..n -> [S -> S]]
  BY DEF Bodies
<1>1. 0 \in P
  <2>1. IsRun([i \in 0..0 |-> start], S, start, body, 0)
    BY DEF IsRun
  <2>2. \E f : IsRun(f, S, start, body, 0)
    BY <2>1, Zenon
  <2>3. QED
    BY <2>2
<1>2. ASSUME NEW m \in 1..n, m - 1 \in P PROVE m \in P
  <2>1. PICK f : IsRun(f, S, start, body, m - 1)
    BY <1>2
  <2> DEFINE g == [i \in 0..m |-> IF i = m THEN body[m][f[m - 1]] ELSE f[i]]
  <2>2. f \in [0..(m - 1) -> S] /\ f[m - 1] \in S /\ body[m] \in [S -> S]
    BY <1>0, <2>1 DEF IsRun
  <2>3. g \in [0..m -> S] /\ g[0] = start
    BY <2>1, <2>2 DEF IsRun
  <2>4. ASSUME NEW k \in 1..m PROVE g[k] = body[k][g[k - 1]]
    <3>1. CASE k = m
      BY <3>1
    <3>2. CASE k # m
      BY <2>1, <3>2 DEF IsRun
    <3>3. QED
      BY <3>1, <3>2
  <2> HIDE DEF g
  <2>5. IsRun(g, S, start, body, m)
    BY <2>3, <2>4 DEF IsRun
  <2>6. \E h : IsRun(h, S, start, body, m)
    BY <2>5, Zenon
  <2>7. QED
    BY <2>6
<1> HIDE DEF P
<1>3. 0..n \subseteq P
  BY <1>1, <1>2, TurnByTurn
<1>4. n \in P
  BY <1>3
<1>5. QED
  BY <1>4 DEF P

(* A function on the turns that does as the body does, as long as it stays *)
(* within the states, is a run.                                            *)
LEMMA LoopIs ==
    ASSUME NEW S, NEW start \in S, NEW n \in Nat, NEW body \in Bodies(S, n),
           NEW g, g = [i \in 0..n |-> g[i]], g[0] = start,
           \A k \in 1..n : g[k - 1] \in S => g[k] = body[k][g[k - 1]]
    PROVE  IsRun(g, S, start, body, n)
<1> DEFINE P == {k \in 0..n : g[k] \in S}
<1>1. 0 \in P
  OBVIOUS
<1>2. ASSUME NEW k \in 1..n, k - 1 \in P PROVE k \in P
  <2>1. g[k - 1] \in S /\ g[k] = body[k][g[k - 1]] /\ body[k] \in [S -> S]
    BY <1>2 DEF Bodies
  <2>2. QED
    BY <2>1
<1>3. 0..n \subseteq P
  <2> HIDE DEF P
  <2>1. QED
    BY <1>1, <1>2, TurnByTurn
<1>4. g \in [0..n -> S]
  BY <1>3
<1>5. ASSUME NEW k \in 1..n PROVE g[k] = body[k][g[k - 1]]
  <2>1. k - 1 \in 0..n
    OBVIOUS
  <2>2. QED
    BY <1>4, <2>1, Zenon
<1>6. QED
  BY <1>4, <1>5 DEF IsRun

(* The bytes of the first i views, as the definition of Bytes collects     *)
(* them.                                                                   *)
Collected(f, S, views) ==
    /\ f \in [0..Len(views) -> Seq(S)]
    /\ f[0] = << >> /\ f[Len(views)] = Bytes(views)
    /\ \A k \in 1..Len(views) : f[k] = f[k - 1] \o views[k]

(* There is a function that collects them. *)
LEMMA BytesLoop ==
    ASSUME NEW S, NEW views \in Seq(Seq(S))
    PROVE  \E f : Collected(f, S, views)
<1>0. PICK n \in Nat : n = Len(views)
  OBVIOUS
<1> DEFINE Loop(f) == f = [i \in 0..n |-> IF i = 0 THEN << >> ELSE f[i - 1] \o views[i]]
           body == [k \in 1..n |-> [s \in Seq(S) |-> s \o views[k]]]
<1>1. \A k \in 1..n : views[k] \in Seq(S)
  BY <1>0
<1>2. << >> \in Seq(S)
  OBVIOUS
<1>3. body \in Bodies(Seq(S), n)
  BY <1>1 DEF Bodies
<1>4. ASSUME NEW k \in 1..n, NEW s \in Seq(S) PROVE body[k][s] = s \o views[k]
  OBVIOUS
<1> HIDE DEF body
<1>5. PICK f : IsRun(f, Seq(S), << >>, body, n)
  BY <1>2, <1>3, LoopRuns, Zenon
<1>6. Loop(f)
  <2>1. ASSUME NEW i \in 0..n PROVE f[i] = IF i = 0 THEN << >> ELSE f[i - 1] \o views[i]
    <3>1. CASE i = 0
      BY <1>5, <3>1, Zenon DEF IsRun
    <3>2. CASE i # 0
      <4>1. i \in 1..n /\ i - 1 \in 0..n
        BY <3>2
      <4>2. f[i - 1] \in Seq(S) /\ f[i] = body[i][f[i - 1]]
        BY <1>5, <4>1, Zenon DEF IsRun
      <4>3. QED
        BY <1>4, <3>2, <4>1, <4>2, Zenon
    <3>3. QED
      BY <3>1, <3>2
  <2>2. f \in [0..n -> Seq(S)]
    BY <1>5 DEF IsRun
  <2>3. QED
    BY <2>1, <2>2, Zenon
<1>7. PICK g : g = CHOOSE h : Loop(h)
  OBVIOUS
<1>8. Loop(g)
  <2> HIDE DEF Loop
  <2>1. QED
    BY <1>6, <1>7, Zenon
<1>9. Bytes(views) = g[n]
  BY <1>0, <1>7 DEF Bytes
<1>10. ASSUME NEW k \in 0..n PROVE g[k] = IF k = 0 THEN << >> ELSE g[k - 1] \o views[k]
  BY <1>8, Zenon
<1>11. g[0] = << >>
  BY <1>10
<1>12. ASSUME NEW k \in 1..n PROVE g[k] = g[k - 1] \o views[k]
  <2>1. k \in 0..n /\ k # 0
    OBVIOUS
  <2>2. QED
    BY <1>10, <2>1, Zenon
<1>13. g = [i \in 0..n |-> g[i]]
  BY <1>8, Zenon
<1>14. IsRun(g, Seq(S), << >>, body, n)
  <2>1. \A k \in 1..n : g[k - 1] \in Seq(S) => g[k] = body[k][g[k - 1]]
    BY <1>4, <1>12, Zenon
  <2>2. QED
    BY <1>2, <1>3, <1>11, <1>13, <2>1, LoopIs, Zenon
<1>15. g \in [0..n -> Seq(S)]
  BY <1>14 DEF IsRun
<1>16. Collected(g, S, views)
  BY <1>0, <1>9, <1>11, <1>12, <1>15, Zenon DEF Collected
<1>17. QED
  BY <1>16, Zenon

(* The bytes of a list of views are a sequence of bytes; those of the      *)
(* empty list are none, and those of a single view are its own.            *)
LEMMA BytesOfFew ==
    ASSUME NEW S
    PROVE  /\ \A views \in Seq(Seq(S)) : Bytes(views) \in Seq(S)
           /\ Bytes(<< >>) = << >>
           /\ \A v \in Seq(S) : Bytes(<<v>>) = v
<1>1. ASSUME NEW views \in Seq(Seq(S)) PROVE Bytes(views) \in Seq(S)
  <2>1. PICK f : Collected(f, S, views)
    BY BytesLoop, Zenon
  <2>2. Len(views) \in 0..Len(views)
    OBVIOUS
  <2>3. QED
    BY <2>1, <2>2, Zenon DEF Collected
<1>2. Bytes(<< >>) = << >>
  <2>1. << >> \in Seq(Seq(S)) /\ Len(<< >>) = 0
    OBVIOUS
  <2>2. PICK f : Collected(f, S, << >>)
    BY <2>1, BytesLoop, Zenon
  <2>3. f[0] = << >> /\ f[Len(<< >>)] = Bytes(<< >>)
    BY <2>2, Zenon DEF Collected
  <2>4. QED
    BY <2>1, <2>3
<1>3. ASSUME NEW v \in Seq(S) PROVE Bytes(<<v>>) = v
  <2>1. <<v>> \in Seq(Seq(S)) /\ Len(<<v>>) = 1 /\ <<v>>[1] = v
    OBVIOUS
  <2>2. PICK w : w = <<v>>
    OBVIOUS
  <2>3. PICK f : Collected(f, S, w)
    BY <2>1, <2>2, BytesLoop, Zenon
  <2>4. 1 \in 1..Len(w) /\ 1 - 1 = 0
    BY <2>1, <2>2
  <2>5. f[1] = f[1 - 1] \o w[1] /\ f[0] = << >> /\ f[Len(w)] = Bytes(w)
    BY <2>3, <2>4, Zenon DEF Collected
  <2>6. << >> \o v = v
    BY ConcatEmptySeq, Zenon
  <2>7. QED
    BY <2>1, <2>2, <2>4, <2>5, <2>6, Zenon
<1>4. QED
  BY <1>1, <1>2, <1>3

(* The bytes of two lists, one after the other, are the bytes of the one   *)
(* followed by the bytes of the other.                                     *)
LEMMA BytesOfBoth ==
    ASSUME NEW S, NEW a \in Seq(Seq(S)), NEW b \in Seq(Seq(S))
    PROVE  Bytes(a \o b) = Bytes(a) \o Bytes(b)
<1>1. PICK m \in Nat, n \in Nat : m = Len(a) /\ n = Len(b)
  OBVIOUS
<1>2. PICK c : c = a \o b
  OBVIOUS
<1>3. /\ c \in Seq(Seq(S)) /\ Len(c) = m + n
      /\ \A k \in 1..m : c[k] = a[k]
      /\ \A k \in 1..n : c[m + k] = b[k]
  BY <1>1, <1>2, ConcatProperties
<1>4. PICK f : Collected(f, S, a)
  BY BytesLoop, Zenon
<1>5. PICK g : Collected(g, S, b)
  BY BytesLoop, Zenon
<1>6. PICK h : Collected(h, S, c)
  BY <1>3, BytesLoop, Zenon
<1>7. /\ f \in [0..m -> Seq(S)] /\ f[0] = << >> /\ f[m] = Bytes(a)
      /\ \A k \in 1..m : f[k] = f[k - 1] \o a[k]
  BY <1>1, <1>4, Zenon DEF Collected
<1>8. /\ g \in [0..n -> Seq(S)] /\ g[0] = << >> /\ g[n] = Bytes(b)
      /\ \A k \in 1..n : g[k] = g[k - 1] \o b[k]
  BY <1>1, <1>5, Zenon DEF Collected
<1>9. /\ h[0] = << >> /\ h[m + n] = Bytes(c)
      /\ \A k \in 1..(m + n) : h[k] = h[k - 1] \o c[k]
  BY <1>3, <1>6, Zenon DEF Collected
<1>10. h[m] = f[m]
  <2> DEFINE P == {k \in 0..m : h[k] = f[k]}
  <2>1. 0 \in P
    BY <1>7, <1>9
  <2>2. ASSUME NEW k \in 1..m, k - 1 \in P PROVE k \in P
    <3>1. k \in 1..(m + n) /\ k \in 0..m
      OBVIOUS
    <3>2. h[k] = f[k]
      BY <1>3, <1>7, <1>9, <2>2, <3>1, Zenon
    <3>3. QED
      BY <3>1, <3>2
  <2>3. 0..m \subseteq P
    <3> HIDE DEF P
    <3>1. QED
      BY <2>1, <2>2, TurnByTurn
  <2>4. m \in 0..m
    OBVIOUS
  <2>5. QED
    BY <2>3, <2>4
<1>11. h[m + n] = f[m] \o g[n]
  <2> DEFINE P == {k \in 0..n : h[m + k] = f[m] \o g[k]}
  <2>0. f[m] \in Seq(S)
    BY <1>7
  <2>1. 0 \in P
    <3>1. f[m] \o << >> = f[m] /\ m + 0 = m /\ 0 \in 0..n
      BY <2>0
    <3>2. h[m + 0] = f[m] \o g[0]
      BY <1>8, <1>10, <3>1
    <3>3. QED
      BY <3>1, <3>2, Zenon
  <2>2. ASSUME NEW k \in 1..n, k - 1 \in P PROVE k \in P
    <3>1. m + k \in 1..(m + n) /\ k \in 0..n /\ k - 1 \in 0..n /\ (m + k) - 1 = m + (k - 1)
      OBVIOUS
    <3>2. h[m + k] = (f[m] \o g[k - 1]) \o b[k]
      <4>1. h[m + k] = h[(m + k) - 1] \o c[m + k]
        BY <1>9, <3>1, Zenon
      <4>2. c[m + k] = b[k]
        BY <1>3, Zenon
      <4>3. h[m + (k - 1)] = f[m] \o g[k - 1]
        BY <2>2, Zenon
      <4>4. QED
        BY <3>1, <4>1, <4>2, <4>3, Zenon
    <3>3. g[k - 1] \in Seq(S) /\ b[k] \in Seq(S)
      <4>1. g[k - 1] \in Seq(S)
        BY <1>8, <3>1, Zenon
      <4>2. b[k] \in Seq(S)
        BY <1>1
      <4>3. QED
        BY <4>1, <4>2
    <3>4. (f[m] \o g[k - 1]) \o b[k] = f[m] \o (g[k - 1] \o b[k])
      <4>1. Associates(f[m], g[k - 1], b[k])
        BY <2>0, <3>3, Associative, Zenon
      <4>2. QED
        BY <4>1, Zenon DEF Associates
    <3>5. QED
      BY <1>8, <3>1, <3>2, <3>4, Zenon
  <2>3. 0..n \subseteq P
    <3> HIDE DEF P
    <3>1. QED
      BY <2>1, <2>2, TurnByTurn
  <2>4. n \in 0..n
    OBVIOUS
  <2>5. QED
    BY <2>3, <2>4
<1>12. QED
  BY <1>2, <1>7, <1>8, <1>9, <1>11, Zenon

(* size() counts the bytes. *)
LEMMA SizeIs ==
    ASSUME NEW S, NEW views \in Seq(Seq(S))
    PROVE  Size(views) = Len(Bytes(views))
<1>0. PICK n \in Nat : n = Len(views)
  OBVIOUS
<1> DEFINE Loop(f) == f = [i \in 0..n |-> IF i = 0 THEN 0 ELSE f[i - 1] + Len(views[i])]
<1>1. \A k \in 1..n : views[k] \in Seq(S)
  BY <1>0
<1>2. PICK c : Collected(c, S, views)
  BY BytesLoop, Zenon
<1>3. /\ c \in [0..n -> Seq(S)] /\ c[0] = << >> /\ c[n] = Bytes(views)
      /\ \A k \in 1..n : c[k] = c[k - 1] \o views[k]
  BY <1>0, <1>2, Zenon DEF Collected
<1> DEFINE f == [i \in 0..n |-> Len(c[i])]
<1>4. ASSUME NEW i \in 1..n PROVE Len(c[i]) = Len(c[i - 1]) + Len(views[i])
  <2>1. i - 1 \in 0..n
    OBVIOUS
  <2>2. c[i - 1] \in Seq(S) /\ views[i] \in Seq(S) /\ c[i] = c[i - 1] \o views[i]
    BY <1>1, <1>3, <2>1, Zenon
  <2>3. QED
    BY ONLY <2>2, ConcatProperties
<1>5. Loop(f)
  <2>1. ASSUME NEW i \in 0..n PROVE f[i] = IF i = 0 THEN 0 ELSE f[i - 1] + Len(views[i])
    <3>1. CASE i = 0
      BY <1>3, <3>1
    <3>2. CASE i # 0
      <4>1. i \in 1..n /\ i - 1 \in 0..n
        BY <3>2
      <4>2. f[i] = Len(c[i]) /\ f[i - 1] = Len(c[i - 1])
        BY <4>1, Zenon
      <4>3. QED
        BY <1>4, <3>2, <4>1, <4>2, Zenon
    <3>3. QED
      BY <3>1, <3>2
  <2>2. f = [i \in 0..n |-> f[i]]
    BY Zenon
  <2> HIDE DEF f
  <2>3. QED
    BY <2>1, <2>2, Zenon
<1>6. PICK g : g = CHOOSE h : Loop(h)
  OBVIOUS
<1>7. Loop(g)
  <2> HIDE DEF Loop, f
  <2>1. QED
    BY <1>5, <1>6, Zenon
<1>8. Size(views) = g[n]
  BY <1>0, <1>6 DEF Size
<1>9. ASSUME NEW k \in 0..n PROVE g[k] = IF k = 0 THEN 0 ELSE g[k - 1] + Len(views[k])
  BY <1>7, Zenon
<1> DEFINE P == {k \in 0..n : g[k] = Len(c[k])}
<1>10. 0 \in P
  BY <1>3, <1>9
<1>11. ASSUME NEW k \in 1..n, k - 1 \in P PROVE k \in P
  <2>1. k \in 0..n /\ k # 0
    OBVIOUS
  <2>2. g[k] = g[k - 1] + Len(views[k])
    BY <1>9, <2>1, Zenon
  <2>3. g[k] = Len(c[k])
    BY <1>4, <1>11, <2>2, Zenon
  <2>4. QED
    BY <2>1, <2>3, Zenon
<1>12. 0..n \subseteq P
  <2> HIDE DEF P
  <2>1. QED
    BY <1>10, <1>11, TurnByTurn
<1>13. n \in 0..n
  OBVIOUS
<1>14. QED
  BY <1>3, <1>8, <1>12, <1>13, Zenon

(* The state of the loop in remove_prefix(): the views and the count left. *)
Left(S) == [views : Seq(Seq(S)), n : Nat]

(* What a turn of it does: as many bytes leave the front as the count goes *)
(* down by, and the count comes to zero or a view goes.                    *)
TurnRemoves(S, views, n, r) ==
    /\ r \in Left(S) /\ r.n <= n
    /\ r.n = 0 \/ Len(r.views) = Len(views) - 1
    /\ n - r.n <= Len(Bytes(views))
    /\ Bytes(r.views) = From(Bytes(views), (n - r.n) + 1)
    /\ n <= Len(Bytes(views)) => r.n <= Len(Bytes(r.views))

(* A turn of the loop in BufferViewList::remove_prefix() does that. *)
LEMMA RemoveTurnIs ==
    ASSUME NEW S, NEW views \in Seq(Seq(S)), views # << >>, NEW n \in Nat
    PROVE  TurnRemoves(S, views, n, RemoveTurn(views, n))
<1>0. PICK r : r = RemoveTurn(views, n)
  OBVIOUS
<1>1. PICK v \in Seq(S), rest \in Seq(Seq(S)) : v = Head(views) /\ rest = Tail(views)
  <2>1. Head(views) \in Seq(S) /\ Tail(views) \in Seq(Seq(S))
    BY HeadTailProperties
  <2>2. QED
    BY <2>1, Zenon
<1>2. views = <<v>> \o rest /\ Len(rest) = Len(views) - 1 /\ <<v>> \in Seq(Seq(S))
  BY <1>1, HeadTailProperties
<1>3. PICK b \in Seq(S), t \in Seq(S) : b = Bytes(views) /\ t = Bytes(rest)
  BY BytesOfFew, Zenon
<1>4. b = v \o t
  <2>1. Bytes(<<v>> \o rest) = Bytes(<<v>>) \o Bytes(rest)
    BY <1>2, BytesOfBoth, Zenon
  <2>2. Bytes(<<v>>) = v
    BY BytesOfFew, Zenon
  <2>3. QED
    BY <1>2, <1>3, <2>1, <2>2, Zenon
<1>5. Len(b) = Len(v) + Len(t) /\ Len(v) \in Nat /\ Len(t) \in Nat
  BY <1>4, ConcatProperties
<1>6. CASE n < Len(v)
  <2>1. PICK w \in Seq(S) : w = SubSeq(v, n + 1, Len(v)) /\ Len(w) = Len(v) - n
    <3>1. n + 1 \in 1..(Len(v) + 1) /\ Len(v) \in ((n + 1) - 1)..Len(v)
      BY <1>5, <1>6
    <3>2. SubSeq(v, n + 1, Len(v)) \in Seq(S) /\ Len(SubSeq(v, n + 1, Len(v))) = Len(v) - (n + 1) + 1
      BY <3>1, Slice
    <3>3. Len(v) - (n + 1) + 1 = Len(v) - n
      BY <1>5
    <3>4. QED
      BY <3>2, <3>3, Zenon
  <2>2. r = [views |-> <<w>> \o rest, n |-> 0]
    BY <1>0, <1>1, <1>6, <2>1, Zenon DEF RemoveTurn, Trimmed, From
  <2>3. <<w>> \in Seq(Seq(S)) /\ <<w>> \o rest \in Seq(Seq(S))
    OBVIOUS
  <2>4. r \in Left(S) /\ r.n = 0 /\ r.views = <<w>> \o rest /\ r.views \in Seq(Seq(S))
    BY <2>2, <2>3 DEF Left
  <2>5. Bytes(r.views) = w \o t
    <3>1. Bytes(<<w>> \o rest) = Bytes(<<w>>) \o Bytes(rest)
      BY <2>3, BytesOfBoth, Zenon
    <3>2. Bytes(<<w>>) = w
      BY BytesOfFew, Zenon
    <3>3. QED
      BY <1>3, <2>4, <3>1, <3>2, Zenon
  <2>6. w \o t = SubSeq(b, n + 1, Len(b))
    <3>1. n \in 0..Len(v)
      BY <1>5, <1>6
    <3>2. QED
      BY <1>4, <1>5, <2>1, <3>1, DropOfConcat
  <2>7. (n - r.n) + 1 = n + 1 /\ r.n <= n /\ r.n <= Len(Bytes(r.views)) /\ n - r.n <= Len(b)
    <3>1. Len(Bytes(r.views)) \in Nat
      BY <2>4, BytesOfFew
    <3>2. QED
      BY <1>5, <1>6, <2>4, <3>1
  <2>8. QED
    BY <1>0, <1>3, <2>4, <2>5, <2>6, <2>7 DEF From, TurnRemoves
<1>7. CASE ~ (n < Len(v))
  <2>1. r = [views |-> rest, n |-> n - Len(v)]
    BY <1>0, <1>1, <1>7, Zenon DEF RemoveTurn
  <2>2. r \in Left(S) /\ r.n = n - Len(v) /\ r.views = rest
    BY <1>5, <1>7, <2>1 DEF Left
  <2>3. r.n <= n /\ (n - r.n) + 1 = Len(v) + 1 /\ n - r.n <= Len(b)
    BY <1>5, <2>2
  <2>4. n <= Len(b) => r.n <= Len(t)
    BY <1>5, <2>2
  <2>5. t = SubSeq(b, Len(v) + 1, Len(b))
    BY <1>4, <1>5
  <2>6. QED
    BY <1>0, <1>2, <1>3, <2>2, <2>3, <2>4, <2>5, Zenon DEF From, TurnRemoves
<1>8. QED
  BY <1>6, <1>7

(* BufferViewList::remove_prefix() removes the first n bytes, whatever the *)
(* pieces they come in, empty ones included.                               *)
LEMMA RemovePrefixIs ==
    ASSUME NEW S, NEW views \in Seq(Seq(S)), NEW n \in 0..Len(Bytes(views))
    PROVE  /\ RemovePrefix(views, n) \in Seq(Seq(S))
           /\ Bytes(RemovePrefix(views, n)) = From(Bytes(views), n + 1)
<1>1. PICK L \in Nat : L = Len(views)
  OBVIOUS
<1>2. PICK T : T = Left(S)
  OBVIOUS
<1>0. PICK b \in Seq(S) : b = Bytes(views) /\ Len(b) \in Nat /\ n \in Nat /\ n <= Len(b)
  <2>1. Bytes(views) \in Seq(S)
    BY BytesOfFew, Zenon
  <2>2. Len(Bytes(views)) \in Nat
    BY <2>1, LenProperties
  <2>3. n \in Nat /\ n <= Len(Bytes(views))
    BY <2>2
  <2>4. QED
    BY <2>1, <2>2, <2>3, Zenon
<1>3. PICK start \in T : start = [views |-> views, n |-> n]
  <2>1. [views |-> views, n |-> n] \in T
    BY <1>0, <1>2 DEF Left
  <2>2. QED
    BY <2>1, Zenon
<1> DEFINE Turn(s) == IF s.n > 0 /\ s.views # << >> THEN RemoveTurn(s.views, s.n) ELSE s
           Loop(f) == f = [k \in 0..L |-> IF k = 0 THEN [views |-> views, n |-> n]
                                           ELSE Turn(f[k - 1])]
           body == [k \in 1..L |-> [s \in T |-> Turn(s)]]
<1>4. ASSUME NEW s \in T PROVE Turn(s) \in T
  <2>1. s.views \in Seq(Seq(S)) /\ s.n \in Nat
    BY <1>2 DEF Left
  <2>2. s.views # << >> => RemoveTurn(s.views, s.n) \in T
    BY <1>2, <2>1, RemoveTurnIs, Zenon DEF TurnRemoves
  <2>3. QED
    BY <2>2
<1> HIDE DEF Turn
<1>5. body \in Bodies(T, L)
  BY <1>4 DEF Bodies
<1>6. ASSUME NEW k \in 1..L, NEW s \in T PROVE body[k][s] = Turn(s)
  OBVIOUS
<1> HIDE DEF body
<1>7. PICK f : IsRun(f, T, start, body, L)
  BY <1>5, LoopRuns, Zenon
<1>8. Loop(f)
  <2>1. ASSUME NEW k \in 0..L
        PROVE  f[k] = IF k = 0 THEN [views |-> views, n |-> n] ELSE Turn(f[k - 1])
    <3>1. CASE k = 0
      BY <1>3, <1>7, <3>1, Zenon DEF IsRun
    <3>2. CASE k # 0
      <4>1. k \in 1..L /\ k - 1 \in 0..L
        BY <3>2
      <4>2. f[k - 1] \in T /\ f[k] = body[k][f[k - 1]]
        BY <1>7, <4>1, Zenon DEF IsRun
      <4>3. QED
        BY <1>6, <3>2, <4>1, <4>2, Zenon
    <3>3. QED
      BY <3>1, <3>2
  <2>2. f \in [0..L -> T]
    BY <1>7 DEF IsRun
  <2>3. QED
    BY <2>1, <2>2, Zenon
<1>9. PICK g : g = CHOOSE h : Loop(h)
  OBVIOUS
<1>10. Loop(g)
  <2> HIDE DEF Loop
  <2>1. QED
    BY <1>8, <1>9, Zenon
<1>11. RemovePrefix(views, n) = g[L].views
  BY <1>1, <1>9, Zenon DEF RemovePrefix, Turn
<1>12. ASSUME NEW k \in 0..L
       PROVE  g[k] = IF k = 0 THEN [views |-> views, n |-> n] ELSE Turn(g[k - 1])
  BY <1>10, Zenon
<1>13. ASSUME NEW k \in 1..L PROVE g[k] = Turn(g[k - 1]) /\ k \in 0..L
  <2>1. k \in 0..L /\ k # 0
    OBVIOUS
  <2>2. QED
    BY <1>12, <2>1, Zenon
<1> DEFINE P == {k \in 0..L : /\ g[k] \in T
                              /\ g[k].n <= n /\ g[k].n <= Len(Bytes(g[k].views))
                              /\ Bytes(g[k].views) = From(Bytes(views), (n - g[k].n) + 1)
                              /\ g[k].n = 0 \/ Len(g[k].views) = L - k}
<1>14. 0 \in P
  <2>1. g[0] \in T /\ g[0].n = n /\ g[0].views = views
    BY <1>3, <1>12
  <2>2. From(b, (n - n) + 1) = b /\ n <= n /\ L - 0 = L /\ 0 \in 0..L
    BY <1>0 DEF From
  <2>3. QED
    BY <1>0, <1>1, <2>1, <2>2, Zenon
<1>15. ASSUME NEW k \in 1..L, k - 1 \in P PROVE k \in P
  <2>1. PICK s \in T : s = g[k - 1] /\ g[k] = Turn(s)
    BY <1>13, <1>15, Zenon
  <2>2. /\ s.views \in Seq(Seq(S)) /\ s.n \in Nat
        /\ s.n <= n /\ s.n <= Len(Bytes(s.views))
        /\ Bytes(s.views) = From(b, (n - s.n) + 1)
        /\ s.n = 0 \/ Len(s.views) = L - (k - 1)
    <3>1. s.views \in Seq(Seq(S)) /\ s.n \in Nat
      BY <1>2 DEF Left
    <3>2. QED
      BY <1>0, <1>15, <2>1, <3>1, Zenon
  <2>3. CASE ~ (s.n > 0 /\ s.views # << >>)
    <3>1. g[k] = s
      BY <2>1, <2>3, Zenon DEF Turn
    <3>2. s.n = 0
      <4>1. CASE s.views = << >>
        <5>1. Bytes(<< >>) = << >> /\ Len(<< >>) = 0
          BY BytesOfFew
        <5>2. QED
          BY <2>2, <4>1, <5>1
      <4>2. QED
        BY <2>2, <2>3, <4>1
    <3>3. QED
      BY <1>0, <1>13, <2>2, <3>1, <3>2, Zenon
  <2>4. CASE s.n > 0 /\ s.views # << >>
    <3>0. PICK w \in Seq(Seq(S)), m \in Nat : w = s.views /\ m = s.n
      BY <2>2, Zenon
    <3>1. PICK r : r = g[k] /\ r = RemoveTurn(w, m)
      BY <2>1, <2>4, <3>0, Zenon DEF Turn
    <3>2. /\ r \in T /\ r.n <= m
          /\ r.n = 0 \/ Len(r.views) = Len(w) - 1
          /\ r.n <= Len(Bytes(r.views))
          /\ Bytes(r.views) = From(Bytes(w), (m - r.n) + 1)
      <4>1. w # << >> /\ m <= Len(Bytes(w))
        BY <2>2, <2>4, <3>0
      <4>2. TurnRemoves(S, w, m, r)
        BY <3>1, <4>1, RemoveTurnIs, Zenon
      <4>3. QED
        BY <1>2, <4>1, <4>2, Zenon DEF TurnRemoves
    <3>3. PICK p \in Nat, q \in Nat : p = r.n /\ q = Len(w)
      <4>1. r.n \in Nat /\ Len(w) \in Nat
        BY <1>2, <3>2, LenProperties DEF Left
      <4>2. QED
        BY <4>1, Zenon
    <3>4. r.n <= n /\ (r.n = 0 \/ Len(r.views) = L - k)
      <4>1. m <= n /\ m # 0 /\ q = L - (k - 1)
        <5>1. m <= n /\ (m = 0 \/ q = L - (k - 1))
          BY <2>2, <3>0, <3>3, Zenon
        <5>2. m > 0
          BY <2>4, <3>0, Zenon
        <5>3. QED
          BY <5>1, <5>2
      <4>2. n \in Nat /\ p <= m /\ (p = 0 \/ Len(r.views) = q - 1)
        BY <1>0, <3>2, <3>3, Zenon
      <4>3. p <= n /\ q - 1 = L - k
        BY <4>1, <4>2
      <4>4. QED
        BY <3>3, <4>2, <4>3, Zenon
    <3>5. Bytes(r.views) = From(b, (n - r.n) + 1)
      <4>1. Bytes(r.views) = From(From(b, (n - m) + 1), (m - r.n) + 1)
        BY <2>2, <3>0, <3>2, Zenon
      <4>2. /\ n - m \in 0..Len(b) /\ m - r.n \in 0..(Len(b) - (n - m))
            /\ (n - m) + (m - r.n) = n - r.n
        <5>1. PICK l \in Nat : l = Len(b)
          BY <1>0
        <5>2. n \in Nat /\ n <= l /\ p <= m /\ m <= n
          BY <1>0, <2>2, <3>0, <3>2, <3>3, <5>1, Zenon
        <5>3. n - m \in 0..l /\ m - p \in 0..(l - (n - m)) /\ (n - m) + (m - p) = n - p
          BY <5>2
        <5>4. QED
          BY <3>3, <5>1, <5>3, Zenon
      <4>3. PICK i, j : i = n - m /\ j = m - r.n
        OBVIOUS
      <4>4. From(From(b, i + 1), j + 1) = From(b, (i + j) + 1)
        <5>1. i \in 0..Len(b) /\ j \in 0..(Len(b) - i)
          BY <4>2, <4>3, Zenon
        <5>2. QED
          BY <1>0, <5>1, RestOfRest, Zenon
      <4>5. QED
        BY <4>1, <4>2, <4>3, <4>4, Zenon
    <3>6. QED
      BY <1>0, <1>13, <3>1, <3>2, <3>4, <3>5, Zenon
  <2>5. QED
    BY <2>3, <2>4
<1>16. L \in P
  <2>1. 0..L \subseteq P
    <3> HIDE DEF P
    <3>1. QED
      BY <1>14, <1>15, TurnByTurn
  <2>2. QED
    BY <2>1
<1>17. g[L].views \in Seq(Seq(S)) /\ g[L].n = 0
  <2>1. /\ g[L].views \in Seq(Seq(S)) /\ g[L].n \in Nat
        /\ g[L].n <= Len(Bytes(g[L].views)) /\ (g[L].n = 0 \/ Len(g[L].views) = L - L)
    BY <1>2, <1>16 DEF Left
  <2>2. CASE Len(g[L].views) = L - L
    <3>1. g[L].views = << >>
      BY <2>1, <2>2, EmptySeq
    <3>2. Bytes(<< >>) = << >> /\ Len(<< >>) = 0
      BY BytesOfFew
    <3>3. QED
      BY <2>1, <3>1, <3>2
  <2>3. QED
    BY <2>1, <2>2
<1>18. (n - 0) + 1 = n + 1
  BY <1>0
<1>19. QED
  BY <1>11, <1>16, <1>17, <1>18, Zenon

-----------------------------------------------------------------------------
(* Multiples of a modulus are at least the modulus apart. *)
LEMMA TimesAtLeast ==
    ASSUME NEW d \in Nat, NEW k \in Int, NEW j \in Int, k >= j
    PROVE  k * d \in Int /\ j * d \in Int /\ k * d >= j * d
<1>1. k - j >= 0 /\ (k - j) * d >= 0
  OBVIOUS
<1>2. k * d = (k - j) * d + j * d
  OBVIOUS
<1>3. QED
  BY <1>1, <1>2

(* Division with remainder by a positive modulus. *)
LEMMA DivMod ==
    ASSUME NEW d \in Nat, d > 0, NEW a \in Int
    PROVE  /\ a % d \in Int /\ 0 <= a % d /\ a % d < d
           /\ a \div d \in Int /\ a = (a \div d) * d + (a % d)
  OBVIOUS

(* The remainder is the only number in 0..d-1 that is congruent. *)
LEMMA ModUnique ==
    ASSUME NEW d \in Nat, d > 0, NEW a \in Int, NEW k \in Int, NEW r \in Int,
           a = k * d + r, 0 <= r, r < d
    PROVE  a % d = r
<1>1. PICK q \in Int : a = q * d + (a % d) /\ a % d \in Int /\ 0 <= a % d /\ a % d < d
  BY DivMod
<1>2. CASE k = q
  BY <1>1, <1>2
<1>3. CASE k >= q + 1
  <2>1. k * d >= (q + 1) * d
    BY <1>3, TimesAtLeast
  <2>2. (q + 1) * d = q * d + d /\ q * d \in Int /\ k * d \in Int
    OBVIOUS
  <2>3. QED
    BY <1>1, <2>1, <2>2
<1>4. CASE q >= k + 1
  <2>1. q * d >= (k + 1) * d
    BY <1>4, TimesAtLeast
  <2>2. (k + 1) * d = k * d + d /\ k * d \in Int /\ q * d \in Int
    OBVIOUS
  <2>3. QED
    BY <1>1, <2>1, <2>2
<1>5. QED
  BY <1>2, <1>3, <1>4

(* Adding a multiple of the modulus does not change the remainder. *)
LEMMA ModShift ==
    ASSUME NEW d \in Nat, d > 0, NEW a \in Int, NEW b \in Int, NEW k \in Int, a = b + k * d
    PROVE  a % d = b % d
<1>1. PICK q \in Int : b = q * d + (b % d) /\ b % d \in Int /\ 0 <= b % d /\ b % d < d
  BY DivMod
<1>2. a = (q + k) * d + (b % d) /\ q + k \in Int
  <2>1. (q + k) * d = q * d + k * d /\ q * d \in Int /\ k * d \in Int
    OBVIOUS
  <2>2. QED
    BY <1>1, <2>1
<1>3. QED
  BY <1>1, <1>2, ModUnique

(* Numbers with the same remainder differ by a multiple of the modulus. *)
LEMMA ModSame ==
    ASSUME NEW d \in Nat, d > 0, NEW a \in Int, NEW b \in Int, a % d = b % d
    PROVE  \E k \in Int : a = b + k * d
<1>1. PICK q \in Int : a = q * d + (a % d) /\ a % d \in Int
  BY DivMod
<1>2. PICK p \in Int : b = p * d + (b % d)
  BY DivMod
<1>3. a = b + (q - p) * d
  <2>1. (q - p) * d = q * d - p * d /\ q * d \in Int /\ p * d \in Int
    OBVIOUS
  <2>2. QED
    BY <1>1, <1>2, <2>1
<1>4. QED
  BY <1>3
=============================================================================
