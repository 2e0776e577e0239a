---------------------------- MODULE StreamProofs ----------------------------
(***************************************************************************)
(* ByteStream, and the reassembler that writes into one.                   *)
(*                                                                         *)
(* First the FIFO order and the accounting of ByteStream, for every        *)
(* capacity, byte set and sequence of calls by a writer and a reader       *)
(* (ByteStreamPipe).                                                       *)
(*                                                                         *)
(* Then the reassembler, for every stream, capacity and order of pushes    *)
(* and reads.  The argument: the map holds stream bytes strictly between   *)
(* the next byte to write and the end of the window (OnlyGapsWait).  So a  *)
(* push writes a slice of the stream that starts where the output stops    *)
(* (AssembleEffect) and that fits into what the output has left: write()   *)
(* never truncates.                                                        *)
(***************************************************************************)
EXTENDS ByteStreamPipe, StreamReassembler, SliceLemmas, FiniteSetTheorems

(* What write() accepts is a prefix of its argument that fits. *)
LEMMA WriteLenBounds ==
    ASSUME StreamTypeOK, Len(buffer) <= Capacity, NEW data \in Seq(Byte)
    PROVE  /\ WriteLen(data) \in 0..Len(data)
           /\ Len(buffer) + WriteLen(data) <= Capacity
           /\ input_ended => WriteLen(data) = 0
           /\ SubSeq(data, 1, WriteLen(data)) \in Seq(Byte)
           /\ Len(SubSeq(data, 1, WriteLen(data))) = WriteLen(data)
<1>1. Len(buffer) \in Nat /\ Len(data) \in Nat /\ Capacity \in Nat
  BY LenProperties, CapacityAssumption DEF StreamTypeOK
<1>2. /\ WriteLen(data) \in 0..Len(data)
      /\ Len(buffer) + WriteLen(data) <= Capacity
      /\ input_ended => WriteLen(data) = 0
  BY <1>1 DEF WriteLen, RemainingCapacity, Lesser
<1>3. 1 \in 1..(Len(data) + 1) /\ WriteLen(data) \in (1 - 1)..Len(data)
  BY <1>1, <1>2
<1>4. /\ SubSeq(data, 1, WriteLen(data)) \in Seq(Byte)
      /\ Len(SubSeq(data, 1, WriteLen(data))) = WriteLen(data) - 1 + 1
  BY ONLY <1>3, Slice, data \in Seq(Byte)
<1>5. QED
  BY <1>1, <1>2, <1>4

(* What peek_output() returns is a prefix of the buffer. *)
LEMMA PeekIsPrefix ==
    ASSUME StreamTypeOK, NEW len \in Nat
    PROVE  LET k == Lesser(len, Len(buffer))
           IN  /\ k \in 0..Len(buffer)
               /\ PeekOutput(len) = SubSeq(buffer, 1, k)
               /\ PeekOutput(len) \in Seq(Byte)
               /\ Len(PeekOutput(len)) = k
<1> DEFINE k == Lesser(len, Len(buffer))
<1>1. Len(buffer) \in Nat
  BY LenProperties DEF StreamTypeOK
<1>2. k \in 0..Len(buffer)
  BY <1>1 DEF Lesser
<1>3. PeekOutput(len) = SubSeq(buffer, 1, k)
  BY DEF PeekOutput
<1> HIDE DEF k
<1>4. 1 \in 1..(Len(buffer) + 1) /\ k \in (1 - 1)..Len(buffer)
  BY <1>1, <1>2
<1>5. SubSeq(buffer, 1, k) \in Seq(Byte) /\ Len(SubSeq(buffer, 1, k)) = k - 1 + 1
  <2>1. buffer \in Seq(Byte)
    BY DEF StreamTypeOK
  <2>2. QED
    BY ONLY <1>4, <2>1, Slice
<1>6. QED
  BY <1>1, <1>2, <1>3, <1>5 DEF k

(* pop_output() of no more than the buffer holds removes exactly that many *)
(* bytes from its front.                                                   *)
LEMMA PopRemovesFront ==
    ASSUME StreamTypeOK, NEW k \in 0..Len(buffer), PopOutput(k)
    PROVE  /\ buffer' \in Seq(Byte)
           /\ Len(buffer') = Len(buffer) - k
           /\ SubSeq(buffer, 1, k) \o buffer' = buffer
           /\ bytes_read' = bytes_read + k
           /\ UNCHANGED <<bytes_written, input_ended, error>>
<1>1. Len(buffer) \in Nat /\ buffer \in Seq(Byte)
  BY LenProperties DEF StreamTypeOK
<1>2. Lesser(k, Len(buffer)) = k
  BY <1>1 DEF Lesser
<1>3. /\ buffer' = SubSeq(buffer, k + 1, Len(buffer))
      /\ bytes_read' = bytes_read + k
      /\ UNCHANGED <<bytes_written, input_ended, error>>
  BY <1>2 DEF PopOutput
<1>4. k + 1 \in 1..(Len(buffer) + 1) /\ Len(buffer) \in ((k + 1) - 1)..Len(buffer)
  BY <1>1
<1>5. /\ SubSeq(buffer, k + 1, Len(buffer)) \in Seq(Byte)
      /\ Len(SubSeq(buffer, k + 1, Len(buffer))) = Len(buffer) - (k + 1) + 1
  BY ONLY <1>1, <1>4, Slice
<1>6. SubSeq(buffer, 1, k) \o SubSeq(buffer, k + 1, Len(buffer)) = buffer
  BY <1>1, CutAt, Zenon
<1>7. buffer' \in Seq(Byte) /\ Len(buffer') = Len(buffer) - k
  BY <1>1, <1>3, <1>5
<1>8. SubSeq(buffer, 1, k) \o buffer' = buffer
  BY <1>3, <1>6, Zenon
<1>9. QED
  BY <1>3, <1>7, <1>8, Zenon

-----------------------------------------------------------------------------
(* The four invariants of the pipe are inductive together. *)
PipeInv == PipeTypeOK /\ Fifo /\ Accounting /\ PeekStable

(* The constructor's state satisfies them. *)
LEMMA PipeInitInv == PipeInit => PipeInv
<1> SUFFICES ASSUME PipeInit PROVE PipeInv
  OBVIOUS
<1>1. << >> \in Seq(Byte) /\ Len(<< >>) = 0
  BY EmptySeq
<1>2. PipeTypeOK
  BY <1>1, Zenon DEF PipeInit, StreamInit, PipeTypeOK, StreamTypeOK
<1>3. Fifo
  BY <1>1, ConcatEmptySeq DEF PipeInit, StreamInit, Fifo
<1>4. Accounting
  BY <1>1, CapacityAssumption DEF PipeInit, StreamInit, Accounting
<1>5. PeekStable
  <2>1. SubSeq(<< >>, 1, 0) = << >>
    BY SubSeqEmpty
  <2>2. QED
    BY <1>1, <2>1 DEF PipeInit, StreamInit, PeekStable
<1>6. QED
  BY <1>2, <1>3, <1>4, <1>5 DEF PipeInv

(* Every call of the writer and of the reader preserves them. *)
LEMMA PipeNextInv == PipeInv /\ [PipeNext]_pipeVars => PipeInv'
<1> SUFFICES ASSUME PipeInv, [PipeNext]_pipeVars PROVE PipeInv'
  OBVIOUS
<1> USE DEF PipeInv
<1>1. /\ buffer \in Seq(Byte) /\ accepted \in Seq(Byte)
      /\ taken \in Seq(Byte) /\ peeked \in Seq(Byte)
      /\ bytes_written \in Nat /\ bytes_read \in Nat
      /\ input_ended \in BOOLEAN /\ error \in BOOLEAN
  BY DEF PipeTypeOK, StreamTypeOK
<1>2. /\ Len(buffer) \in Nat /\ Len(accepted) \in Nat
      /\ Len(taken) \in Nat /\ Len(peeked) \in Nat
  BY <1>1, LenProperties
<1>3. StreamTypeOK /\ Len(buffer) <= Capacity
  BY DEF PipeTypeOK, Accounting
<1>4. CASE WriterWrites
  <2>1. PICK data \in Strings : /\ Write(data)
                               /\ accepted' = accepted \o SubSeq(data, 1, WriteLen(data))
    BY <1>4, Zenon DEF WriterWrites
  <2>2. data \in Seq(Byte)
    BY PipeAssumption, SeqDef DEF Strings
  <2> DEFINE d == SubSeq(data, 1, WriteLen(data))
  <2>3. /\ WriteLen(data) \in Nat
        /\ Len(buffer) + WriteLen(data) <= Capacity
        /\ d \in Seq(Byte) /\ Len(d) = WriteLen(data)
    BY <1>3, <2>2, WriteLenBounds, LenProperties
  <2>4. /\ buffer' = buffer \o d /\ accepted' = accepted \o d
        /\ bytes_written' = bytes_written + Len(d)
        /\ UNCHANGED <<bytes_read, input_ended, error, taken, peeked>>
    BY <1>4, <2>1, <2>3, Zenon DEF Write, AcceptData, WriterWrites
  <2> HIDE DEF d
  <2>5. /\ buffer' \in Seq(Byte) /\ Len(buffer') = Len(buffer) + Len(d)
        /\ accepted' \in Seq(Byte) /\ Len(accepted') = Len(accepted) + Len(d)
    BY <1>1, <2>3, <2>4, ConcatProperties, Zenon
  <2>6. PipeTypeOK'
    BY <1>1, <2>3, <2>4, <2>5 DEF PipeTypeOK, StreamTypeOK
  <2>7. Fifo'
    <3>1. (taken \o buffer) \o d = taken \o (buffer \o d)
      <4>1. taken \in Seq(Byte) /\ buffer \in Seq(Byte) /\ d \in Seq(Byte)
        BY <1>1, <2>3
      <4>2. QED
        BY ONLY <4>1, ConcatAssociative
    <3>2. QED
      BY <2>4, <3>1 DEF Fifo
  <2>8. Accounting'
    <3>1. /\ bytes_written = Len(accepted) /\ bytes_read = Len(taken)
          /\ Len(buffer) = bytes_written - bytes_read
      BY DEF Accounting
    <3>2. bytes_written' = Len(accepted') /\ bytes_read' = Len(taken')
      BY <2>4, <2>5, <3>1
    <3>3. Len(buffer') = bytes_written' - bytes_read' /\ Len(buffer') <= Capacity
      <4>1. /\ bytes_written' = bytes_written + Len(d) /\ bytes_read' = bytes_read
            /\ Len(d) \in Nat /\ Len(buffer) + Len(d) <= Capacity
        BY <2>3, <2>4
      <4>2. bytes_written \in Nat /\ bytes_read \in Nat
        BY <1>1
      <4>3. Len(buffer') = Len(buffer) + Len(d)
        BY <2>5
      <4>4. QED
        BY ONLY <1>2, <3>1, <4>1, <4>2, <4>3
    <3>4. QED
      BY <3>2, <3>3 DEF Accounting
  <2>9. PeekStable'
    <3>1. Len(peeked) \in 0..Len(buffer)
      BY <1>2 DEF PeekStable
    <3>2. SubSeq(buffer \o d, 1, Len(peeked)) = SubSeq(buffer, 1, Len(peeked))
      BY ONLY <1>1, <2>3, <3>1, PrefixOfConcat
    <3>3. Len(peeked) <= Len(buffer')
      BY <1>2, <2>3, <2>5, <3>1
    <3>4. QED
      BY <2>4, <3>2, <3>3 DEF PeekStable
  <2>10. QED
    BY <2>6, <2>7, <2>8, <2>9
<1>5. CASE WriterEnds
  BY <1>1, <1>5 DEF WriterEnds, EndInput, PipeTypeOK, StreamTypeOK, Fifo, Accounting, PeekStable
<1>6. CASE WriterFails
  BY <1>1, <1>6 DEF WriterFails, SetError, PipeTypeOK, StreamTypeOK, Fifo, Accounting, PeekStable
(* read() and peek-then-pop remove the same way: a prefix of k bytes. *)
<1>7. ASSUME NEW k \in 0..Len(buffer), PopOutput(k),
             taken' = taken \o SubSeq(buffer, 1, k), peeked' = << >>,
             UNCHANGED accepted
      PROVE  PipeInv'
  <2>1. /\ buffer' \in Seq(Byte) /\ Len(buffer') = Len(buffer) - k
        /\ SubSeq(buffer, 1, k) \o buffer' = buffer
        /\ bytes_read' = bytes_read + k
        /\ UNCHANGED <<bytes_written, input_ended, error>>
    BY <1>3, <1>7, PopRemovesFront
  <2> DEFINE d == SubSeq(buffer, 1, k)
  <2>2. d \in Seq(Byte) /\ Len(d) = k
    <3>1. 1 \in 1..(Len(buffer) + 1) /\ k \in (1 - 1)..Len(buffer)
      BY <1>2
    <3>2. d \in Seq(Byte) /\ Len(d) = k - 1 + 1
      BY ONLY <1>1, <3>1, Slice
    <3>3. QED
      BY <3>2
  <2>3. taken' = taken \o d /\ d \o buffer' = buffer
    BY <1>7, <2>1
  <2> HIDE DEF d
  <2>4. taken' \in Seq(Byte) /\ Len(taken') = Len(taken) + k
    BY <1>1, <2>2, <2>3, ConcatProperties, Zenon
  <2>5. peeked' \in Seq(Byte) /\ Len(peeked') = 0
    BY <1>7, EmptySeq
  <2>6. PipeTypeOK'
    BY <1>1, <1>2, <1>7, <2>1, <2>4, <2>5 DEF PipeTypeOK, StreamTypeOK
  <2>7. Fifo'
    <3>1. (taken \o d) \o buffer' = taken \o (d \o buffer')
      <4>1. taken \in Seq(Byte) /\ d \in Seq(Byte) /\ buffer' \in Seq(Byte)
        BY <1>1, <2>1, <2>2
      <4>2. QED
        BY ONLY <4>1, ConcatAssociative
    <3>2. QED
      BY <1>7, <2>3, <3>1, Zenon DEF Fifo
  <2>8. Accounting'
    BY <1>1, <1>2, <1>7, <2>1, <2>4, CapacityAssumption DEF Accounting
  <2>9. PeekStable'
    <3>1. SubSeq(buffer', 1, 0) = << >>
      BY SubSeqEmpty
    <3>2. 0 <= Len(buffer')
      BY <2>1, LenProperties
    <3>3. QED
      BY <1>7, <2>5, <3>1, <3>2 DEF PeekStable
  <2>10. QED
    BY <2>6, <2>7, <2>8, <2>9
<1>8. CASE PipeReads
  <2>1. PICK len \in 0..MaxRead : Read(len) /\ taken' = taken \o PeekOutput(len)
    BY <1>8 DEF PipeReads
  <2> DEFINE k == Lesser(len, Len(buffer))
  <2>2. /\ k \in 0..Len(buffer) /\ Len(PeekOutput(len)) = k
        /\ PeekOutput(len) = SubSeq(buffer, 1, k)
    <3>1. len \in Nat
      BY PipeAssumption
    <3>2. QED
      BY ONLY <1>3, <3>1, PeekIsPrefix
  <2>3. PopOutput(k)
    BY <2>1, <2>2 DEF Read
  <2>4. QED
    BY <1>7, <1>8, <2>1, <2>2, <2>3, Zenon DEF PipeReads
<1>9. CASE PipePeeks
  <2>1. PICK len \in 0..MaxRead : peeked' = PeekOutput(len)
    BY <1>9 DEF PipePeeks
  <2> DEFINE k == Lesser(len, Len(buffer))
  <2>2. /\ k \in 0..Len(buffer) /\ Len(PeekOutput(len)) = k
        /\ PeekOutput(len) = SubSeq(buffer, 1, k) /\ PeekOutput(len) \in Seq(Byte)
    <3>1. len \in Nat
      BY PipeAssumption
    <3>2. QED
      BY ONLY <1>3, <3>1, PeekIsPrefix
  <2>3. UNCHANGED <<buffer, bytes_written, bytes_read, input_ended, error, accepted, taken>>
    BY <1>9 DEF PipePeeks, streamVars
  <2> HIDE DEF k
  <2>4. PipeTypeOK' /\ Fifo' /\ Accounting'
    BY <2>1, <2>2, <2>3 DEF PipeTypeOK, StreamTypeOK, Fifo, Accounting
  <2>5. PeekStable'
    BY <1>2, <2>1, <2>2, <2>3 DEF PeekStable
  <2>6. QED
    BY <2>4, <2>5
<1>10. CASE PipePops
  <2>1. Len(peeked) \in 0..Len(buffer) /\ peeked = SubSeq(buffer, 1, Len(peeked))
    BY <1>2 DEF PeekStable
  <2>2. QED
    BY <1>7, <1>10, <2>1, Zenon DEF PipePops
<1>11. CASE UNCHANGED pipeVars
  BY <1>11 DEF pipeVars, PipeTypeOK, StreamTypeOK, Fifo, Accounting, PeekStable
<1>12. QED
  BY <1>4, <1>5, <1>6, <1>8, <1>9, <1>10, <1>11 DEF PipeNext

-----------------------------------------------------------------------------
(* Type correctness of ByteStream in the hands of a writer and a reader. *)
THEOREM PipeTypeCorrect == PipeSpec => []PipeTypeOK
<1>1. PipeInv => PipeTypeOK
  BY DEF PipeInv
<1>2. QED
  BY <1>1, PipeInitInv, PipeNextInv, PTL DEF PipeSpec

(* ByteStream is a FIFO queue: for any capacity and any interleaving of    *)
(* write(), end_input(), set_error(), peek_output(), pop_output() and      *)
(* read(), the reader gets the accepted bytes in order, each once.         *)
THEOREM FifoCorrect == PipeSpec => []Fifo
<1>1. PipeInv => Fifo
  BY DEF PipeInv
<1>2. QED
  BY <1>1, PipeInitInv, PipeNextInv, PTL DEF PipeSpec

(* The counters agree with the bytes and the buffer keeps to the capacity. *)
THEOREM AccountingCorrect == PipeSpec => []Accounting
<1>1. PipeInv => Accounting
  BY DEF PipeInv
<1>2. QED
  BY <1>1, PipeInitInv, PipeNextInv, PTL DEF PipeSpec

(* A write() between peek_output() and pop_output() does not disturb what  *)
(* was peeked.                                                             *)
THEOREM PeekStableCorrect == PipeSpec => []PeekStable
<1>1. PipeInv => PeekStable
  BY DEF PipeInv
<1>2. QED
  BY <1>1, PipeInitInv, PipeNextInv, PTL DEF PipeSpec

(* Once end_input() was called, no step of the writer or the reader adds a *)
(* byte, reopens the input or takes back eof().                            *)
LEMMA EndStep == PipeInv /\ [PipeNext]_pipeVars => [EndKept]_pipeVars
<1> SUFFICES ASSUME PipeInv, PipeNext, input_ended
             PROVE  /\ input_ended'
                    /\ accepted' = accepted
                    /\ buffer = << >> => buffer' = << >>
  BY DEF EndKept, Eof, BufferEmpty
<1>1. StreamTypeOK /\ Len(buffer) <= Capacity /\ accepted \in Seq(Byte) /\ buffer \in Seq(Byte)
  BY DEF PipeInv, PipeTypeOK, StreamTypeOK, Accounting
<1>2. CASE WriterWrites
  <2>1. PICK data \in Strings : /\ Write(data)
                               /\ accepted' = accepted \o SubSeq(data, 1, WriteLen(data))
    BY <1>2, Zenon DEF WriterWrites
  <2>2. data \in Seq(Byte)
    BY PipeAssumption, SeqDef DEF Strings
  <2>3. WriteLen(data) = 0
    BY <1>1, <2>2, WriteLenBounds
  <2>4. SubSeq(data, 1, 0) = << >>
    BY SubSeqEmpty
  <2>5. accepted \o << >> = accepted /\ buffer \o << >> = buffer
    BY <1>1, ConcatEmptySeq
  <2>6. accepted' = accepted /\ buffer' = buffer
    BY <2>1, <2>3, <2>4, <2>5, Zenon DEF Write, AcceptData
  <2>7. QED
    BY <2>1, <2>6, Zenon DEF Write
<1>3. CASE WriterEnds
  BY <1>3 DEF WriterEnds, EndInput
<1>4. CASE WriterFails
  BY <1>4 DEF WriterFails, SetError
(* Popping from an empty buffer leaves it empty. *)
<1>5. ASSUME NEW len \in Nat, PopOutput(len), UNCHANGED accepted
      PROVE  input_ended' /\ accepted' = accepted /\ (buffer = << >> => buffer' = << >>)
  <2>1. input_ended' /\ accepted' = accepted
    BY <1>5 DEF PopOutput
  <2>2. ASSUME buffer = << >> PROVE buffer' = << >>
    <3>1. Len(buffer) = 0
      BY <2>2, EmptySeq
    <3>2. Lesser(len, Len(buffer)) = 0
      BY <3>1 DEF Lesser
    <3>3. buffer' = SubSeq(buffer, 0 + 1, 0)
      BY <1>5, <3>1, <3>2 DEF PopOutput
    <3>4. SubSeq(buffer, 0 + 1, 0) = << >>
      BY SubSeqEmpty
    <3>5. QED
      BY <3>3, <3>4
  <2>3. QED
    BY <2>1, <2>2
<1>6. CASE PipeReads
  <2>1. PICK len \in 0..MaxRead : Read(len)
    BY <1>6 DEF PipeReads
  <2>2. len \in Nat
    BY PipeAssumption
  <2>3. Len(PeekOutput(len)) \in Nat
    BY <1>1, <2>2, PeekIsPrefix, LenProperties
  <2>4. QED
    BY <1>5, <1>6, <2>1, <2>3 DEF Read, PipeReads
<1>7. CASE PipePeeks
  BY <1>7 DEF PipePeeks, streamVars
<1>8. CASE PipePops
  <2>1. Len(peeked) \in Nat
    BY LenProperties DEF PipeInv, PipeTypeOK
  <2>2. QED
    BY <1>5, <1>8, <2>1 DEF PipePops
<1>9. QED
  BY <1>2, <1>3, <1>4, <1>6, <1>7, <1>8 DEF PipeNext

(* After end_input() the bytes of the stream are final and eof() is stable.*)
THEOREM EndIsFinalCorrect == PipeSpec => EndIsFinal
  BY PipeInitInv, PipeNextInv, EndStep, PTL DEF PipeSpec, EndIsFinal


-----------------------------------------------------------------------------
(* Where the assembling loop of push_substring() stops: behind the longest *)
(* run of stored indices that starts at `from`.                            *)
LEMMA FirstGapStops ==
    ASSUME NEW L \in Nat, NEW D, D \subseteq 0..(L - 1), NEW from \in 0..L
    PROVE  /\ FirstGap(D, from) \in from..L
           /\ FirstGap(D, from) \notin D
           /\ from..(FirstGap(D, from) - 1) \subseteq D
<1> DEFINE T == {k \in Nat : from <= k /\ k \notin D}
<1> DEFINE Stops(k) == from <= k /\ k \notin D /\ from..(k - 1) \subseteq D
<1>1. T \subseteq Nat /\ L \in T
  OBVIOUS
<1>2. PICK g \in T : \A y \in T : g <= y
  BY <1>1, LeastNatural, Zenon
<1>3. Stops(g)
  <2>1. ASSUME NEW i \in from..(g - 1) PROVE i \in D
    <3>1. i \in Nat /\ from <= i /\ ~(g <= i)
      OBVIOUS
    <3>2. i \notin T
      BY <1>2, <3>1
    <3>3. QED
      BY <3>1, <3>2
  <2>2. QED
    BY <2>1
<1>4. g \in {from} \cup {i + 1 : i \in D}
  <2>1. CASE g = from
    BY <2>1
  <2>2. CASE g # from
    <3>1. g - 1 \in from..(g - 1) /\ (g - 1) + 1 = g
      BY <2>2
    <3>2. g - 1 \in D
      BY <1>3, <3>1
    <3>3. QED
      BY <3>1, <3>2
  <2>3. QED
    BY <2>1, <2>2
<1> DEFINE G == {from} \cup {i + 1 : i \in D}
<1>5. FirstGap(D, from) = CHOOSE k \in G : Stops(k)
  BY DEF FirstGap
<1>6. FirstGap(D, from) \in G /\ Stops(FirstGap(D, from))
  <2> HIDE DEF G, Stops
  <2>1. g \in G
    BY <1>4 DEF G
  <2>2. QED
    BY <1>3, <1>5, <2>1
<1>7. FirstGap(D, from) \in from..L
  <2>1. ASSUME NEW k \in G, from <= k PROVE k \in from..L
    BY <2>1
  <2>2. QED
    BY <1>6, <2>1
<1>8. QED
  BY <1>6, <1>7

-----------------------------------------------------------------------------
(* The inductive invariant: the four invariants, that a recorded end of    *)
(* the stream is its real end, and that the output stays in the window.    *)
EofRecorded == eof_flag => eof_index = Len(Stream)

WithinWindow == bytes_written <= MaxPos

IInv == TypeOK /\ OutputIsStream /\ OnlyGapsWait /\ EndExact /\ EofRecorded /\ WithinWindow

(* The facts about numbers and lengths that every step uses. *)
LEMMA Basics ==
    ASSUME IInv
    PROVE  /\ Stream \in Seq(Byte) /\ Len(Stream) \in Nat /\ Capacity \in Nat
           /\ bytes_read \in Nat /\ bytes_written \in Nat
           /\ bytes_read <= bytes_written /\ bytes_written <= Len(Stream)
           /\ bytes_written <= bytes_read + Capacity
           /\ buffer \in Seq(Byte) /\ Len(buffer) = bytes_written - bytes_read
           /\ buffer = SubSeq(Stream, bytes_read + 1, bytes_written)
           /\ input_ended \in BOOLEAN /\ error \in BOOLEAN /\ eof_flag \in BOOLEAN
<1>1. /\ Stream \in Seq(Byte) /\ Len(Stream) \in Nat /\ Capacity \in Nat
      /\ bytes_read \in Nat /\ bytes_written \in Nat
      /\ bytes_read <= bytes_written /\ bytes_written <= Len(Stream)
      /\ bytes_written <= bytes_read + Capacity
      /\ buffer = SubSeq(Stream, bytes_read + 1, bytes_written)
      /\ input_ended \in BOOLEAN /\ error \in BOOLEAN /\ eof_flag \in BOOLEAN
  BY StreamAssumption, CapacityAssumption, LenProperties
  DEF IInv, TypeOK, StreamTypeOK, OutputIsStream, WithinWindow, MaxPos
<1>2. /\ bytes_read + 1 \in 1..(Len(Stream) + 1)
      /\ bytes_written \in ((bytes_read + 1) - 1)..Len(Stream)
  BY <1>1
<1>3. /\ SubSeq(Stream, bytes_read + 1, bytes_written) \in Seq(Byte)
      /\ Len(SubSeq(Stream, bytes_read + 1, bytes_written)) = bytes_written - (bytes_read + 1) + 1
  BY ONLY <1>2, Slice, StreamAssumption
<1>4. buffer \in Seq(Byte) /\ Len(buffer) = bytes_written - bytes_read
  BY <1>1, <1>3
<1>5. QED
  BY <1>1, <1>4

(* After the copying loop the map still holds stream bytes under their own *)
(* index, all of them inside the window.                                   *)
LEMMA StoredBytes ==
    ASSUME IInv, NEW first \in Ends, NEW last \in Ends, first <= last
    PROVE  LET data == SubSeq(Stream, first + 1, last)
               D    == DOMAIN unassembled \cup Fresh(data, first)
           IN  /\ Stored(data, first) = [i \in D |-> Stream[i + 1]]
               /\ Len(data) = last - first
               /\ Fresh(data, first) = {i \in first..(last - 1) : MinPos <= i /\ i < MaxPos}
               /\ D \subseteq bytes_written..(MaxPos - 1)
               /\ D \subseteq 0..(Len(Stream) - 1)
<1> DEFINE data == SubSeq(Stream, first + 1, last)
<1> DEFINE D == DOMAIN unassembled \cup Fresh(data, first)
<1>1. /\ Stream \in Seq(Byte) /\ Len(Stream) \in Nat /\ Capacity \in Nat
      /\ bytes_read \in Nat /\ bytes_written \in Nat
  BY Basics
<1>2. first \in Nat /\ last \in Nat /\ first <= last /\ last <= Len(Stream)
  BY <1>1 DEF Ends
<1>3. /\ Len(data) = last - first
      /\ \A i \in 1..(last - first) : data[i] = Stream[first + i]
  <2>1. first + 1 \in 1..(Len(Stream) + 1) /\ last \in ((first + 1) - 1)..Len(Stream)
    BY <1>1, <1>2
  <2>2. /\ Len(data) = last - (first + 1) + 1
        /\ \A i \in 1..(last - (first + 1) + 1) : data[i] = Stream[(first + 1) + i - 1]
    BY ONLY <1>1, <2>1, Slice
  <2> HIDE DEF data
  <2>3. last - (first + 1) + 1 = last - first
    BY <1>2
  <2>4. ASSUME NEW i \in 1..(last - first) PROVE data[i] = Stream[first + i]
    <3>1. (first + 1) + i - 1 = first + i
      BY <1>2
    <3>2. QED
      BY <2>2, <2>3, <3>1
  <2>5. QED
    BY <2>2, <2>3, <2>4
<1> HIDE DEF data
<1>4. Fresh(data, first) = {i \in first..(last - 1) : MinPos <= i /\ i < MaxPos}
  <2>1. first + (last - first) - 1 = last - 1
    BY <1>2
  <2>2. QED
    BY <1>3, <2>1 DEF Fresh
<1>5. /\ DOMAIN unassembled \subseteq (bytes_written + 1)..(MaxPos - 1)
      /\ DOMAIN unassembled \subseteq 0..(Len(Stream) - 1)
      /\ unassembled = [i \in DOMAIN unassembled |-> Stream[i + 1]]
  BY DEF IInv, OnlyGapsWait, TypeOK, MinPos
<1>6. MaxPos \in Int
  BY <1>1 DEF MaxPos
<1>7. D \subseteq bytes_written..(MaxPos - 1) /\ D \subseteq 0..(Len(Stream) - 1)
  BY <1>1, <1>2, <1>4, <1>5, <1>6 DEF MinPos
<1>8. Stored(data, first) = [i \in D |-> Stream[i + 1]]
  <2>1. ASSUME NEW i \in D
        PROVE  (IF i \in DOMAIN unassembled THEN unassembled[i] ELSE data[i - first + 1])
                 = Stream[i + 1]
    <3>1. CASE i \in DOMAIN unassembled
      BY <1>5, <3>1
    <3>2. CASE i \notin DOMAIN unassembled
      <4>1. i \in first..(last - 1)
        BY <1>4, <3>2
      <4>2. i - first + 1 \in 1..(last - first) /\ first + (i - first + 1) = i + 1
        BY <1>2, <4>1
      <4>3. QED
        BY <1>3, <3>2, <4>2
    <3>3. QED
      BY <3>1, <3>2
  <2>2. QED
    BY <2>1 DEF Stored
<1>9. QED
  BY <1>3, <1>4, <1>7, <1>8, Zenon DEF data

(* The indices in the map once the excerpt from `first` to before `last`   *)
(* has been copied into it.                                                *)
Available(first, last) ==
    DOMAIN unassembled \cup {i \in first..(last - 1) : MinPos <= i /\ i < MaxPos}

(* The step in which the output grows by the slice of the stream up to     *)
(* `stop`, the first gap, and exactly that slice leaves the map.           *)
AssembledTo(first, last, eof, stop) ==
    LET D == Available(first, last)
    IN  /\ D \subseteq bytes_written..(MaxPos - 1)
        /\ D \subseteq 0..(Len(Stream) - 1)
        /\ stop <= MaxPos
        /\ stop \notin D
        /\ bytes_written..(stop - 1) \subseteq D
        /\ bytes_written' = stop
        /\ buffer' = buffer \o SubSeq(Stream, bytes_written + 1, stop)
        /\ unassembled' = [i \in D \ (bytes_written..(stop - 1)) |-> Stream[i + 1]]
        /\ eof_flag' = (eof_flag \/ eof)
        /\ eof_index' = IF eof THEN last ELSE eof_index
        /\ input_ended' = (input_ended \/ (eof_flag' /\ bytes_written' = eof_index'))
        /\ UNCHANGED <<bytes_read, error>>

(* That is what push_substring() does behind its early return. *)
LEMMA AssembleEffect ==
    ASSUME IInv, NEW first \in Ends, NEW last \in Ends, NEW eof \in BOOLEAN, first <= last,
           Assemble(SubSeq(Stream, first + 1, last), first, eof)
    PROVE  \E stop \in bytes_written..Len(Stream) : AssembledTo(first, last, eof, stop)
<1> DEFINE data == SubSeq(Stream, first + 1, last)
<1> DEFINE D == Available(first, last)
<1> DEFINE stored == Stored(data, first)
<1> DEFINE stop == FirstGap(D, bytes_written)
<1> DEFINE run == [n \in 1..(stop - bytes_written) |-> stored[bytes_written + n - 1]]
<1>1. /\ Stream \in Seq(Byte) /\ Len(Stream) \in Nat /\ Capacity \in Nat
      /\ bytes_read \in Nat /\ bytes_written \in Nat
      /\ bytes_written <= Len(Stream) /\ bytes_written <= bytes_read + Capacity
      /\ buffer \in Seq(Byte) /\ Len(buffer) = bytes_written - bytes_read
      /\ input_ended \in BOOLEAN
  BY Basics
<1>2. /\ stored = [i \in D |-> Stream[i + 1]]
      /\ Len(data) = last - first
      /\ D \subseteq bytes_written..(MaxPos - 1)
      /\ D \subseteq 0..(Len(Stream) - 1)
  BY StoredBytes, Zenon DEF Available
<1>3. DOMAIN stored = D
  BY <1>2
<1>4. /\ AcceptData(run)
      /\ unassembled' = [i \in D \ (bytes_written..(stop - 1)) |-> stored[i]]
      /\ eof_flag' = (eof_flag \/ eof)
      /\ eof_index' = IF eof THEN first + Len(data) ELSE eof_index
      /\ input_ended' = (input_ended \/ AtEnd(eof_flag', eof_index', bytes_written'))
      /\ UNCHANGED <<bytes_read, error>>
  BY <1>3, Zenon DEF Assemble
<1>5. stop \in bytes_written..Len(Stream) /\ stop \notin D /\ bytes_written..(stop - 1) \subseteq D
  <2>1. bytes_written \in 0..Len(Stream)
    BY <1>1
  <2> HIDE DEF D
  <2>2. QED
    BY <1>1, <1>2, <2>1, FirstGapStops, Zenon
<1> HIDE DEF data, D, stored, stop
<1>6. MaxPos = bytes_read + Capacity
  BY DEF MaxPos
<1>7. stop <= MaxPos
  <2>1. CASE stop = bytes_written
    BY <1>1, <1>6, <2>1
  <2>2. CASE stop # bytes_written
    <3>1. stop - 1 \in bytes_written..(stop - 1)
      BY <1>1, <1>5, <2>2
    <3>2. stop - 1 \in bytes_written..(MaxPos - 1)
      BY <1>2, <1>5, <3>1
    <3>3. QED
      BY <1>1, <1>5, <1>6, <3>2
  <2>3. QED
    BY <2>1, <2>2
(* The assembled string is a slice of the stream ... *)
<1>8. run = SubSeq(Stream, bytes_written + 1, stop) /\ run \in Seq(Byte) /\ Len(run) = stop - bytes_written
  <2> DEFINE slice == SubSeq(Stream, bytes_written + 1, stop)
  <2>1. /\ bytes_written + 1 \in 1..(Len(Stream) + 1)
        /\ stop \in ((bytes_written + 1) - 1)..Len(Stream)
    BY <1>1, <1>5
  <2>2. /\ slice \in Seq(Byte)
        /\ Len(slice) = stop - (bytes_written + 1) + 1
        /\ \A i \in 1..(stop - (bytes_written + 1) + 1) :
              slice[i] = Stream[(bytes_written + 1) + i - 1]
    BY ONLY <1>1, <2>1, Slice
  <2>3. stop - (bytes_written + 1) + 1 = stop - bytes_written /\ stop - bytes_written \in Nat
    BY <1>1, <1>5
  <2> HIDE DEF slice
  <2>4. slice \in [1..(stop - bytes_written) -> Byte]
    BY <2>2, <2>3, LenProperties
  <2>5. ASSUME NEW i \in 1..(stop - bytes_written)
        PROVE  slice[i] = run[i]
    <3>1. bytes_written + i - 1 \in bytes_written..(stop - 1)
      BY <1>1, <1>5
    <3>2. bytes_written + i - 1 \in D
      BY <1>5, <3>1
    <3>3. (bytes_written + i - 1) + 1 = (bytes_written + 1) + i - 1
      BY <1>1
    <3>4. run[i] = stored[bytes_written + i - 1]
      OBVIOUS
    <3>5. stored[bytes_written + i - 1] = Stream[(bytes_written + i - 1) + 1]
      BY <1>2, <3>2
    <3>6. slice[i] = Stream[(bytes_written + 1) + i - 1]
      BY <2>2, <2>3
    <3>7. QED
      BY <3>3, <3>4, <3>5, <3>6
  <2>6. slice = run
    BY <2>4, <2>5
  <2>7. QED
    BY <2>2, <2>3, <2>6, Zenon DEF slice
<1> HIDE DEF run
(* ... that fits, and that write() takes whole unless the input has ended, *)
(* in which case it is empty.                                              *)
<1>9. WriteLen(run) = Len(run)
  <2>1. Len(run) <= Capacity - Len(buffer)
    BY <1>1, <1>5, <1>6, <1>7, <1>8
  <2>2. Len(run) \in Nat
    BY <1>8, LenProperties
  <2>3. input_ended => Len(run) = 0
    <3>1. input_ended => bytes_written = Len(Stream)
      BY DEF IInv, EndExact
    <3>2. QED
      BY <1>1, <1>5, <1>8, <3>1
  <2>4. QED
    BY <1>1, <2>1, <2>2, <2>3 DEF WriteLen, RemainingCapacity, Lesser
<1>10. buffer' = buffer \o run /\ bytes_written' = stop
  <2>1. SubSeq(run, 1, Len(run)) = run
    BY <1>8, SubSeqFull, Zenon
  <2>2. buffer' = buffer \o run /\ bytes_written' = bytes_written + Len(run)
    BY <1>4, <1>9, <2>1 DEF AcceptData
  <2>3. bytes_written + (stop - bytes_written) = stop
    BY <1>1, <1>5
  <2>4. QED
    BY <1>8, <2>2, <2>3
<1>11. unassembled' = [i \in D \ (bytes_written..(stop - 1)) |-> Stream[i + 1]]
  BY <1>2, <1>4
<1>12. eof_index' = IF eof THEN last ELSE eof_index
  <2>1. first + (last - first) = last
    BY <1>1 DEF Ends
  <2>2. QED
    BY <1>2, <1>4, <2>1
<1>13. input_ended' = (input_ended \/ (eof_flag' /\ bytes_written' = eof_index'))
  BY <1>4 DEF AtEnd
<1>14. buffer' = buffer \o SubSeq(Stream, bytes_written + 1, stop)
  BY <1>8, <1>10
<1>15. QED
  BY <1>2, <1>4, <1>5, <1>7, <1>10, <1>11, <1>12, <1>13, <1>14, Zenon DEF D, AssembledTo

(* What the reader's pop_output() does: the output, a slice of the stream, *)
(* loses its first k bytes and the window moves up by k.                   *)
LEMMA PopEffect ==
    ASSUME IInv, NEW len \in Nat, PopOutput(len)
    PROVE  \E k \in 0..Len(buffer) :
              /\ bytes_read' = bytes_read + k
              /\ buffer' = SubSeq(buffer, k + 1, Len(buffer))
              /\ buffer' = SubSeq(Stream, bytes_read + k + 1, bytes_written)
              /\ UNCHANGED <<bytes_written, input_ended, error>>
<1> DEFINE k == Lesser(len, Len(buffer))
<1>1. /\ Stream \in Seq(Byte) /\ Len(Stream) \in Nat
      /\ bytes_read \in Nat /\ bytes_written \in Nat
      /\ bytes_read <= bytes_written /\ bytes_written <= Len(Stream)
      /\ buffer = SubSeq(Stream, bytes_read + 1, bytes_written)
      /\ Len(buffer) = bytes_written - bytes_read
  BY Basics
<1>2. k \in 0..Len(buffer)
  BY <1>1 DEF Lesser
<1>3. /\ bytes_read' = bytes_read + k
      /\ buffer' = SubSeq(buffer, k + 1, Len(buffer))
      /\ UNCHANGED <<bytes_written, input_ended, error>>
  BY DEF PopOutput
<1> HIDE DEF k
<1>4. buffer' = SubSeq(Stream, bytes_read + k + 1, bytes_written)
  <2> DEFINE m == bytes_read + 1
  <2>1. /\ m \in 1..(Len(Stream) + 1) /\ bytes_written \in (m - 1)..Len(Stream)
        /\ k \in 0..(bytes_written - m + 1)
        /\ bytes_written - m + 1 = Len(buffer) /\ m + k = bytes_read + k + 1
    BY <1>1, <1>2
  <2>2. buffer = SubSeq(Stream, m, bytes_written)
    BY <1>1
  <2> HIDE DEF m
  <2>3. SubSeq(SubSeq(Stream, m, bytes_written), k + 1, bytes_written - m + 1)
          = SubSeq(Stream, m + k, bytes_written)
    BY ONLY <1>1, <2>1, DropOfSlice
  <2>4. SubSeq(buffer, k + 1, Len(buffer)) = SubSeq(Stream, m + k, bytes_written)
    BY ONLY <2>1, <2>2, <2>3
  <2>5. QED
    BY <1>3, <2>1, <2>4, Zenon
<1>5. QED
  BY <1>2, <1>3, <1>4, Zenon

(* A step of the system is one of three: a push that gets past the early   *)
(* return, a pop, or nothing that matters to the stream.                   *)
LEMMA StepCases ==
    ASSUME IInv, [Next]_vars
    PROVE  \/ \E first, last \in Ends, eof \in BOOLEAN :
                /\ first <= last
                /\ eof => last = Len(Stream)
                /\ Assemble(SubSeq(Stream, first + 1, last), first, eof)
           \/ /\ \E len \in Nat : PopOutput(len)
              /\ UNCHANGED <<unassembled, eof_flag, eof_index>>
           \/ /\ UNCHANGED <<buffer, bytes_written, bytes_read, input_ended>>
              /\ UNCHANGED <<unassembled, eof_flag, eof_index>>
              /\ error' \in BOOLEAN
<1>1. CASE NetworkPushes
  BY <1>1, Basics DEF NetworkPushes, Push, PushSubstring, vars
<1>2. CASE ReaderReads
  <2>1. PICK len \in 0..Capacity : PopOutput(Len(PeekOutput(len)))
    BY <1>2 DEF ReaderReads, Read
  <2>2. Len(PeekOutput(len)) \in Nat
    <3> DEFINE k == Lesser(len, Len(buffer))
    <3>1. buffer \in Seq(Byte) /\ Len(buffer) \in Nat /\ Capacity \in Nat
      BY Basics, LenProperties
    <3>2. 1 \in 1..(Len(buffer) + 1) /\ k \in (1 - 1)..Len(buffer)
      BY <3>1 DEF Lesser
    <3> HIDE DEF k
    <3>3. SubSeq(buffer, 1, k) \in Seq(Byte)
      BY ONLY <3>1, <3>2, Slice
    <3>4. QED
      BY <3>3, LenProperties DEF PeekOutput, k
  <2>3. QED
    BY <1>2, <2>1, <2>2 DEF ReaderReads
<1>3. CASE ReaderPops
  <2>1. 0..Capacity \subseteq Nat
    BY CapacityAssumption
  <2>2. QED
    BY <1>3, <2>1 DEF ReaderPops
<1>4. CASE OwnerFails
  BY <1>4 DEF OwnerFails, SetError
<1>5. CASE UNCHANGED vars
  BY <1>5, Basics DEF vars
<1>6. QED
  BY <1>1, <1>2, <1>3, <1>4, <1>5 DEF Next

-----------------------------------------------------------------------------
(* The constructor establishes the invariant. *)
LEMMA InitIInv == Init => IInv
<1> SUFFICES ASSUME Init PROVE IInv
  OBVIOUS
<1>1. Len(Stream) \in Nat /\ Capacity \in Nat /\ << >> \in Seq(Byte)
  BY StreamAssumption, CapacityAssumption, LenProperties, EmptySeq
<1>2. DOMAIN unassembled = {} /\ unassembled = [i \in DOMAIN unassembled |-> Stream[i + 1]]
  BY DEF Init
<1>3. SubSeq(Stream, 0 + 1, 0) = << >>
  BY SubSeqEmpty
<1>4. TypeOK
  BY <1>1, <1>2, Zenon DEF Init, StreamInit, TypeOK, StreamTypeOK
<1>5. OutputIsStream
  BY <1>1, <1>3 DEF Init, StreamInit, OutputIsStream
<1>6. OnlyGapsWait /\ EndExact /\ EofRecorded
  BY <1>2 DEF Init, StreamInit, OnlyGapsWait, EndExact, EofRecorded
<1>7. WithinWindow
  BY <1>1 DEF Init, StreamInit, WithinWindow, MaxPos
<1>8. QED
  BY <1>4, <1>5, <1>6, <1>7 DEF IInv

(* Every push, read and pop preserves it. *)
LEMMA NextIInv == IInv /\ [Next]_vars => IInv'
<1> SUFFICES ASSUME IInv, [Next]_vars PROVE IInv'
  OBVIOUS
<1>1. /\ Stream \in Seq(Byte) /\ Len(Stream) \in Nat /\ Capacity \in Nat
      /\ bytes_read \in Nat /\ bytes_written \in Nat
      /\ bytes_read <= bytes_written /\ bytes_written <= Len(Stream)
      /\ bytes_written <= bytes_read + Capacity
      /\ buffer \in Seq(Byte) /\ Len(buffer) = bytes_written - bytes_read
      /\ buffer = SubSeq(Stream, bytes_read + 1, bytes_written)
      /\ input_ended \in BOOLEAN /\ error \in BOOLEAN /\ eof_flag \in BOOLEAN
  BY Basics
<1>2. ASSUME NEW first \in Ends, NEW last \in Ends, NEW eof \in BOOLEAN, first <= last,
             eof => last = Len(Stream),
             Assemble(SubSeq(Stream, first + 1, last), first, eof)
      PROVE  IInv'
  <2> DEFINE D == Available(first, last)
  <2>0. PICK stop \in bytes_written..Len(Stream) : AssembledTo(first, last, eof, stop)
    BY <1>2, AssembleEffect
  <2>1. /\ D \subseteq bytes_written..(MaxPos - 1)
        /\ D \subseteq 0..(Len(Stream) - 1)
        /\ stop <= MaxPos
        /\ stop \notin D
        /\ bytes_written..(stop - 1) \subseteq D
        /\ bytes_written' = stop
        /\ buffer' = buffer \o SubSeq(Stream, bytes_written + 1, stop)
        /\ unassembled' = [i \in D \ (bytes_written..(stop - 1)) |-> Stream[i + 1]]
        /\ eof_flag' = (eof_flag \/ eof)
        /\ eof_index' = IF eof THEN last ELSE eof_index
        /\ input_ended' = (input_ended \/ (eof_flag' /\ bytes_written' = eof_index'))
        /\ UNCHANGED <<bytes_read, error>>
    BY <2>0 DEF AssembledTo
  <2> HIDE DEF D
  <2>2. buffer' = SubSeq(Stream, bytes_read + 1, stop)
    <3>1. /\ bytes_read + 1 \in 1..(Len(Stream) + 1)
          /\ bytes_written \in (bytes_read + 1) - 1..Len(Stream)
          /\ stop \in bytes_written..Len(Stream)
      BY <1>1
    <3>2. SubSeq(Stream, bytes_read + 1, bytes_written) \o SubSeq(Stream, bytes_written + 1, stop)
            = SubSeq(Stream, bytes_read + 1, stop)
      BY ONLY <1>1, <3>1, ConcatAdjacentSubSeq
    <3>3. QED
      BY <1>1, <2>1, <3>2
  <2>3. buffer' \in Seq(Byte)
    <3>1. bytes_read + 1 \in 1..(Len(Stream) + 1) /\ stop \in ((bytes_read + 1) - 1)..Len(Stream)
      BY <1>1
    <3>2. SubSeq(Stream, bytes_read + 1, stop) \in Seq(Byte)
      BY ONLY <1>1, <3>1, Slice
    <3>3. QED
      BY <2>2, <3>2
  <2>4. stop \in Nat /\ bytes_read <= stop /\ stop <= Len(Stream) /\ bytes_read' = bytes_read
    BY <1>1, <2>1
  <2>5. DOMAIN unassembled' = D \ (bytes_written..(stop - 1))
    BY <2>1
  <2>6. TypeOK'
    <3>1. StreamTypeOK'
      BY <1>1, <2>1, <2>3, <2>4 DEF StreamTypeOK
    <3>2. DOMAIN unassembled' \subseteq 0..(Len(Stream) - 1)
      BY <2>1, <2>5, Zenon
    <3>3. unassembled' = [i \in DOMAIN unassembled' |-> Stream[i + 1]]
      BY <2>1, <2>5
    <3>4. eof_flag' \in BOOLEAN /\ eof_index' \in {0, Len(Stream)}
      BY <1>1, <1>2, <2>1 DEF IInv, TypeOK
    <3>5. QED
      BY <3>1, <3>2, <3>3, <3>4 DEF TypeOK
  <2>7. OutputIsStream'
    BY <2>1, <2>2, <2>4, Zenon DEF OutputIsStream
  <2>8. OnlyGapsWait'
    <3>1. MaxPos' = MaxPos /\ MaxPos \in Int
      BY <1>1, <2>1 DEF MaxPos
    <3>2. ASSUME NEW i \in D \ (bytes_written..(stop - 1))
          PROVE  i \in (stop + 1)..(MaxPos - 1)
      <4>1. i \in bytes_written..(MaxPos - 1) /\ i # stop /\ i \notin bytes_written..(stop - 1)
        BY <2>1
      <4>2. QED
        BY <1>1, <2>4, <3>1, <4>1
    <3>3. QED
      BY <2>1, <2>5, <3>1, <3>2, Zenon DEF OnlyGapsWait, MinPos
  <2>9. EofRecorded'
    BY <1>2, <2>1 DEF IInv, EofRecorded
  <2>10. EndExact'
    <3>1. eof_flag' => eof_index' = Len(Stream)
      BY <2>9 DEF EofRecorded
    <3>2. input_ended => bytes_written = Len(Stream)
      BY DEF IInv, EndExact
    <3>3. bytes_written = Len(Stream) => stop = Len(Stream)
      BY <1>1, <2>1
    <3>4. QED
      BY <2>1, <3>1, <3>2, <3>3, Zenon DEF EndExact
  <2>11. WithinWindow'
    BY <2>1 DEF WithinWindow, MaxPos
  <2>12. QED
    BY <2>6, <2>7, <2>8, <2>9, <2>10, <2>11 DEF IInv
<1>3. ASSUME NEW len \in Nat, PopOutput(len), UNCHANGED <<unassembled, eof_flag, eof_index>>
      PROVE  IInv'
  <2>1. PICK k \in 0..Len(buffer) :
          /\ bytes_read' = bytes_read + k
          /\ buffer' = SubSeq(Stream, bytes_read + k + 1, bytes_written)
          /\ UNCHANGED <<bytes_written, input_ended, error>>
    BY <1>3, PopEffect
  <2>2. /\ k \in Nat /\ bytes_read + k <= bytes_written
        /\ bytes_written <= (bytes_read + k) + Capacity /\ bytes_read + k \in Nat
    BY <1>1
  <2>3. buffer' \in Seq(Byte)
    <3>1. /\ bytes_read + k + 1 \in 1..(Len(Stream) + 1)
          /\ bytes_written \in ((bytes_read + k + 1) - 1)..Len(Stream)
      BY <1>1, <2>2
    <3>2. SubSeq(Stream, bytes_read + k + 1, bytes_written) \in Seq(Byte)
      BY ONLY <1>1, <3>1, Slice
    <3>3. QED
      BY <2>1, <3>2
  <2>4. TypeOK'
    BY <1>3, <2>1, <2>2, <2>3 DEF IInv, TypeOK, StreamTypeOK
  <2>5. OutputIsStream'
    BY <1>1, <2>1, <2>2 DEF OutputIsStream
  <2>6. OnlyGapsWait'
    <3>1. DOMAIN unassembled \subseteq (bytes_written + 1)..(MaxPos - 1)
      BY DEF IInv, OnlyGapsWait, MinPos
    <3>2. MaxPos \in Int /\ MaxPos' \in Int /\ MaxPos <= MaxPos'
      BY <1>1, <2>1, <2>2 DEF MaxPos
    <3>3. DOMAIN unassembled \subseteq (bytes_written + 1)..(MaxPos' - 1)
      BY <1>1, <3>1, <3>2
    <3>4. QED
      BY <1>3, <2>1, <3>3 DEF OnlyGapsWait, MinPos
  <2>7. EofRecorded' /\ EndExact'
    BY <1>3, <2>1 DEF IInv, EofRecorded, EndExact
  <2>8. WithinWindow'
    BY <2>1, <2>2 DEF WithinWindow, MaxPos
  <2>9. QED
    BY <2>4, <2>5, <2>6, <2>7, <2>8 DEF IInv
<1>4. ASSUME UNCHANGED <<buffer, bytes_written, bytes_read, input_ended>>,
             UNCHANGED <<unassembled, eof_flag, eof_index>>, error' \in BOOLEAN
      PROVE  IInv'
  BY <1>4 DEF IInv, TypeOK, StreamTypeOK, OutputIsStream, OnlyGapsWait, EndExact,
              EofRecorded, WithinWindow, MinPos, MaxPos
<1>5. QED
  BY <1>2, <1>3, <1>4, StepCases

-----------------------------------------------------------------------------
(* Type correctness: in particular the map holds only bytes of the stream, *)
(* each under its own index.                                               *)
THEOREM TypeCorrect == Spec => []TypeOK
<1>1. IInv => TypeOK
  BY DEF IInv
<1>2. QED
  BY <1>1, InitIInv, NextIInv, PTL DEF Spec

(* Whatever is pushed in whatever order, the output of the reassembler is  *)
(* the stream, byte for byte.                                              *)
THEOREM OutputCorrect == Spec => []OutputIsStream
<1>1. IInv => OutputIsStream
  BY DEF IInv
<1>2. QED
  BY <1>1, InitIInv, NextIInv, PTL DEF Spec

(* No byte that could be written is left in the map, and none lies outside *)
(* the window.                                                             *)
THEOREM OnlyGapsWaitCorrect == Spec => []OnlyGapsWait
<1>1. IInv => OnlyGapsWait
  BY DEF IInv
<1>2. QED
  BY <1>1, InitIInv, NextIInv, PTL DEF Spec

(* The output is ended exactly when a recorded eof has been reached. *)
THEOREM EndCorrect == Spec => []EndExact
<1>1. IInv => EndExact
  BY DEF IInv
<1>2. QED
  BY <1>1, InitIInv, NextIInv, PTL DEF Spec

(* Output and map together never hold more than the capacity: the map is   *)
(* confined to what the window leaves behind the output and the gap.       *)
THEOREM CapacityCorrect == Spec => []WithinCapacity
<1>1. ASSUME IInv PROVE WithinCapacity
  <2> DEFINE a == bytes_written + 1
  <2> DEFINE b == bytes_read + Capacity - 1
  <2>1. /\ bytes_read \in Nat /\ bytes_written \in Nat /\ Capacity \in Nat
        /\ bytes_written <= bytes_read + Capacity
        /\ Len(buffer) = bytes_written - bytes_read
    BY <1>1, Basics
  <2>2. a \in Int /\ b \in Int
    BY <2>1
  <2>3. DOMAIN unassembled \in SUBSET (a..b)
    <3>1. DOMAIN unassembled \subseteq (MinPos + 1)..(MaxPos - 1)
      BY <1>1 DEF IInv, OnlyGapsWait
    <3>2. MinPos + 1 = a /\ MaxPos - 1 = b
      BY <2>1 DEF MinPos, MaxPos
    <3> HIDE DEF a, b
    <3>3. QED
      BY <3>1, <3>2
  <2>4. (IF a > b THEN 0 ELSE b - a + 1) + Len(buffer) <= Capacity
    BY <2>1
  <2> HIDE DEF a, b
  <2>5. IsFiniteSet(a..b) /\ Cardinality(a..b) = IF a > b THEN 0 ELSE b - a + 1
    BY <2>2, FS_Interval
  <2>6. /\ Cardinality(DOMAIN unassembled) \in Nat
        /\ Cardinality(DOMAIN unassembled) <= Cardinality(a..b)
    BY <2>3, <2>5, FS_Subset, FS_CardinalityType, Zenon
  <2>7. QED
    BY <2>1, <2>2, <2>4, <2>5, <2>6 DEF WithinCapacity
<1>2. QED
  BY <1>1, InitIInv, NextIInv, PTL DEF Spec

-----------------------------------------------------------------------------
(* After a push that got past the early return, the receiver has what it   *)
(* had before and the part of the excerpt inside the window.               *)
LEMMA AssembleKeeps ==
    ASSUME IInv, NEW first \in Ends, NEW last \in Ends, NEW eof \in BOOLEAN, first <= last,
           Assemble(SubSeq(Stream, first + 1, last), first, eof)
    PROVE  /\ Held \subseteq Held'
           /\ {i \in first..(last - 1) : i < MaxPos} \subseteq Held'
<1>1. PICK stop \in bytes_written..Len(Stream) : AssembledTo(first, last, eof, stop)
  BY AssembleEffect
<1> DEFINE D == Available(first, last)
<1>2. /\ bytes_written' = stop
      /\ DOMAIN unassembled' = D \ (bytes_written..(stop - 1))
  BY <1>1 DEF AssembledTo
<1>3. bytes_written \in Nat /\ Len(Stream) \in Nat /\ bytes_written <= Len(Stream) /\ stop \in Nat
  BY Basics
<1>4. Held' = 0..(stop - 1) \cup (D \ (bytes_written..(stop - 1)))
  BY <1>2 DEF Held
<1> HIDE DEF D
<1>5. 0..(bytes_written - 1) \subseteq Held' /\ D \subseteq Held'
  BY <1>3, <1>4
<1>6. Held \subseteq Held'
  BY <1>5 DEF Held, D, Available
<1>7. ASSUME NEW i \in first..(last - 1), i < MaxPos PROVE i \in Held'
  <2>1. i \in Nat
    BY <1>3 DEF Ends
  <2>2. CASE bytes_written <= i
    BY <1>5, <1>7, <2>2 DEF D, Available, MinPos
  <2>3. CASE ~(bytes_written <= i)
    BY <1>3, <1>5, <2>1, <2>3
  <2>4. QED
    BY <2>2, <2>3
<1>8. QED
  BY <1>6, <1>7

(* A byte the reassembler has stored is never forgotten, although bytes    *)
(* leave the map before write() is asked to take them.                     *)
THEOREM HeldForeverCorrect == Spec => HeldForever
<1>1. IInv /\ [Next]_vars => [HeldKept]_vars
  <2> SUFFICES ASSUME IInv, [Next]_vars PROVE Held \subseteq Held'
    BY DEF HeldKept
  <2>1. CASE \E len \in Nat : PopOutput(len) /\ UNCHANGED <<unassembled, eof_flag, eof_index>>
    BY <2>1 DEF PopOutput, Held
  <2>2. CASE /\ UNCHANGED <<buffer, bytes_written, bytes_read, input_ended>>
             /\ UNCHANGED <<unassembled, eof_flag, eof_index>>
    BY <2>2 DEF Held
  <2>3. QED
    BY <2>1, <2>2, StepCases, AssembleKeeps
<1>2. QED
  BY <1>1, InitIInv, NextIInv, PTL DEF Spec, HeldForever

(* The early return of push_substring never drops a byte of the window     *)
(* that is not held already.                                               *)
THEOREM DiscardsOnlyHeldCorrect == Spec => []DiscardsOnlyHeld
<1>1. IInv => DiscardsOnlyHeld
  <2> SUFFICES ASSUME IInv, NEW first \in Ends, NEW last \in Ends, first <= last,
                      Discarded(SubSeq(Stream, first + 1, last), first)
               PROVE  {i \in first..(last - 1) : i < MaxPos} \subseteq Held
    BY DEF DiscardsOnlyHeld
  <2> DEFINE data == SubSeq(Stream, first + 1, last)
  <2>1. /\ bytes_written \in Nat /\ bytes_read \in Nat /\ Capacity \in Nat
        /\ Len(Stream) \in Nat /\ first \in Nat /\ last \in Nat
    BY Basics DEF Ends
  <2>2. Len(data) = last - first
    BY StoredBytes, Zenon
  <2>3. Discarded(data, first)
    OBVIOUS
  <2> HIDE DEF data
  <2>4. MaxPos \in Nat /\ MinPos = bytes_written
    BY <2>1 DEF MaxPos, MinPos
  <2>5. last <= bytes_written \/ first >= MaxPos
    BY <2>1, <2>2, <2>3, <2>4 DEF Discarded
  <2>6. 0..(bytes_written - 1) \subseteq Held
    BY DEF Held
  <2>7. QED
    BY <2>1, <2>4, <2>5, <2>6
<1>2. QED
  BY <1>1, InitIInv, NextIInv, PTL DEF Spec

(* A push keeps every byte it brings that lies before the end of the       *)
(* window, also when it takes the early return.                            *)
THEOREM WindowKeptCorrect == Spec => WindowKept
<1>1. IInv /\ [Next]_vars => [PushKept]_vars
  <2> SUFFICES ASSUME IInv, NEW first \in Ends, NEW last \in Ends, NEW eof \in BOOLEAN,
                      Push(first, last, eof)
               PROVE  {i \in first..(last - 1) : i < MaxPos} \subseteq Held'
    BY DEF PushKept
  <2> DEFINE data == SubSeq(Stream, first + 1, last)
  <2>1. first <= last /\ PushSubstring(data, first, eof)
    BY DEF Push
  <2>2. CASE Assemble(data, first, eof)
    BY <2>1, <2>2, AssembleKeeps
  <2>3. CASE Discarded(data, first) /\ UNCHANGED vars
    <3>1. /\ bytes_written \in Nat /\ bytes_read \in Nat /\ Capacity \in Nat
          /\ Len(Stream) \in Nat /\ first \in Nat /\ last \in Nat
      BY Basics DEF Ends
    <3>2. Len(data) = last - first
      BY <2>1, StoredBytes, Zenon
    <3> HIDE DEF data
    <3>3. MaxPos \in Nat /\ MinPos = bytes_written
      BY <3>1 DEF MaxPos, MinPos
    <3>4. last <= bytes_written \/ first >= MaxPos
      BY <2>1, <2>3, <3>1, <3>2, <3>3 DEF Discarded
    <3>5. 0..(bytes_written - 1) \subseteq Held'
      BY <2>3 DEF Held, vars
    <3>6. QED
      BY <3>1, <3>3, <3>4, <3>5
  <2>4. QED
    BY <2>1, <2>2, <2>3 DEF PushSubstring
<1>2. QED
  BY <1>1, InitIInv, NextIInv, PTL DEF Spec, WindowKept

-----------------------------------------------------------------------------
(* The reassembler implements InOrderDelivery: seen from its reader, every *)
(* step of it is the arrival of the next bytes of the stream, a read, or   *)
(* nothing at all.                                                         *)
THEOREM DeliveryImplemented == Spec => ImplementsDelivery
<1>1. Init => Delivery!Init
  BY DEF Init, StreamInit, Delivery!Init
<1>2. IInv /\ [Next]_vars => [Delivery!Next]_<<buffer, bytes_written, input_ended>>
  <2> SUFFICES ASSUME IInv, [Next]_vars
               PROVE  \/ Delivery!Deliver
                      \/ Delivery!Consume
                      \/ UNCHANGED <<buffer, bytes_written, input_ended>>
    BY DEF Delivery!Next
  <2>1. /\ Len(Stream) \in Nat /\ Capacity \in Nat
        /\ bytes_read \in Nat /\ bytes_written \in Nat
        /\ bytes_read <= bytes_written /\ bytes_written <= Len(Stream)
        /\ Len(buffer) = bytes_written - bytes_read /\ input_ended \in BOOLEAN
    BY Basics
  <2>2. ASSUME NEW first \in Ends, NEW last \in Ends, NEW eof \in BOOLEAN, first <= last,
               Assemble(SubSeq(Stream, first + 1, last), first, eof)
        PROVE  Delivery!Deliver
    <3>1. PICK stop \in bytes_written..Len(Stream) : AssembledTo(first, last, eof, stop)
      BY <2>2, AssembleEffect
    <3>2. /\ stop <= MaxPos /\ bytes_written' = stop
          /\ buffer' = buffer \o SubSeq(Stream, bytes_written + 1, stop)
          /\ input_ended' = (input_ended \/ (eof_flag' /\ bytes_written' = eof_index'))
      BY <3>1 DEF AssembledTo
    <3> DEFINE n == stop - bytes_written
    <3>3. /\ n \in 0..(Capacity - Len(buffer))
          /\ bytes_written + n = stop /\ bytes_written + n <= Len(Stream)
      BY <2>1, <3>2 DEF MaxPos
    <3>4. input_ended' \in BOOLEAN /\ (input_ended => input_ended')
      BY <3>2, Zenon
    <3>5. input_ended' => bytes_written' = Len(Stream)
      BY NextIInv DEF IInv, EndExact
    <3> HIDE DEF n
    <3>6. /\ bytes_written + n <= Len(Stream)
          /\ buffer' = buffer \o SubSeq(Stream, bytes_written + 1, bytes_written + n)
          /\ bytes_written' = bytes_written + n
      BY <3>2, <3>3, Zenon
    <3>7. QED
      BY <3>3, <3>4, <3>5, <3>6, Zenon DEF Delivery!Deliver
  <2>3. ASSUME NEW len \in Nat, PopOutput(len)
        PROVE  Delivery!Consume
    <3>1. PICK k \in 0..Len(buffer) :
            /\ buffer' = SubSeq(buffer, k + 1, Len(buffer))
            /\ UNCHANGED <<bytes_written, input_ended>>
      BY <2>3, PopEffect
    <3>2. QED
      BY <3>1 DEF Delivery!Consume
  <2>4. QED
    BY <2>2, <2>3, StepCases
<1>3. QED
  BY <1>1, <1>2, InitIInv, NextIInv, PTL DEF Spec, ImplementsDelivery, Delivery!Spec
=============================================================================
