-------------------------- MODULE DescriptorProofs --------------------------
(***************************************************************************)
(* Proofs about FileDescriptor::write() and read(), for every program that *)
(* uses them in any order (DescriptorUser) and for webget (Webget).        *)
(***************************************************************************)
EXTENDS DescriptorUser, Webget, SliceLemmas

(* The variables read() uses, and the ones that tell what it may return.   *)
readSide == <<readVars, replied, peer_closed, shut>>

(* The inductive invariant of reading.  EofIsTheEnd alone does not bear a  *)
(* step: it takes that read bytes and bytes in flight are together what    *)
(* the peer has sent, and that nothing is in flight once _eof is set.      *)
ReadInv ==
    /\ got \in Seq(Byte) /\ inbound \in Seq(Byte)
    /\ replied \in 0..Len(Reply)
    /\ got \o inbound = SubSeq(Reply, 1, replied)
    /\ eof => "RD" \in shut \/ (peer_closed /\ inbound = << >>)

(* The constants of read(). *)
LEMMA ReadConstants ==
    Reply \in Seq(Byte) /\ Len(Reply) \in Nat /\ BufferSize \in Nat /\ BufferSize > 0
  BY IOAssumption

(* Nothing has been sent before the peer sends. *)
LEMMA ReadStart ==
    IOInit => ReadInv
<1>1. SubSeq(Reply, 1, 0) = << >> /\ << >> \o << >> = << >> /\ << >> \in Seq(Byte)
  BY ReadConstants, SubSeqEmpty
<1>2. QED
  BY <1>1, ReadConstants DEF IOInit, ReadInv

(* read() moves bytes from the kernel to the program, and sets _eof only   *)
(* if there is nothing to move and there will not be.                      *)
LEMMA ReadKeeps ==
    ASSUME ReadInv, NEW limit \in Nat, Read(limit)
    PROVE  /\ ReadInv'
           /\ From(got', Len(got) + 1) \in Seq(Byte)
           /\ got' = got \o From(got', Len(got) + 1)
<1>1. PICK n \in ReadReturns(limit) :
        /\ eof' = (eof \/ AtEof(limit, n))
        /\ got' = got \o SubSeq(inbound, 1, n)
        /\ inbound' = From(inbound, n + 1)
  BY DEF Read
<1>2. got \in Seq(Byte) /\ inbound \in Seq(Byte) /\ Len(got) \in Nat /\ Len(inbound) \in Nat
  BY LenProperties DEF ReadInv
<1>3. n \in 0..Len(inbound) /\ (n = 0 => SizeToRead(limit) = 0 \/ inbound = << >>)
  <2>1. inbound # << >> => Len(inbound) > 0
    BY <1>2, EmptySeq
  <2>2. SizeToRead(limit) \in Nat
    BY ReadConstants DEF SizeToRead, Lesser
  <2>3. QED
    BY <1>2, <2>1, <2>2 DEF ReadReturns, Lesser
<1>4. PICK x \in Seq(Byte), y \in Seq(Byte) :
        /\ x = SubSeq(inbound, 1, n) /\ y = From(inbound, n + 1)
        /\ x \o y = inbound
        /\ inbound = << >> => y = << >>
  <2>1. SubSeq(inbound, 1, n) \in Seq(Byte)
    BY <1>2, <1>3, Slice
  <2>2. From(inbound, n + 1) \in Seq(Byte) /\ Len(From(inbound, n + 1)) = Len(inbound) - n
    BY <1>2, <1>3, Rest DEF From
  <2>3. SubSeq(inbound, 1, n) \o From(inbound, n + 1) = inbound
    BY <1>2, <1>3, CutAt DEF From
  <2>4. inbound = << >> => From(inbound, n + 1) = << >>
    BY <1>2, <1>3, <2>2, EmptySeq
  <2>5. QED
    BY <2>1, <2>2, <2>3, <2>4, Zenon
<1>5. (got \o x) \o y = got \o inbound /\ got \o x \in Seq(Byte)
  <2>1. (got \o x) \o y = got \o (x \o y)
    <3>1. Associates(got, x, y)
      BY <1>2, Associative, Zenon
    <3>2. QED
      BY <3>1, Zenon DEF Associates
  <2>2. QED
    BY <1>2, <1>4, <2>1, ConcatProperties
<1>6. eof' => "RD" \in shut \/ (peer_closed /\ inbound' = << >>)
  <2>1. CASE eof
    BY <1>1, <1>4, <2>1 DEF ReadInv
  <2>2. CASE AtEof(limit, n)
    <3>1. limit > 0 /\ n = 0
      BY <2>2 DEF AtEof
    <3>2. SizeToRead(limit) # 0
      BY <3>1, ReadConstants DEF SizeToRead, Lesser
    <3>3. inbound = << >> /\ (peer_closed \/ "RD" \in shut)
      BY <1>1, <1>3, <3>1, <3>2 DEF ReadReturns
    <3>4. QED
      BY <1>1, <1>4, <3>3
  <2>3. QED
    BY <1>1, <2>1, <2>2
<1>7. UNCHANGED <<replied, peer_closed, shut>>
  BY DEF Read, peerVars, modeVars
<1>8. ReadInv'
  BY <1>1, <1>4, <1>5, <1>6, <1>7 DEF ReadInv
<1>9. From(got \o x, Len(got) + 1) = x
  <2>1. Len(got) \in 0..Len(got)
    BY <1>2
  <2>2. SubSeq(got \o x, Len(got) + 1, Len(got \o x)) = SubSeq(got, Len(got) + 1, Len(got)) \o x
    BY <1>2, <2>1, DropOfConcat
  <2>3. SubSeq(got, Len(got) + 1, Len(got)) = << >>
    BY <1>2, SubSeqEmpty
  <2>4. QED
    BY <2>2, <2>3, ConcatEmptySeq DEF From
<1>10. QED
  BY <1>1, <1>4, <1>8, <1>9

(* The peer sends the next byte of its reply. *)
LEMMA SendKeeps ==
    ASSUME ReadInv, PeerSends
    PROVE  ReadInv'
<1>1. got \in Seq(Byte) /\ inbound \in Seq(Byte) /\ replied \in Nat /\ replied < Len(Reply)
  BY ReadConstants DEF ReadInv, PeerSends
<1>2. PICK b \in Byte : b = Reply[replied + 1]
  <2>1. replied + 1 \in 1..Len(Reply)
    BY <1>1, ReadConstants
  <2>2. Reply[replied + 1] \in Byte
    BY <2>1, ReadConstants
  <2>3. QED
    BY <2>2, Zenon
<1>3. inbound' = Append(inbound, b) /\ replied' = replied + 1
  BY <1>2 DEF PeerSends
<1>4. inbound' \in Seq(Byte) /\ got \o inbound' = (got \o inbound) \o <<b>>
  BY <1>1, <1>3
<1>5. SubSeq(Reply, 1, replied + 1) = SubSeq(Reply, 1, replied) \o <<b>>
  <2>1. 1 \in 1..Len(Reply) /\ replied + 1 \in 1..Len(Reply) /\ (replied + 1) - 1 = replied
    BY <1>1, ReadConstants
  <2>2. SubSeq(Reply, 1, replied + 1) =
            SubSeq(Reply, 1, (replied + 1) - 1) \o <<Reply[replied + 1]>>
    BY <2>1, ReadConstants, SubSeqRecursiveSecond, Zenon
  <2>3. QED
    BY <1>2, <2>1, <2>2
<1>6. replied' \in 0..Len(Reply)
  BY <1>1, <1>3, ReadConstants
<1>7. /\ ~peer_closed
      /\ UNCHANGED <<got, eof, peer_closed, shut>>
  BY DEF PeerSends, modeVars
<1>8. QED
  BY <1>3, <1>4, <1>5, <1>6, <1>7 DEF ReadInv

(* The peer closes. *)
LEMMA CloseKeeps ==
    ASSUME ReadInv, PeerCloses
    PROVE  ReadInv'
  BY DEF ReadInv, PeerCloses, readVars, modeVars

(* shutdown() only adds to the directions that are shut down. *)
LEMMA ShutdownKeeps ==
    ASSUME ReadInv, NEW how, Shutdown(how)
    PROVE  ReadInv'
  BY DEF ReadInv, Shutdown, peerVars

(* What leaves the reading side alone keeps its invariant. *)
LEMMA ReadSideKept ==
    ASSUME ReadInv, UNCHANGED readSide
    PROVE  ReadInv'
  BY DEF ReadInv, readSide, readVars

(* The invariant says what EofIsTheEnd does. *)
LEMMA ReadInvMeans ==
    ReadInv => EofIsTheEnd
<1>1. ReadInv => (inbound = << >> => got = SubSeq(Reply, 1, replied))
  BY ConcatEmptySeq DEF ReadInv
<1>2. QED
  BY <1>1 DEF ReadInv, EofIsTheEnd

(* No step of a program or of its peer breaks the invariant of reading.    *)
LEMMA ReadStep ==
    ReadInv /\ [Next]_vars => ReadInv'
<1>1. SUFFICES ASSUME ReadInv, [Next]_vars PROVE ReadInv'
  OBVIOUS
<1>2. CASE ProgramWrites
  BY <1>1, <1>2, ReadSideKept DEF ProgramWrites, StartWrite, readSide, peerVars, modeVars
<1>3. CASE ProgramReads
  <2>1. PICK limit \in Limits : Read(limit)
    BY <1>3 DEF ProgramReads
  <2>2. limit \in Nat
    BY IOAssumption
  <2>3. QED
    BY <1>1, <2>1, <2>2, ReadKeeps
<1>4. CASE ProgramShutsDown
  BY <1>1, <1>4, ShutdownKeeps DEF ProgramShutsDown
<1>5. CASE ProgramSetsBlocking
  BY <1>1, <1>5, ReadSideKept DEF ProgramSetsBlocking, SetBlocking, readSide, peerVars
<1>6. CASE Writing
  BY <1>1, <1>6, ReadSideKept DEF Writing, WriteTurn, readSide, peerVars, modeVars
<1>7. CASE Failing
  BY <1>1, <1>7, ReadSideKept DEF Failing, WriteThrows, readSide, peerVars, modeVars
<1>8. CASE Peer
  <2>1. CASE PeerTakes
    BY <1>1, <2>1, ReadSideKept DEF PeerTakes, readSide, modeVars
  <2>2. QED
    BY <1>1, <1>8, <2>1, SendKeeps, CloseKeeps DEF Peer
<1>9. CASE UNCHANGED vars
  BY <1>1, <1>9, ReadSideKept DEF vars, ioVars, readSide, peerVars, modeVars
<1>10. QED
  BY <1>1, <1>2, <1>3, <1>4, <1>5, <1>6, <1>7, <1>8, <1>9 DEF Next

(* For every reply, every size of the buffers and every mix of calls, read *)
(* sets _eof only when the peer has closed and all it sent has been read,  *)
(* unless the program has shut down reading itself.                        *)
THEOREM EofIsTheEndCorrect ==
    Spec => []EofIsTheEnd
<1>1. Init => ReadInv
  BY ReadStart DEF Init
<1>2. QED
  BY <1>1, ReadStep, ReadInvMeans, PTL DEF Spec

-----------------------------------------------------------------------------
(* The bytes that have left the program, taken by the peer or not. *)
Out == arrived \o outbound

(* How far write() has come: the rest of the data is what is left in the   *)
(* list of views, and the rest went out after the earlier bytes.           *)
Progress ==
    /\ earlier \in 0..Len(Out) /\ total \in 0..Len(data)
    /\ Out = SubSeq(Out, 1, earlier) \o SubSeq(data, 1, total)
    /\ Bytes(buffer) = From(data, total + 1)

(* The inductive invariant of writing.  WriteExact bears a step once the   *)
(* lengths are known: a turn cuts the list of views at n bytes, which      *)
(* removes n bytes only if there are so many (RemovePrefixIs).             *)
WriteInv ==
    /\ buffer \in Seq(Seq(Byte)) /\ data \in Seq(Byte) /\ write_all \in BOOLEAN
    /\ arrived \in Seq(Byte) /\ outbound \in Seq(Byte)
    /\ phase # "idle" => Progress
    /\ ReturnedWhole

(* The types of the invariant. *)
LEMMA WriteTyped ==
    ASSUME WriteInv
    PROVE  /\ Out \in Seq(Byte) /\ Len(Out) = Len(arrived) + Len(outbound)
           /\ {Len(Out), Len(data), Len(outbound), Len(arrived)} \subseteq Nat
           /\ Bytes(buffer) \in Seq(Byte) /\ Len(Bytes(buffer)) \in Nat
           /\ Size(buffer) = Len(Bytes(buffer))
<1>1. Out \in Seq(Byte) /\ Len(Out) = Len(arrived) + Len(outbound)
  BY ConcatProperties DEF WriteInv, Out
<1>2. Bytes(buffer) \in Seq(Byte) /\ Size(buffer) = Len(Bytes(buffer))
  BY BytesOfFew, SizeIs DEF WriteInv
<1>3. QED
  BY <1>1, <1>2, LenProperties DEF WriteInv

(* A prefix is made longer by the first bytes of what follows it.          *)
LEMMA LongerPrefix ==
    ASSUME NEW s \in Seq(Byte), NEW k \in 0..Len(s), NEW n \in 0..(Len(s) - k)
    PROVE  SubSeq(s, 1, k) \o SubSeq(From(s, k + 1), 1, n) = SubSeq(s, 1, k + n)
<1>1. Len(s) \in Nat /\ k \in Nat /\ n \in Nat
  BY LenProperties
<1>2. PICK r \in Seq(Byte), a \in Seq(Byte) : r = From(s, k + 1) /\ a = SubSeq(s, 1, k)
  <2>1. From(s, k + 1) \in Seq(Byte)
    BY Rest DEF From
  <2>2. SubSeq(s, 1, k) \in Seq(Byte)
    BY <1>1, Slice
  <2>3. QED
    BY <2>1, <2>2, Zenon
<1>3. Len(r) = Len(s) - k /\ \A i \in 1..(Len(s) - k) : r[i] = s[k + i]
  BY <1>2, Rest DEF From
<1>4. Len(a) = k /\ \A i \in 1..k : a[i] = s[i]
  BY <1>1, <1>2, Slice
<1>5. PICK b \in Seq(Byte) : b = SubSeq(r, 1, n) /\ Len(b) = n /\ \A i \in 1..n : b[i] = r[i]
  <2>1. 1 \in 1..(Len(r) + 1) /\ n \in (1 - 1)..Len(r) /\ n - 1 + 1 = n
    BY <1>1, <1>3
  <2>2. SubSeq(r, 1, n) \in Seq(Byte) /\ Len(SubSeq(r, 1, n)) = n /\ \A i \in 1..n : SubSeq(r, 1, n)[i] = r[i]
    BY <1>1, <1>3, <2>1, Slice
  <2>3. QED
    BY <2>2, Zenon
<1>6. PICK c \in Seq(Byte) : c = SubSeq(s, 1, k + n) /\ Len(c) = k + n /\ \A i \in 1..(k + n) : c[i] = s[i]
  <2>1. 1 \in 1..(Len(s) + 1) /\ k + n \in (1 - 1)..Len(s) /\ (k + n) - 1 + 1 = k + n
    BY <1>1
  <2>2. SubSeq(s, 1, k + n) \in Seq(Byte) /\ Len(SubSeq(s, 1, k + n)) = k + n /\ \A i \in 1..(k + n) : SubSeq(s, 1, k + n)[i] = s[i]
    BY <1>1, <2>1, Slice
  <2>3. QED
    BY <2>2, Zenon
<1>d. PICK d : d = a \o b
  OBVIOUS
<1>7. /\ d \in Seq(Byte) /\ Len(d) = k + n
      /\ \A i \in 1..(k + n) : d[i] = IF i <= k THEN a[i] ELSE b[i - k]
  <2>1. d \in Seq(Byte) /\ Len(d) = Len(a) + Len(b)
    BY <1>d, ConcatProperties
  <2>2. \A i \in 1..(Len(a) + Len(b)) : d[i] = IF i <= Len(a) THEN a[i] ELSE b[i - Len(a)]
    BY <1>d, ConcatProperties
  <2>3. Len(a) = k /\ Len(b) = n
    BY <1>4, <1>5
  <2>4. QED
    BY ONLY <2>1, <2>2, <2>3, Zenon
<1>8. ASSUME NEW i \in 1..(k + n) PROVE d[i] = c[i]
  <2>1. CASE i <= k
    <3>1. i \in 1..k
      BY <1>1, <2>1
    <3>2. QED
      BY <1>4, <1>6, <1>7, <2>1, <3>1, Zenon
  <2>2. CASE ~ (i <= k)
    <3>1. i - k \in 1..n /\ i - k \in 1..(Len(s) - k) /\ k + (i - k) = i
      BY <1>1, <2>2
    <3>2. d[i] = b[i - k] /\ c[i] = s[i]
      BY <1>6, <1>7, <2>2, Zenon
    <3>3. b[i - k] = r[i - k]
      BY <1>5, <3>1, Zenon
    <3>4. r[i - k] = s[i]
      BY <1>3, <3>1, Zenon
    <3>5. QED
      BY <3>2, <3>3, <3>4, Zenon
  <2>3. QED
    BY <2>1, <2>2
<1>9. c = d
  BY <1>6, <1>7, <1>8, SeqEqual
<1>10. QED
  BY <1>2, <1>5, <1>6, <1>d, <1>9, Zenon

(* A call of write() begins with nothing of its data written. *)
LEMMA StartKeeps ==
    ASSUME WriteInv, NEW payload \in Payloads, NEW all \in BOOLEAN, StartWrite(payload, all)
    PROVE  WriteInv'
<1>1. payload \in Seq(Seq(Byte))
  BY IOAssumption
<1>2. PICK d \in Seq(Byte) : d = Bytes(payload) /\ Len(d) \in Nat
  BY <1>1, BytesOfFew, LenProperties
<1>3. PICK o \in Seq(Byte) : o = Out /\ Len(o) = Len(arrived) + Len(outbound) /\ Len(o) \in Nat
  BY WriteTyped
<1>4. /\ buffer' = payload /\ write_all' = all /\ total' = 0 /\ phase' = "writing"
      /\ data' = d /\ earlier' = Len(o) /\ arrived' = arrived /\ outbound' = outbound
      /\ Out' = o
  BY <1>2, <1>3 DEF StartWrite, peerVars, Out
<1>5. From(d, 0 + 1) = d /\ SubSeq(d, 1, 0) = << >> /\ SubSeq(o, 1, Len(o)) = o /\ o \o << >> = o
  BY <1>2, <1>3, SubSeqFull, SubSeqEmpty, ConcatEmptySeq DEF From
<1>6. Progress'
  BY <1>2, <1>3, <1>4, <1>5 DEF Progress
<1>7. QED
  BY <1>1, <1>4, <1>6 DEF WriteInv, ReturnedWhole

(* A turn of the loop hands n bytes to the kernel, drops n bytes from the  *)
(* list and adds n to total_bytes_written; the loop is left when there is  *)
(* nothing more, or after one turn.                                        *)
LEMMA TurnKeeps ==
    ASSUME WriteInv, WriteTurn
    PROVE  WriteInv'
<1>1. PICK n \in WritevTakes :
        /\ outbound' = outbound \o SubSeq(Bytes(buffer), 1, n)
        /\ buffer' = RemovePrefix(buffer, n)
        /\ total' = total + n
  BY DEF WriteTurn
<1>2. /\ phase = "writing" /\ phase' = IF GoesOn(buffer') THEN "writing" ELSE "returned"
      /\ UNCHANGED <<write_all, data, earlier, arrived>>
  BY DEF WriteTurn, peerVars
<1>3. Progress
  BY <1>2 DEF WriteInv
<1>4. PICK o \in Seq(Byte), b \in Seq(Byte) :
        /\ o = Out /\ b = Bytes(buffer) /\ Len(o) \in Nat /\ Len(b) \in Nat
        /\ Size(buffer) = Len(b)
  BY WriteTyped
<1>5. n \in 0..Len(b) /\ (n = 0 => Len(b) = 0)
  <2>1. Room \in Nat /\ Len(outbound) \in Nat
    BY IOAssumption, WriteTyped
  <2>2. QED
    BY <1>4, <2>1 DEF WritevTakes, Lesser
<1>6. data \in Seq(Byte) /\ Len(data) \in Nat /\ total \in Nat /\ total <= Len(data) /\ earlier \in 0..Len(o)
  BY <1>3, <1>4, WriteTyped DEF WriteInv, Progress
<1>7. b = From(data, total + 1) /\ Len(b) = Len(data) - total
  BY <1>3, <1>4, <1>6, Rest DEF Progress, From
<1>8. PICK x \in Seq(Byte) : x = SubSeq(b, 1, n)
  <2>1. SubSeq(b, 1, n) \in Seq(Byte)
    BY <1>4, <1>5, Slice
  <2>2. QED
    BY <2>1, Zenon
<1>9. outbound' = outbound \o x /\ outbound' \in Seq(Byte) /\ Out' = o \o x
  <2>1. outbound' = outbound \o x /\ arrived' = arrived
    BY <1>1, <1>2, <1>4, <1>8
  <2>2. outbound \in Seq(Byte) /\ arrived \in Seq(Byte)
    BY DEF WriteInv
  <2>3. arrived \o (outbound \o x) = (arrived \o outbound) \o x
    <3>1. Associates(arrived, outbound, x)
      BY <2>2, Associative, Zenon
    <3>2. QED
      BY <3>1, Zenon DEF Associates
  <2>4. QED
    BY <1>4, <2>1, <2>2, <2>3, ConcatProperties DEF Out
<1>10. buffer' \in Seq(Seq(Byte)) /\ Bytes(buffer') = From(b, n + 1)
  <2>1. buffer \in Seq(Seq(Byte)) /\ n \in 0..Len(Bytes(buffer))
    BY <1>4, <1>5 DEF WriteInv
  <2>2. QED
    BY <1>1, <1>4, <2>1, RemovePrefixIs
<1>11. Bytes(buffer') = From(data, total' + 1) /\ total' \in 0..Len(data)
  <2>1. total \in 0..Len(data) /\ n \in 0..(Len(data) - total)
    BY <1>5, <1>6, <1>7
  <2>2. From(From(data, total + 1), n + 1) = From(data, (total + n) + 1)
    BY <1>6, <2>1, RestOfRest
  <2>3. QED
    BY <1>1, <1>6, <1>7, <1>10, <2>1, <2>2
<1>12. Out' = SubSeq(Out', 1, earlier) \o SubSeq(data, 1, total')
  <2>1. PICK p \in Seq(Byte), w \in Seq(Byte) : p = SubSeq(o, 1, earlier) /\ w = SubSeq(data, 1, total)
    <3>1. SubSeq(o, 1, earlier) \in Seq(Byte)
      BY <1>4, <1>6, Slice
    <3>2. SubSeq(data, 1, total) \in Seq(Byte)
      BY <1>6, Slice
    <3>3. QED
      BY <3>1, <3>2, Zenon
  <2>2. o = p \o w
    BY <1>3, <1>4, <2>1 DEF Progress
  <2>3. SubSeq(o \o x, 1, earlier) = p
    BY <1>6, <2>1, PrefixOfConcat
  <2>4. w \o x = SubSeq(data, 1, total + n)
    <3>1. total \in 0..Len(data) /\ n \in 0..(Len(data) - total)
      BY <1>5, <1>6, <1>7
    <3>2. QED
      BY <1>6, <1>7, <1>8, <2>1, <3>1, LongerPrefix
  <2>5. (p \o w) \o x = p \o (w \o x)
    <3>1. Associates(p, w, x)
      BY Associative, Zenon
    <3>2. QED
      BY <3>1, Zenon DEF Associates
  <2>6. QED
    BY <1>1, <1>9, <2>2, <2>3, <2>4, <2>5
<1>13. Progress'
  <2>1. Len(Out') = Len(o) + Len(x) /\ Len(x) \in Nat
    BY <1>9, ConcatProperties, LenProperties
  <2>2. earlier \in 0..Len(Out')
    BY <1>4, <1>6, <2>1
  <2>3. QED
    BY <1>2, <1>11, <1>12, <2>2 DEF Progress
<1>14. ReturnedWhole'
  <2>1. SUFFICES ASSUME phase' = "returned"
                 PROVE  IF write_all THEN total' = Len(data) ELSE total' > 0 \/ data = << >>
    BY <1>2 DEF ReturnedWhole
  <2>2. Size(buffer') = Len(data) - total'
    <3>1. Size(buffer') = Len(Bytes(buffer'))
      BY <1>10, SizeIs
    <3>2. QED
      BY <1>6, <1>11, <3>1, Rest DEF From
  <2>3. CASE write_all
    BY <1>2, <1>6, <1>11, <2>1, <2>2, <2>3 DEF GoesOn
  <2>4. CASE ~write_all
    <3>1. CASE total' = 0
      <4>1. n = 0 /\ total = 0
        BY <1>1, <1>5, <1>6, <3>1
      <4>2. Len(data) = 0
        BY <1>5, <1>6, <1>7, <4>1
      <4>3. QED
        BY <1>6, <2>4, <4>2, EmptySeq
    <3>2. QED
      BY <1>11, <2>4, <3>1
  <2>5. QED
    BY <2>3, <2>4
<1>15. QED
  BY <1>2, <1>9, <1>10, <1>13, <1>14 DEF WriteInv

(* What leaves the writing side alone keeps its invariant. *)
LEMMA WriteSideKept ==
    ASSUME WriteInv, UNCHANGED <<buffer, data, write_all, arrived, outbound, earlier, total, phase>>
    PROVE  WriteInv'
  BY DEF WriteInv, Progress, Out, ReturnedWhole

(* The peer takes bytes: those that have left the program stay the same.   *)
LEMMA TakesKeeps ==
    ASSUME WriteInv, PeerTakes
    PROVE  WriteInv'
<1>1. arrived \in Seq(Byte) /\ outbound \in Seq(Byte) /\ Len(outbound) \in Nat
  BY LenProperties DEF WriteInv
<1>2. PICK n \in 1..Len(outbound) :
        arrived' = arrived \o SubSeq(outbound, 1, n) /\ outbound' = From(outbound, n + 1)
  BY DEF PeerTakes
<1>3. n \in 0..Len(outbound)
  BY <1>1
<1>4. PICK x \in Seq(Byte), y \in Seq(Byte) :
        x = SubSeq(outbound, 1, n) /\ y = From(outbound, n + 1) /\ x \o y = outbound
  <2>1. SubSeq(outbound, 1, n) \in Seq(Byte)
    BY <1>1, <1>3, Slice
  <2>2. From(outbound, n + 1) \in Seq(Byte)
    BY <1>1, <1>3, Rest DEF From
  <2>3. SubSeq(outbound, 1, n) \o From(outbound, n + 1) = outbound
    BY <1>1, <1>3, CutAt DEF From
  <2>4. QED
    BY <2>1, <2>2, <2>3, Zenon
<1>5. arrived' \in Seq(Byte) /\ outbound' \in Seq(Byte)
  BY <1>1, <1>2, <1>4, ConcatProperties
<1>6. Out' = Out
  <2>1. (arrived \o x) \o y = arrived \o (x \o y)
    <3>1. Associates(arrived, x, y)
      BY <1>1, Associative, Zenon
    <3>2. QED
      BY <3>1, Zenon DEF Associates
  <2>2. QED
    BY <1>2, <1>4, <2>1 DEF Out
<1>7. UNCHANGED <<buffer, data, write_all, earlier, total, phase>>
  BY DEF PeerTakes
<1>8. Progress => Progress'
  BY <1>6, <1>7 DEF Progress
<1>9. QED
  BY <1>5, <1>7, <1>8 DEF WriteInv, ReturnedWhole

(* No step of a program or of its peer breaks the invariant of writing.    *)
LEMMA WriteStep ==
    WriteInv /\ [Next]_vars => WriteInv'
<1>1. SUFFICES ASSUME WriteInv, [Next]_vars PROVE WriteInv'
  OBVIOUS
<1>2. CASE ProgramWrites
  BY <1>1, <1>2, StartKeeps DEF ProgramWrites
<1>3. CASE ProgramReads
  BY <1>1, <1>3, WriteSideKept DEF ProgramReads, Read, writeVars, peerVars
<1>4. CASE ProgramShutsDown
  BY <1>1, <1>4 DEF ProgramShutsDown, Shutdown, WriteInv, ReturnedWhole, peerVars
<1>5. CASE ProgramSetsBlocking
  BY <1>1, <1>5, WriteSideKept DEF ProgramSetsBlocking, SetBlocking, writeVars, peerVars
<1>6. CASE Writing
  BY <1>1, <1>6, TurnKeeps DEF Writing
<1>7. CASE Failing
  <2>1. Progress /\ Progress' = Progress
    BY <1>1, <1>7 DEF Failing, WriteThrows, WriteInv, Progress, Out, peerVars
  <2>2. QED
    BY <1>1, <1>7, <2>1 DEF Failing, WriteThrows, WriteInv, ReturnedWhole, peerVars
<1>8. CASE Peer
  <2>1. CASE PeerSends
    BY <1>1, <2>1, WriteSideKept DEF PeerSends, writeVars
  <2>2. CASE PeerCloses
    BY <1>1, <2>2, WriteSideKept DEF PeerCloses, writeVars
  <2>3. QED
    BY <1>1, <1>8, <2>1, <2>2, TakesKeeps DEF Peer
<1>9. CASE UNCHANGED vars
  BY <1>1, <1>9, WriteSideKept DEF vars, ioVars, writeVars, peerVars
<1>10. QED
  BY <1>1, <1>2, <1>3, <1>4, <1>5, <1>6, <1>7, <1>8, <1>9 DEF Next

(* A descriptor on which nothing has been written. *)
LEMMA WriteStart ==
    Init => WriteInv
<1>1. << >> \in Seq(Byte) /\ << >> \in Seq(Seq(Byte))
  OBVIOUS
<1>2. QED
  BY <1>1 DEF Init, IOInit, WriteInv, ReturnedWhole

(* For every list of views, every room in the kernel and every interleaving*)
(* with the peer, total_bytes_written says how much of the data is out,    *)
(* also when an exception leaves write().                                  *)
THEOREM WriteExactCorrect ==
    Spec => []WriteExact
<1>1. WriteInv => WriteExact
  BY DEF WriteInv, Progress, WriteExact, Out
<1>2. QED
  BY <1>1, WriteStart, WriteStep, PTL DEF Spec

(* A write() that returns has written all of its data if it was asked to,  *)
(* else at least one byte of data that is not empty.                       *)
THEOREM ReturnedWholeCorrect ==
    Spec => []ReturnedWhole
<1>1. WriteInv => ReturnedWhole
  BY DEF WriteInv
<1>2. QED
  BY <1>1, WriteStart, WriteStep, PTL DEF Spec

-----------------------------------------------------------------------------
(* No call of write() is given 2^32 bytes or more, so that _write_count    *)
(* cannot come round to the same value within one call.                    *)
ShortWrites == Modulus > 1 /\ \A payload \in Payloads : Len(Bytes(payload)) < Modulus

(* The counter after t more calls of writev(), fewer than 2^32. *)
After(count, t) == IF count + t < Modulus THEN count + t ELSE (count + t) - Modulus

(* The inductive invariant of counting: write() has made t calls, no more  *)
(* than it has written bytes, but for the one that writes an empty string. *)
CountInv ==
    /\ write_count \in 0..(Modulus - 1) /\ before \in 0..(Modulus - 1)
    /\ phase # "idle" => Len(data) < Modulus
    /\ phase = "writing" => Len(data) = 0 \/ total < Len(data)
    /\ phase # "idle" =>
          \E t \in 0..(total + 1) :
             /\ write_count = After(before, t)
             /\ t = total + 1 => total = 0 /\ phase = "returned"
             /\ t = 0 <=> total = 0 /\ phase # "returned"

(* The counter goes up by one, and round to zero. *)
LEMMA NextCount ==
    ASSUME NEW w \in 0..(Modulus - 1)
    PROVE  /\ (w + 1) % Modulus = IF w + 1 = Modulus THEN 0 ELSE w + 1
           /\ (w + 0) % Modulus = w
  BY IOAssumption

(* One more call after t of them, as long as they are fewer than 2^32. *)
LEMMA OneMore ==
    ASSUME NEW b \in 0..(Modulus - 1), NEW t \in Nat, t + 1 < Modulus
    PROVE  (After(b, t) + 1) % Modulus = After(b, t + 1) /\ After(b, t) \in 0..(Modulus - 1)
<1>1. Modulus \in Nat
  BY IOAssumption
<1>2. PICK w \in 0..(Modulus - 1) : w = After(b, t)
  BY <1>1 DEF After
<1>3. (w + 1) % Modulus = IF w + 1 = Modulus THEN 0 ELSE w + 1
  BY NextCount
<1>4. (IF w + 1 = Modulus THEN 0 ELSE w + 1) = After(b, t + 1)
  BY <1>1, <1>2 DEF After
<1>5. QED
  BY <1>2, <1>3, <1>4

(* What is left to write, as size() counts it. *)
SizeIsLeft ==
    WriteInv /\ phase # "idle" =>
        /\ Len(data) \in Nat /\ total \in 0..Len(data)
        /\ Size(buffer) = Len(data) - total

(* It is the rest of the data. *)
LEMMA SizeLeft ==
    SizeIsLeft
<1>1. SUFFICES ASSUME WriteInv, phase # "idle"
               PROVE  /\ Len(data) \in Nat /\ total \in 0..Len(data)
                      /\ Size(buffer) = Len(data) - total
  BY DEF SizeIsLeft
<1>2. data \in Seq(Byte) /\ total \in 0..Len(data) /\ Bytes(buffer) = From(data, total + 1)
  BY <1>1 DEF WriteInv, Progress
<1>3. Len(From(data, total + 1)) = Len(data) - total
  BY <1>2, Rest DEF From
<1>4. QED
  BY <1>1, <1>2, <1>3, WriteTyped, LenProperties

(* No more calls than bytes, one of them just now. *)
LEMMA CallsFit ==
    ASSUME NEW q \in Nat, NEW v \in Nat, q + 1 <= v
    PROVE  q + 1 \in 0..(v + 1) /\ q + 1 # 0 /\ q + 1 # v + 1
  OBVIOUS

(* A turn of the loop counts one call of writev(), and writes at least one *)
(* byte unless there is none.                                              *)
LEMMA TurnCounts ==
    ASSUME ShortWrites, WriteInv, CountInv, WriteTurn
    PROVE  CountInv'
<1>1. phase = "writing" /\ data' = data /\ before' = before
  BY DEF WriteTurn
<1>2. PICK m \in Nat : m = Len(data) /\ total \in 0..m /\ Size(buffer) = m - total
  BY <1>1, SizeLeft DEF SizeIsLeft
<1>3. PICK n \in WritevTakes : RegisterWrite(n) /\ total' = total + n
  BY DEF WriteTurn
<1>4. n \in Nat /\ (n = 0 => m = total)
  <2>1. Room \in Nat /\ Len(outbound) \in Nat
    BY IOAssumption, WriteTyped
  <2>2. QED
    BY <1>2, <2>1 DEF WritevTakes, Lesser
<1>5. phase' = IF GoesOn(buffer') THEN "writing" ELSE "returned"
  BY DEF WriteTurn
<1>6. total' \in 0..m /\ Size(buffer') = m - total'
  <2>1. WriteInv'
    BY TurnKeeps
  <2>2. SizeIsLeft'
    BY SizeLeft, PTL
  <2>3. phase' # "idle"
    BY <1>5
  <2>4. QED
    BY <1>1, <1>2, <2>1, <2>2, <2>3 DEF SizeIsLeft
<1>7. PICK t \in 0..(total + 1) :
        /\ write_count = After(before, t)
        /\ t = total + 1 => total = 0 /\ phase = "returned"
        /\ t = 0 <=> total = 0 /\ phase # "returned"
  BY <1>1 DEF CountInv
<1>8. t \in 0..total /\ (t = 0 <=> total = 0) /\ m < Modulus /\ (m = 0 \/ total < m)
  BY <1>1, <1>2, <1>7 DEF CountInv
<1>9. t + 1 < Modulus
  <2>1. CASE m = 0
    BY <1>2, <1>8, <2>1, IOAssumption DEF ShortWrites
  <2>2. CASE total < m
    BY <1>2, <1>8, <2>2, IOAssumption
  <2>3. QED
    BY <1>8, <2>1, <2>2
<1>10. write_count' = After(before, t + 1) /\ write_count' \in 0..(Modulus - 1)
  <2>1. before \in 0..(Modulus - 1) /\ t \in Nat
    BY <1>2, <1>8 DEF CountInv
  <2>2. write_count' = After(before, t + 1)
    BY <1>3, <1>7, <1>9, <2>1, OneMore DEF RegisterWrite
  <2>3. After(before, t + 1) \in 0..(Modulus - 1)
    BY <1>9, <2>1, IOAssumption DEF After
  <2>4. QED
    BY <2>2, <2>3
<1>11. phase' = "writing" => m = 0 \/ total' < m
  BY <1>2, <1>5, <1>6 DEF GoesOn
<1>12. \E u \in 0..(total' + 1) :
          /\ write_count' = After(before', u)
          /\ u = total' + 1 => total' = 0 /\ phase' = "returned"
          /\ u = 0 <=> total' = 0 /\ phase' # "returned"
  <2>1. CASE n = 0
    <3>1. m = 0 /\ total = 0 /\ t = 0 /\ total' = 0
      BY <1>2, <1>3, <1>4, <1>8, <2>1
    <3>2. phase' = "returned"
      BY <1>5, <1>6, <3>1 DEF GoesOn
    <3>3. QED
      BY <1>1, <1>10, <3>1, <3>2
  <2>2. CASE n # 0
    <3>1. t + 1 \in 1..total' /\ total' # 0 /\ total' \in Nat
      BY <1>2, <1>3, <1>4, <1>8, <2>2
    <3>2. PICK u \in 0..(total' + 1) : u = t + 1 /\ u # 0 /\ u # total' + 1
      <4>1. t + 1 \in 0..(total' + 1) /\ t + 1 # 0 /\ t + 1 # total' + 1
        <5>1. PICK q \in Nat, v \in Nat : q = t /\ v = total' /\ q + 1 <= v
          BY <1>2, <1>8, <3>1
        <5>2. q + 1 \in 0..(v + 1) /\ q + 1 # 0 /\ q + 1 # v + 1
          BY <5>1, CallsFit, Zenon
        <5>3. QED
          BY <5>1, <5>2, Zenon
      <4>2. QED
        BY <4>1, Zenon
    <3>3. QED
      BY <1>1, <1>10, <3>1, <3>2, Zenon
  <2>3. QED
    BY <2>1, <2>2
<1>13. /\ before' \in 0..(Modulus - 1) /\ Len(data') < Modulus
       /\ phase' = "writing" => Len(data') = 0 \/ total' < Len(data')
  BY <1>1, <1>2, <1>8, <1>11 DEF CountInv
<1>14. QED
  BY <1>10, <1>12, <1>13 DEF CountInv

(* What leaves the counter and the call of write() alone. *)
LEMMA CountSideKept ==
    ASSUME CountInv, UNCHANGED <<write_count, before, data, total, phase>>
    PROVE  CountInv'
  BY DEF CountInv

(* A call of write() begins with no call of writev(). *)
LEMMA StartCounts ==
    ASSUME ShortWrites, CountInv, NEW payload \in Payloads, NEW all \in BOOLEAN, StartWrite(payload, all)
    PROVE  CountInv'
<1>1. /\ total' = 0 /\ phase' = "writing" /\ data' = Bytes(payload)
      /\ before' = write_count /\ write_count' = write_count
  BY DEF StartWrite
<1>2. PICK m \in Nat : m = Len(Bytes(payload)) /\ m < Modulus
  <2>1. Bytes(payload) \in Seq(Byte)
    BY IOAssumption, BytesOfFew
  <2>2. QED
    BY <2>1, LenProperties DEF ShortWrites
<1>3. PICK w \in 0..(Modulus - 1) : w = write_count
  BY DEF CountInv
<1>4. w = After(w, 0)
  BY IOAssumption DEF After
<1>5. \E t \in 0..(0 + 1) : w = After(w, t) /\ t = 0
  BY <1>4
<1>6. QED
  BY <1>1, <1>2, <1>3, <1>5 DEF CountInv

(* An exception leaves write() with the counts as they are. *)
LEMMA ThrowCounts ==
    ASSUME CountInv, WriteThrows
    PROVE  CountInv'
<1>1. /\ phase = "writing" /\ phase' = "threw"
      /\ UNCHANGED <<write_count, before, data, total>>
  BY DEF WriteThrows
<1>2. PICK t \in 0..(total + 1) :
        /\ write_count = After(before, t)
        /\ t = total + 1 => total = 0 /\ phase = "returned"
        /\ t = 0 <=> total = 0 /\ phase # "returned"
  BY <1>1 DEF CountInv
<1>3. \E u \in 0..(total' + 1) :
          /\ write_count' = After(before', u)
          /\ u = total' + 1 => total' = 0 /\ phase' = "returned"
          /\ u = 0 <=> total' = 0 /\ phase' # "returned"
  BY <1>1, <1>2, Zenon
<1>4. QED
  BY <1>1, <1>3 DEF CountInv

(* shutdown() counts once, and ends the history of the last write(). *)
LEMMA ShutdownCounts ==
    ASSUME CountInv, NEW how, Shutdown(how)
    PROVE  CountInv'
<1>1. PICK w \in 0..(Modulus - 1) : w = write_count
  BY DEF CountInv
<1>2. write_count' = (w + 1) % Modulus \/ write_count' = (w + 0) % Modulus
  BY <1>1 DEF Shutdown
<1>3. write_count' \in 0..(Modulus - 1)
  <2>1. (IF w + 1 = Modulus THEN 0 ELSE w + 1) \in 0..(Modulus - 1)
    BY IOAssumption
  <2>2. QED
    BY <1>2, <2>1, NextCount
<1>4. QED
  BY <1>3 DEF CountInv, Shutdown

(* No step breaks the invariant of counting. *)
LEMMA CountStep ==
    ASSUME ShortWrites
    PROVE  WriteInv /\ CountInv /\ [Next]_vars => CountInv'
<1>1. SUFFICES ASSUME WriteInv, CountInv, [Next]_vars PROVE CountInv'
  OBVIOUS
<1>2. CASE ProgramWrites
  BY <1>1, <1>2, StartCounts DEF ProgramWrites
<1>3. CASE ProgramReads
  BY <1>1, <1>3, CountSideKept DEF ProgramReads, Read, writeVars
<1>4. CASE ProgramShutsDown
  BY <1>1, <1>4, ShutdownCounts DEF ProgramShutsDown
<1>5. CASE ProgramSetsBlocking
  BY <1>1, <1>5, CountSideKept DEF ProgramSetsBlocking, SetBlocking, writeVars
<1>6. CASE Writing
  BY <1>1, <1>6, TurnCounts DEF Writing
<1>7. CASE Failing
  BY <1>1, <1>7, ThrowCounts DEF Failing
<1>8. CASE Peer
  BY <1>1, <1>8, CountSideKept DEF Peer, PeerTakes, PeerSends, PeerCloses, writeVars
<1>9. CASE UNCHANGED vars
  BY <1>1, <1>9, CountSideKept DEF vars, ioVars, writeVars
<1>10. QED
  BY <1>1, <1>2, <1>3, <1>4, <1>5, <1>6, <1>7, <1>8, <1>9 DEF Next

(* A counter that has gone up by less than 2^32 is not the same.           *)
LEMMA Moved ==
    ASSUME NEW b \in 0..(Modulus - 1), NEW t \in Nat, t < Modulus
    PROVE  After(b, t) = b <=> t = 0
<1>1. Modulus \in Nat
  BY IOAssumption
<1>2. QED
  BY <1>1 DEF After

(* If no string of 2^32 bytes is written at once, write_count tells        *)
(* whether write() has written something, when it returns and when an      *)
(* exception leaves it, for any room in the kernel and any number of calls *)
(* of writev(), and although the counter itself may wrap.                  *)
THEOREM WriteCountedCorrect ==
    ASSUME ShortWrites
    PROVE  Spec => []WriteCounted
<1>1. Init => CountInv
  BY IOAssumption DEF Init, IOInit, CountInv
<1>2. WriteInv /\ CountInv => WriteCounted
  <2>1. SUFFICES ASSUME WriteInv, CountInv, phase = "returned" \/ phase = "threw"
                 PROVE  write_count # before <=> (phase = "returned" \/ total > 0)
    BY DEF WriteCounted
  <2>2. PICK m \in Nat : m = Len(data) /\ m < Modulus /\ total \in 0..m
    BY <2>1, SizeLeft DEF SizeIsLeft, CountInv
  <2>3. PICK t \in 0..(total + 1) :
          /\ write_count = After(before, t)
          /\ t = total + 1 => total = 0 /\ phase = "returned"
          /\ t = 0 <=> total = 0 /\ phase # "returned"
    BY <2>1 DEF CountInv
  <2>4. t \in Nat /\ t < Modulus
    BY <2>2, <2>3, IOAssumption DEF ShortWrites
  <2>5. write_count = before <=> t = 0
    BY <2>1, <2>3, <2>4, Moved DEF CountInv
  <2>6. total > 0 <=> total # 0
    BY <2>2
  <2>7. QED
    BY <2>1, <2>3, <2>5, <2>6
<1>3. WriteInv /\ CountInv /\ [Next]_vars => CountInv'
  BY CountStep
<1>4. QED
  BY <1>1, <1>2, <1>3, WriteStart, WriteStep, PTL DEF Spec

(* All calls of write() together make fewer than 2^32 calls of writev(),   *)
(* each of them at most as many as the longest string has bytes.           *)
FewCalls(L) ==
    /\ L \in Nat /\ L >= 1 /\ MaxCalls * L < Modulus
    /\ \A payload \in Payloads : Len(Bytes(payload)) <= L

(* The calls of writev() that a write() has left to make, at most. *)
CallsLeft == IF Len(data) = 0 THEN 1 ELSE Len(data) - total

(* The inductive invariant of the two counters: neither has come round, so *)
(* that what shutdown() counted is still to be seen.                       *)
CounterInv(L) ==
    /\ calls \in 0..MaxCalls /\ write_count \in Nat
    /\ IF phase = "writing" THEN write_count + CallsLeft <= calls * L ELSE write_count <= calls * L
    /\ read_count \in 0..MaxCalls
    /\ "RD" \in shut => read_count > 0
    /\ "WR" \in shut => write_count > 0

(* The bound on the counter, before and after one more call. *)
LEMMA CallsBound ==
    ASSUME NEW L, FewCalls(L), NEW c \in 0..MaxCalls
    PROVE  /\ c * L \in Nat /\ c * L < Modulus /\ (c + 1) * L = c * L + L /\ L \in Nat /\ L >= 1
           /\ c < MaxCalls => c * L + L < Modulus
<1>1. L \in Nat /\ L >= 1 /\ MaxCalls \in Nat /\ Modulus \in Nat /\ MaxCalls * L < Modulus /\ MaxCalls * L \in Nat
  BY IOAssumption DEF FewCalls
<1>2. PICK p \in Nat : p = c * L /\ (c + 1) * L = p + L
  BY <1>1
<1>3. MaxCalls * L >= p
  BY <1>1, <1>2, TimesAtLeast
<1>4. c < MaxCalls => MaxCalls * L >= p + L
  <2>1. ASSUME c < MaxCalls PROVE MaxCalls * L >= (c + 1) * L
    <3>1. c + 1 \in Int /\ MaxCalls \in Int /\ MaxCalls >= c + 1
      BY <1>1, <2>1
    <3>2. QED
      BY <1>1, <3>1, TimesAtLeast
  <2>2. QED
    BY <1>2, <2>1
<1>5. QED
  BY <1>1, <1>2, <1>3, <1>4

(* A counter that has not come to 2^32 goes up by one. *)
LEMMA GoesUp ==
    ASSUME NEW w \in Nat, w + 1 < Modulus
    PROVE  (w + 1) % Modulus = w + 1 /\ (w + 0) % Modulus = w
<1>1. w \in 0..(Modulus - 1)
  BY IOAssumption
<1>2. QED
  BY <1>1, NextCount

(* What leaves the counters and the call of write() alone. *)
LEMMA CountersKept ==
    ASSUME NEW L, CounterInv(L), UNCHANGED <<write_count, read_count, calls, data, total, phase, shut>>
    PROVE  CounterInv(L)'
  BY DEF CounterInv, CallsLeft

(* write() begins: its calls of writev() are still to come. *)
LEMMA StartBound ==
    ASSUME NEW L, FewCalls(L), CounterInv(L), ProgramWrites
    PROVE  CounterInv(L)'
<1>1. PICK payload \in Payloads, all \in BOOLEAN : StartWrite(payload, all)
  BY DEF ProgramWrites
<1>2. /\ total' = 0 /\ phase' = "writing" /\ data' = Bytes(payload) /\ write_count' = write_count
      /\ phase # "writing" /\ calls < MaxCalls /\ calls' = calls + 1 /\ read_count' = read_count /\ shut' = shut
  BY <1>1 DEF StartWrite, ProgramWrites, readVars, modeVars
<1>3. PICK m \in Nat : m = Len(Bytes(payload)) /\ m <= L
  <2>1. Bytes(payload) \in Seq(Byte)
    BY IOAssumption, BytesOfFew
  <2>2. QED
    BY <2>1, LenProperties DEF FewCalls
<1>4. PICK c \in 0..MaxCalls, w \in Nat : c = calls /\ w = write_count /\ w <= c * L
  BY <1>2 DEF CounterInv
<1>5. c * L \in Nat /\ (c + 1) * L = c * L + L /\ L \in Nat /\ L >= 1
  BY CallsBound
<1>6. CallsLeft' <= L /\ CallsLeft' \in Nat
  BY <1>2, <1>3, <1>5 DEF CallsLeft
<1>7. w + CallsLeft' <= (c + 1) * L
  <2>1. PICK k \in Nat, p \in Nat : k = CallsLeft' /\ p = c * L /\ (c + 1) * L = p + L /\ w <= p /\ k <= L
    BY <1>4, <1>5, <1>6, Zenon
  <2>2. w <= p /\ k <= L /\ L \in Nat
    BY <1>5, <2>1, Zenon
  <2>3. w + k <= p + L
    BY ONLY <2>2, w \in Nat, k \in Nat, p \in Nat
  <2>4. QED
    BY <2>1, <2>3, Zenon
<1>8. calls' \in 0..MaxCalls
  BY <1>2, <1>4, IOAssumption
<1>9. QED
  BY <1>2, <1>4, <1>7, <1>8 DEF CounterInv

(* A turn of the loop makes one of them. *)
LEMMA TurnBound ==
    ASSUME NEW L, FewCalls(L), WriteInv, WriteInv', CountInv, CounterInv(L), WriteTurn, UNCHANGED calls
    PROVE  CounterInv(L)'
<1>1. phase = "writing" /\ data' = data /\ read_count' = read_count /\ shut' = shut
  BY DEF WriteTurn, readVars, modeVars
<1>2. PICK m \in Nat : m = Len(data) /\ total \in 0..m /\ Size(buffer) = m - total
  BY <1>1, SizeLeft DEF SizeIsLeft
<1>3. PICK n \in WritevTakes : RegisterWrite(n) /\ total' = total + n
  BY DEF WriteTurn
<1>4. n \in Nat /\ (n = 0 => m = total)
  <2>1. Room \in Nat /\ Len(outbound) \in Nat
    BY IOAssumption, WriteTyped
  <2>2. QED
    BY <1>2, <2>1 DEF WritevTakes, Lesser
<1>5. phase' = IF GoesOn(buffer') THEN "writing" ELSE "returned"
  BY DEF WriteTurn
<1>6. total' \in 0..m /\ Size(buffer') = m - total'
  <2>1. SizeIsLeft'
    BY SizeLeft, PTL
  <2>2. phase' # "idle"
    BY <1>5
  <2>3. QED
    BY <1>1, <1>2, <2>1, <2>2 DEF SizeIsLeft
<1>7. m = 0 \/ total < m
  BY <1>1, <1>2 DEF CountInv
<1>8. PICK c \in 0..MaxCalls, w \in Nat : c = calls /\ w = write_count /\ w + CallsLeft <= c * L
  BY <1>1 DEF CounterInv
<1>9. c * L \in Nat /\ c * L < Modulus
  BY CallsBound
<1>10. PICK k \in Nat : k = CallsLeft /\ k >= 1 /\ (k = IF m = 0 THEN 1 ELSE m - total)
  <2>1. PICK k : k = IF m = 0 THEN 1 ELSE m - total
    OBVIOUS
  <2>2. k \in Nat /\ k >= 1
    BY <1>2, <1>7, <2>1
  <2>3. k = CallsLeft
    BY <1>2, <2>1, Zenon DEF CallsLeft
  <2>4. QED
    BY <2>1, <2>2, <2>3, Zenon
<1>11. w + 1 < Modulus /\ write_count' = w + 1
  <2>1. w + 1 < Modulus
    BY <1>8, <1>9, <1>10, IOAssumption
  <2>2. QED
    BY <1>3, <1>8, <2>1, GoesUp DEF RegisterWrite
<1>12. phase' # "writing" => write_count' <= calls' * L
  BY <1>8, <1>9, <1>10, <1>11
<1>13. ASSUME phase' = "writing" PROVE write_count' + CallsLeft' <= calls' * L
  <2>1. total' < m /\ n >= 1 /\ m > 0
    <3>1. m - total' # 0
      BY <1>5, <1>6, <1>13 DEF GoesOn
    <3>2. QED
      BY <1>2, <1>3, <1>4, <1>6, <3>1
  <2>2. CallsLeft' = m - total'
    BY <1>1, <1>2, <2>1 DEF CallsLeft
  <2>3. k = m - total /\ total' = total + n
    BY <1>3, <1>10, <2>1
  <2>4. QED
    BY <1>2, <1>4, <1>6, <1>8, <1>9, <1>10, <1>11, <2>1, <2>2, <2>3
<1>14. QED
  BY <1>1, <1>8, <1>11, <1>12, <1>13 DEF CounterInv

(* shutdown() counts once in each direction that it closes. *)
LEMMA ShutdownBound ==
    ASSUME NEW L, FewCalls(L), CounterInv(L), ProgramShutsDown
    PROVE  CounterInv(L)'
<1>1. PICK how \in {"RD", "WR", "RDWR"} : Shutdown(how)
  BY DEF ProgramShutsDown
<1>2. /\ phase # "writing" /\ phase' # "writing" /\ calls < MaxCalls /\ calls' = calls + 1 /\ read_count < MaxCalls
      /\ shut' = shut \cup Directions(how)
      /\ read_count' = (read_count + (IF "RD" \in Directions(how) THEN 1 ELSE 0)) % Modulus
      /\ write_count' = (write_count + (IF "WR" \in Directions(how) THEN 1 ELSE 0)) % Modulus
  BY <1>1 DEF Shutdown, ProgramShutsDown
<1>3. PICK c \in 0..MaxCalls, w \in Nat, r \in 0..MaxCalls :
         c = calls /\ w = write_count /\ r = read_count /\ w <= c * L
  BY <1>2 DEF CounterInv
<1>4. /\ c * L \in Nat /\ (c + 1) * L = c * L + L /\ L \in Nat /\ L >= 1 /\ c * L + L < Modulus
  BY <1>2, <1>3, CallsBound
<1>5. w + 1 < Modulus /\ r + 1 < Modulus /\ r \in Nat
  BY <1>2, <1>3, <1>4, IOAssumption
<1>6. write_count' = IF "WR" \in Directions(how) THEN w + 1 ELSE w
  BY <1>2, <1>3, <1>5, GoesUp
<1>7. read_count' = IF "RD" \in Directions(how) THEN r + 1 ELSE r
  BY <1>2, <1>3, <1>5, GoesUp
<1>8. /\ write_count' \in Nat /\ write_count' <= calls' * L /\ calls' \in 0..MaxCalls /\ read_count' \in 0..MaxCalls
  BY <1>2, <1>3, <1>4, <1>6, <1>7, IOAssumption
<1>9. /\ "RD" \in shut' => read_count' > 0
      /\ "WR" \in shut' => write_count' > 0
  BY <1>2, <1>3, <1>6, <1>7 DEF CounterInv
<1>10. QED
  BY <1>2, <1>8, <1>9 DEF CounterInv

(* No step breaks the invariant of the counters. *)
LEMMA CounterStep ==
    ASSUME NEW L, FewCalls(L)
    PROVE  WriteInv /\ WriteInv' /\ CountInv /\ CounterInv(L) /\ [Next]_vars => CounterInv(L)'
<1>1. SUFFICES ASSUME WriteInv, WriteInv', CountInv, CounterInv(L), [Next]_vars PROVE CounterInv(L)'
  OBVIOUS
<1>2. CASE ProgramWrites
  BY <1>1, <1>2, StartBound
<1>3. CASE ProgramReads
  <2>1. /\ UNCHANGED <<write_count, calls, data, total, phase, shut>> /\ phase # "writing"
        /\ read_count' = (read_count + 1) % Modulus /\ read_count < MaxCalls
    BY <1>3 DEF ProgramReads, Read, writeVars, modeVars
  <2>2. PICK r \in 0..MaxCalls : r = read_count
    BY <1>1 DEF CounterInv
  <2>3. read_count' = r + 1 /\ r + 1 \in 0..MaxCalls /\ r + 1 > 0
    <3>1. r \in Nat /\ r + 1 < Modulus /\ r + 1 \in 0..MaxCalls /\ r + 1 > 0
      BY <2>1, <2>2, IOAssumption
    <3>2. (r + 1) % Modulus = r + 1
      BY <3>1, GoesUp
    <3>3. QED
      BY <2>1, <2>2, <3>1, <3>2, Zenon
  <2>4. QED
    BY <1>1, <2>1, <2>3 DEF CounterInv
<1>4. CASE ProgramShutsDown
  BY <1>1, <1>4, ShutdownBound
<1>5. CASE ProgramSetsBlocking
  BY <1>1, <1>5, CountersKept DEF ProgramSetsBlocking, SetBlocking, writeVars, readVars
<1>6. CASE Writing
  BY <1>1, <1>6, TurnBound DEF Writing
<1>7. CASE Failing
  <2>1. phase = "writing" /\ phase' # "writing" /\ UNCHANGED <<write_count, read_count, calls, data, total, shut>>
    BY <1>7 DEF Failing, WriteThrows, readVars, modeVars
  <2>2. PICK c \in 0..MaxCalls, w \in Nat : c = calls /\ w = write_count /\ w + CallsLeft <= c * L
    BY <1>1, <2>1 DEF CounterInv
  <2>3. CallsLeft \in Nat
    BY <1>1, <2>1, SizeLeft DEF CallsLeft, SizeIsLeft
  <2>4. c * L \in Nat
    BY CallsBound
  <2>5. w <= c * L
    BY <2>2, <2>3, <2>4
  <2>6. QED
    BY <1>1, <2>1, <2>2, <2>5 DEF CounterInv
<1>8. CASE Peer
  BY <1>1, <1>8, CountersKept DEF Peer, PeerTakes, PeerSends, PeerCloses, writeVars, readVars, modeVars
<1>9. CASE UNCHANGED vars
  BY <1>1, <1>9, CountersKept DEF vars, ioVars, writeVars, readVars, modeVars
<1>10. QED
  BY <1>1, <1>2, <1>3, <1>4, <1>5, <1>6, <1>7, <1>8, <1>9 DEF Next

(* If the program makes fewer than 2^32 calls of writev() in all, the      *)
(* counters tell what EventLoop asks them: whether write() has written     *)
(* something, and that a direction which was shut down has been serviced.  *)
THEOREM CountTellsProgressCorrect ==
    ASSUME ShortWrites, NEW L, FewCalls(L)
    PROVE  Spec => []CountTellsProgress
<1>1. Init => CountInv /\ CounterInv(L)
  <2>1. SUFFICES ASSUME Init PROVE CountInv /\ CounterInv(L)
    OBVIOUS
  <2>2. CountInv
    BY <2>1, IOAssumption DEF Init, IOInit, CountInv
  <2>3. 0 * L = 0
    BY DEF FewCalls
  <2>4. QED
    BY <2>1, <2>2, <2>3, IOAssumption DEF Init, IOInit, CounterInv
<1>2. WriteInv /\ CountInv /\ [Next]_vars => CountInv'
  BY CountStep
<1>3. WriteInv /\ WriteInv' /\ CountInv /\ CounterInv(L) /\ [Next]_vars => CounterInv(L)'
  BY CounterStep
<1>4. Spec => []WriteCounted
  BY WriteCountedCorrect
<1>5. CounterInv(L) /\ WriteCounted => CountTellsProgress
  BY DEF CounterInv, CountTellsProgress
<1>6. QED
  BY <1>1, <1>2, <1>3, <1>4, <1>5, WriteStart, WriteStep, PTL DEF Spec

-----------------------------------------------------------------------------
(* The inductive invariant of webget: what is printed is what was read,    *)
(* and the server, which never shuts down early, closes after its reply.   *)
GetInv ==
    /\ ReadInv
    /\ output = got /\ shut = {}
    /\ peer_closed => replied = Len(Reply)
    /\ client = "done" => eof

(* webget starts with nothing read or printed. *)
LEMMA GetStart ==
    GetInit => GetInv
  BY ReadStart DEF GetInit, GetInv, IOInit

(* No step of webget or of its server breaks the invariant. *)
LEMMA GetStep ==
    GetInv /\ [GetNext]_getVars => GetInv'
<1>1. SUFFICES ASSUME GetInv, [GetNext]_getVars PROVE GetInv'
  OBVIOUS
<1>2. ReadInv
  BY <1>1 DEF GetInv
<1>3. CASE UNCHANGED <<readSide, client, output>>
  BY <1>1, <1>2, <1>3, ReadSideKept DEF GetInv, readSide, readVars
<1>4. CASE Connect
  <2>1. UNCHANGED <<readSide, output>> /\ client' = "asking"
    BY <1>4 DEF Connect, Ask, StartWrite, readSide, peerVars, modeVars
  <2>2. QED
    BY <1>1, <1>2, <2>1, ReadSideKept DEF GetInv, readSide, readVars
<1>5. CASE Asking
  <2>1. UNCHANGED <<readSide, output>> /\ client' # "done"
    BY <1>5 DEF Asking, WriteTurn, readSide, peerVars, modeVars
  <2>2. QED
    BY <1>1, <1>2, <2>1, ReadSideKept DEF GetInv, readSide, readVars
<1>6. CASE PrintMore
  <2>1. Read(NoLimit) /\ NoLimit \in Nat
    BY <1>6, ReadConstants DEF PrintMore, NoLimit
  <2>2. ReadInv' /\ got' = got \o From(got', Len(got) + 1)
    BY <1>2, <2>1, ReadKeeps
  <2>3. /\ output' = output \o From(got', Len(got) + 1) /\ client' = client
        /\ client = "printing" /\ UNCHANGED <<shut, peer_closed, replied>>
    BY <1>6 DEF PrintMore, Read, peerVars, modeVars
  <2>4. QED
    BY <1>1, <2>2, <2>3 DEF GetInv
<1>7. CASE Finish
  <2>1. UNCHANGED <<readSide, output>> /\ eof
    BY <1>7 DEF Finish, AtTheEnd, ioVars, readSide, peerVars, modeVars
  <2>2. QED
    BY <1>1, <1>2, <2>1, ReadSideKept DEF GetInv, readSide, readVars
<1>8. CASE Fail
  <2>1. UNCHANGED <<readSide, output>> /\ client' = "failed"
    BY <1>8 DEF Fail, WriteThrows, ioVars, readSide, peerVars, modeVars
  <2>2. QED
    BY <1>1, <1>2, <2>1, ReadSideKept DEF GetInv, readSide, readVars
<1>9. CASE ServerTakes
  BY <1>3, <1>9 DEF ServerTakes, PeerTakes, clientVars, readSide, modeVars
<1>10. CASE ServerReplies
  <2>1. UNCHANGED <<client, output>>
    BY <1>10 DEF ServerReplies, clientVars
  <2>2. CASE PeerSends
    BY <1>1, <1>2, <2>1, <2>2, SendKeeps DEF GetInv, PeerSends, modeVars
  <2>3. CASE replied = Len(Reply) /\ PeerCloses
    BY <1>1, <1>2, <2>1, <2>3, CloseKeeps DEF GetInv, PeerCloses, readVars, modeVars
  <2>4. QED
    BY <1>10, <2>2, <2>3 DEF ServerReplies
<1>11. CASE Breaks
  BY <1>3, <1>11 DEF Breaks, ioVars, readSide, peerVars, modeVars
<1>12. CASE UNCHANGED getVars
  BY <1>3, <1>12 DEF getVars, clientVars, ioVars, readSide, peerVars, modeVars
<1>13. QED
  BY <1>1, <1>4, <1>5, <1>6, <1>7, <1>8, <1>9, <1>10, <1>11, <1>12
     DEF GetNext, Client, Terminated

(* For every request, every reply and every size of the pieces, webget     *)
(* prints a prefix of the reply, and all of it when it succeeds.           *)
THEOREM PrintsEverythingCorrect ==
    GetSpec => []PrintsEverything
<1>1. GetInv => PrintsEverything
  <2>1. SUFFICES ASSUME GetInv PROVE PrintsEverything
    OBVIOUS
  <2>2. /\ got \in Seq(Byte) /\ inbound \in Seq(Byte) /\ replied \in 0..Len(Reply)
        /\ got \o inbound = SubSeq(Reply, 1, replied) /\ output = got
    BY <2>1 DEF GetInv, ReadInv
  <2>3. output = SubSeq(Reply, 1, Len(output))
    <3>1. PICK n \in Nat : n = Len(got) /\ n \in 0..Len(got)
      BY <2>2, LenProperties
    <3>2. SubSeq(got \o inbound, 1, n) = SubSeq(got, 1, n) /\ SubSeq(got, 1, n) = got
      BY <2>2, <3>1, PrefixOfConcat, SubSeqFull
    <3>3. PICK r \in Seq(Byte) : r = SubSeq(Reply, 1, replied) /\ Len(r) = replied
      <4>1. SubSeq(Reply, 1, replied) \in Seq(Byte) /\ Len(SubSeq(Reply, 1, replied)) = replied
        BY <2>2, ReadConstants, Slice
      <4>2. QED
        BY <4>1, Zenon
    <3>4. n <= replied
      BY <2>2, <3>1, <3>3, ConcatProperties, LenProperties
    <3>5. SubSeq(SubSeq(Reply, 1, replied), 1, n) = SubSeq(Reply, 1, n)
      <4>1. PICK z \in Seq(Byte) : z = SubSeq(Reply, replied + 1, Len(Reply))
        <5>1. SubSeq(Reply, replied + 1, Len(Reply)) \in Seq(Byte)
          BY <2>2, ReadConstants, Rest
        <5>2. QED
          BY <5>1, Zenon
      <4>2. r \o z = Reply
        BY <2>2, <3>3, <4>1, ReadConstants, CutAt
      <4>3. n \in 0..Len(r)
        BY <3>1, <3>3, <3>4, <2>2, ReadConstants
      <4>4. QED
        BY <3>3, <4>2, <4>3, PrefixOfConcat
    <3>6. QED
      BY <2>2, <3>1, <3>2, <3>5
  <2>4. client = "done" => output = Reply
    <3>1. SUFFICES ASSUME client = "done" PROVE output = Reply
      OBVIOUS
    <3>2. inbound = << >> /\ replied = Len(Reply)
      BY <2>1, <3>1 DEF GetInv, ReadInv
    <3>3. QED
      BY <2>2, <3>2, ReadConstants, SubSeqFull, ConcatEmptySeq
  <2>5. QED
    BY <2>3, <2>4 DEF PrintsEverything
<1>2. QED
  BY <1>1, GetStart, GetStep, PTL DEF GetSpec
=============================================================================
