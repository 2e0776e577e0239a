----------------------------- MODULE TCPSegment -----------------------------
(***************************************************************************)
(* TCPHeader and TCPSegment of libsponge/tcp_helpers: parsing from and     *)
(* serializing to the bytes of a packet.  A header is a record with the    *)
(* fields of the struct, its six flags as a set.                           *)
(***************************************************************************)
EXTENDS NetParser

LENGTH == 20    (* bytes of a header without options *)

FlagBit == [urg |-> 32, ack |-> 16, psh |-> 8, rst |-> 4, syn |-> 2, fin |-> 1]

TCPHeader ==
    [sport |-> 0, dport |-> 0, seqno |-> 0, ackno |-> 0, doff |-> LENGTH \div 4,
     flags |-> {}, win |-> 0, cksum |-> 0, uptr |-> 0]

-----------------------------------------------------------------------------
(* The byte with the data offset: doff is its upper four bits. *)
DoffOf(b) == b \div (Base \div 16)
DoffByte(doff) == (doff * (Base \div 16)) % Base

(* The byte with the flags; all bits are different, so that | is +. *)
FlagsOf(b) == {f \in DOMAIN FlagBit : (b \div FlagBit[f]) % 2 = 1}
FlagByte(flags) ==
    LET bit(f) == IF f \in flags THEN FlagBit[f] ELSE 0
    IN  bit("urg") + bit("ack") + bit("psh") + bit("rst") + bit("syn") + bit("fin")

(* TCPHeader::parse() reads the fields one by one: the header, and what is *)
(* left of the parser.                                                     *)
ParseFields(p) ==
    LET dport == Skip(p, 2)
        seqno == Skip(dport, 2)
        ackno == Skip(seqno, 4)
        doff  == Skip(ackno, 4)
        flags == Skip(doff, 1)
        win   == Skip(flags, 1)
        cksum == Skip(win, 2)
        uptr  == Skip(cksum, 2)
    IN  [header |-> [sport |-> ParseInt(p, 2),     dport |-> ParseInt(dport, 2),
                     seqno |-> ParseInt(seqno, 4), ackno |-> ParseInt(ackno, 4),
                     doff  |-> DoffOf(ParseInt(doff, 1)), flags |-> FlagsOf(ParseInt(flags, 1)),
                     win   |-> ParseInt(win, 2),   cksum |-> ParseInt(cksum, 2),
                     uptr  |-> ParseInt(uptr, 2)],
         p |-> Skip(uptr, 2)]

(* Mutant: the options are left in front of the payload. *)
SkipOptionsNot(s) == s

(* It returns HeaderTooShort for a small doff, with no error in the        *)
(* parser, and otherwise skips the options.                                *)
SkipOptions(s) ==
    IF s.header.doff < 5 THEN s
    ELSE [s EXCEPT !.p = Skip(s.p, s.header.doff * 4 - LENGTH)]

ParseHeader(p) == SkipOptions(ParseFields(p))

(* TCPHeader::serialize(), which throws for a doff below 5. *)
Serializable(header) == header.doff >= 5

SerializeHeader(header) ==
    UnparseInt(header.sport, 2) \o UnparseInt(header.dport, 2)
    \o UnparseInt(header.seqno, 4) \o UnparseInt(header.ackno, 4)
    \o UnparseInt(DoffByte(header.doff), 1) \o UnparseInt(FlagByte(header.flags), 1)
    \o UnparseInt(header.win, 2) \o UnparseInt(header.cksum, 2) \o UnparseInt(header.uptr, 2)
    \o [i \in 1..(4 * header.doff - LENGTH) |-> 0]

-----------------------------------------------------------------------------
(* Mutant: the checksum is taken over the header only. *)
GoodChecksumOfHeader(bytes, pseudo) ==
    Value(Add(InitialSum(pseudo), SubSeq(bytes, 1, IF Len(bytes) < LENGTH THEN Len(bytes) ELSE LENGTH))) = 0

GoodChecksum(bytes, pseudo) == Value(Add(InitialSum(pseudo), bytes)) = 0

(* TCPSegment::parse() on the segment seg: the segment it leaves, and its  *)
(* result, which is the parser's error and not what TCPHeader::parse()     *)
(* returned.                                                               *)
ParseSegment(seg, bytes, pseudo) ==
    IF ~GoodChecksum(bytes, pseudo) THEN [segment |-> seg, result |-> "BadChecksum"]
    ELSE LET s == ParseHeader(Parser(bytes))
         IN  [segment |-> [header |-> s.header, payload |-> s.p.buffer], result |-> s.p.error]

(* TCPSegment::serialize(): a BufferList of the header and the payload. *)
SerializeSegment(seg, pseudo) ==
    LET out   == [seg.header EXCEPT !.cksum = 0]
        check == Add(Add(InitialSum(pseudo), SerializeHeader(out)), seg.payload)
    IN  <<SerializeHeader([out EXCEPT !.cksum = Value(check)]), seg.payload>>

(* length_in_sequence_space() *)
SequenceLength(seg) ==
    Len(seg.payload) + (IF "syn" \in seg.header.flags THEN 1 ELSE 0)
                     + (IF "fin" \in seg.header.flags THEN 1 ELSE 0)

(* TCPHeader::operator== *)
SameHeader(h, g) ==
    /\ h.seqno = g.seqno /\ h.ackno = g.ackno /\ h.doff = g.doff /\ h.flags = g.flags
    /\ h.win = g.win /\ h.uptr = g.uptr
=============================================================================
