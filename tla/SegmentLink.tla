---------------------------- MODULE SegmentLink ----------------------------
(***************************************************************************)
(* TCPSegments in UDP datagrams: one end serializes segments that follow   *)
(* one another in sequence space and sends them with UDPSocket; the other  *)
(* receives and parses them.  On the way the last datagram may have a byte *)
(* changed, be cut short, or come under another pseudo-header.  Datagrams  *)
(* of another implementation, with options or with a doff of its own,      *)
(* arrive as well.                                                         *)
(***************************************************************************)
EXTENDS TCPSegment, UDPSocket

CONSTANTS
    Self, Other,    (* addresses of the sender, and of another one     *)
    Headers,        (* headers that are sent, but for seqno            *)
    Payloads,       (* payloads that are sent                          *)
    Foreign,        (* datagrams of others, with a checksum field of 0 *)
    Pseudos,        (* sums over the pseudo-header of the lower layer  *)
    Damages,        (* what a damaged byte may become                  *)
    ISN,            (* the first sequence number                       *)
    MaxSent         (* bound on the datagrams sent                     *)

(* The headers serialize() does not refuse, with the widths of the fields  *)
(* of struct TCPHeader, and a doff that fits its four bits on the wire.    *)
Uint16 == 0..(Word - 1)
Uint32 == 0..(Word * Word - 1)
SentHeaders ==
    [sport : Uint16, dport : Uint16, seqno : Uint32, ackno : Uint32, doff : 5..15,
     flags : SUBSET DOMAIN FlagBit, win : Uint16, cksum : Uint16, uptr : Uint16]

(* A datagram has a length of 16 bits, and the sum over a pseudo-header,   *)
(* which has a few words, leaves room for those of a datagram in 32 bits.  *)
ASSUME LinkAssumption ==
    /\ Address = {Self, Other}
    /\ \A h \in Headers : h \in SentHeaders
    /\ \A payload \in Payloads : payload \in Seq(Byte)
    /\ \A packet \in Foreign : packet \in Seq(Byte) /\ LENGTH <= Len(packet) /\ Len(packet) < Word
    /\ \A p \in Pseudos : p \in 0..(Word * Base)
    /\ MaxDatagram \in 0..(Word - 1) /\ MTUs \subseteq Nat
    /\ Damages \subseteq Byte /\ ISN \in Uint32 /\ MaxSent \in Nat /\ MaxReceived \in Nat

(* Pseudo-headers with the same sum in ones' complement are the same to an *)
(* Internet checksum.                                                      *)
ASSUME PseudoAssumption ==
    \A p, q \in Pseudos : p # q => p % (Word - 1) # q % (Word - 1)

VARIABLES
    next,           (* sender: the seqno of the next segment            *)
    sends,          (* bound: how many datagrams were sent              *)
    sent,           (* history: the segment sent last                   *)
    pseudo,         (* the pseudo-header the datagram travels under     *)
    harm,           (* history: what has happened to it                 *)
    segment,        (* receiver: the TCPSegment parse() was called on   *)
    result          (* receiver: what it returned, or "none"            *)

linkVars == <<next, sends, sent, pseudo, harm, segment, result>>
vars == <<linkVars, udpVars>>

TCPSegmentInit == [header |-> TCPHeader, payload |-> << >>]

TypeOK ==
    /\ next \in Uint32 /\ sends \in 0..MaxSent
    /\ write_count \in 0..MaxSent /\ read_count \in 0..MaxReceived
    /\ network # NoDatagram => network.payload \in Seq(Byte)
    /\ outcome \in {"none", "sent", "received", "threw"}
    /\ harm \in {"none", "byte", "cut", "pseudo", "foreign"}
    /\ segment.header.doff \in 0..15 /\ segment.header.flags \subseteq DOMAIN FlagBit
    /\ result \in {"none", "NoError", "BadChecksum", "PacketTooShort"}

Init ==
    /\ UDPInit
    /\ next = ISN /\ sends = 0
    /\ sent = TCPSegmentInit /\ pseudo = 0 /\ harm = "none"
    /\ segment = TCPSegmentInit /\ result = "none"

Travels(p, what) ==
    /\ pseudo' = p /\ harm' = what
    /\ segment' = TCPSegmentInit /\ result' = "none"

SenderConnects == ~connected /\ Connect /\ UNCHANGED linkVars

(* The datagram before must have been received or lost. *)
MaySend == sends < MaxSent /\ network = NoDatagram /\ sends' = sends + 1

Send ==
    /\ MaySend
    /\ \E h \in Headers, payload \in Payloads, p \in Pseudos, addressed \in BOOLEAN :
        LET seg   == [header |-> [h EXCEPT !.seqno = next], payload |-> payload]
            views == SerializeSegment(seg, p)
        IN  \/ /\ Sendto(Self, addressed, views)
               /\ sent' = seg
               /\ next' = (next + SequenceLength(seg)) % (Word * Word)
               /\ Travels(p, "none")
            \/ SendThrows(addressed, views) /\ UNCHANGED <<next, sent, pseudo, harm, segment, result>>

(* The same bytes with the right checksum in bytes 17 and 18. *)
WithChecksum(bytes, p) ==
    LET c == UnparseInt(Value(Add(InitialSum(p), bytes)), 2)
    IN  [bytes EXCEPT ![17] = c[1], ![18] = c[2]]

ForeignSends ==
    /\ MaySend
    /\ \E packet \in Foreign, p \in Pseudos :
        /\ network' = [source_address |-> Other, payload |-> WithChecksum(packet, p)]
        /\ Travels(p, "foreign")
    /\ UNCHANGED <<next, sent, connected, write_count, datagram, read_count, outcome, taken>>

Becomes(bytes) == network' = [network EXCEPT !.payload = bytes]

Suffers ==
    /\ sends = MaxSent /\ harm = "none" /\ network # NoDatagram
    /\ LET bytes == network.payload
       IN  \/ \E i \in DOMAIN bytes : \E b \in Damages \ {bytes[i]} :
                Becomes([bytes EXCEPT ![i] = b]) /\ Travels(pseudo, "byte")
           \/ \E n \in 0..(Len(bytes) - 1) : Becomes(SubSeq(bytes, 1, n)) /\ Travels(pseudo, "cut")
           \/ \E p \in Pseudos \ {pseudo} : Becomes(bytes) /\ Travels(p, "pseudo")
    /\ UNCHANGED <<next, sends, sent, connected, write_count, datagram, read_count, outcome, taken>>

Loses == Lose /\ UNCHANGED linkVars

Receive ==
    /\ \E mtu \in MTUs : Recv(mtu) \/ RecvThrows(mtu)
    /\ \/ /\ outcome' = "received"
          /\ LET parsed == ParseSegment(TCPSegmentInit, datagram'.payload, pseudo)
             IN  segment' = parsed.segment /\ result' = parsed.result
       \/ outcome' = "threw" /\ UNCHANGED <<segment, result>>
    /\ UNCHANGED <<next, sends, sent, pseudo, harm>>

Next == SenderConnects \/ Send \/ ForeignSends \/ Suffers \/ Loses \/ Receive

Spec == Init /\ [][Next]_vars

-----------------------------------------------------------------------------
(* What serialize() writes, parse() reads back: every field (operator==    *)
(* leaves the ports out), the payload, and where the next segment begins.  *)
RoundTrip ==
    harm = "none" /\ result # "none" =>
        /\ result = "NoError"
        /\ SameHeader(segment.header, sent.header)
        /\ \A f \in {"sport", "dport"} : segment.header[f] = sent.header[f]
        /\ segment.payload = sent.payload
        /\ (segment.header.seqno + SequenceLength(segment)) % (Word * Word) = next

(* A segment with a changed byte, in the header or in the payload, or one  *)
(* that was meant for another address, is not taken for a good one.        *)
DamageDetected == harm \in {"byte", "pseudo"} => result \in {"none", "BadChecksum"}

(* The bytes that arrived, and where their doff says the payload starts. *)
Arrived == taken.payload
WireStart == 4 * (Arrived[13] \div (Base \div 16))

(* A packet with a good checksum, however short it is, is PacketTooShort   *)
(* exactly when its fields or the options its doff announces are cut off;  *)
(* otherwise the payload is what follows the options.  A doff below the    *)
(* minimum announces no options: such a header is not PacketTooShort       *)
(* either, and what it should be is ShortHeaderRefused below.  parse()     *)
(* never asks Buffer for bytes that are not there.                         *)
ParseExact ==
    result \in {"NoError", "PacketTooShort"} =>
        IF Len(Arrived) < LENGTH \/ Len(Arrived) < WireStart
        THEN result = "PacketTooShort"
        ELSE /\ result = "NoError"
             /\ WireStart >= LENGTH => segment.payload = SubSeq(Arrived, WireStart + 1, Len(Arrived))

(* The sum of the 16-bit words of the bytes, the last padded with a zero. *)
WordSum(bytes) ==
    LET sum[i \in 0..Len(bytes)] ==
            IF i = 0 THEN 0 ELSE sum[i - 1] + bytes[i] * (IF i % 2 = 1 THEN Base ELSE 1)
    IN  sum[Len(bytes)]

(* The checksum is the Internet checksum of the bytes, in whatever pieces  *)
(* they are handed to add(): serialize() adds header and payload one after *)
(* the other, parse() the whole.                                           *)
ChecksumOfPieces ==
    LET all == pseudo + WordSum(Arrived)
        pieces(n) == Add(Add(InitialSum(pseudo), SubSeq(Arrived, 1, n)), SubSeq(Arrived, n + 1, Len(Arrived)))
    IN  \A n \in 0..Len(Arrived) : (Value(pieces(n)) + all) % (Word - 1) = 0

-----------------------------------------------------------------------------
(* "The result of parsing or unparsing an IP datagram, TCP segment, ..."   *)
(* (parser.hh:11) has "HeaderTooShort" for "Header length is shorter than  *)
(* minimum required" (parser.hh:17): no segment with such a header is      *)
(* parsed with NoError.                                                    *)
ShortHeaderRefused == result = "NoError" => Serializable(segment.header)
=============================================================================
