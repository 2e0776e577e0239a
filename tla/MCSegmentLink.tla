--------------------------- MODULE MCSegmentLink ---------------------------
EXTENDS SegmentLink

(* A SYN, the FIN of a full segment, and a header longer than its fields. *)
MCHeaders ==
    { [TCPHeader EXCEPT !.sport = 5, !.flags = {"syn"}],
      [TCPHeader EXCEPT !.dport = 4095, !.ackno = 4097, !.flags = {"ack", "psh", "fin"}, !.win = 64],
      [TCPHeader EXCEPT !.doff = 6, !.flags = {"urg", "rst"}, !.uptr = 3, !.cksum = 9] }

(* Zeros at the end can be cut off without a trace in the checksum. *)
MCPayloads == { << >>, <<63, 0, 0>> }

(* The fields with the given byte for doff, and more bytes after them. *)
Packet(doff, more) == <<0, 1, 0, 2, 0, 0, 0, 1, 0, 0, 0, 2, doff, 18, 0, 8, 0, 0, 0, 0>> \o more

(* Options and a payload, options that are cut off, and a short header. *)
MCForeign == { Packet(28, <<2, 4, 5, 6, 1, 1, 1, 0, 7>>), Packet(24, <<1, 1>>), Packet(16, <<7>>) }

MCAddress == {Self, Other}
MCPseudos == {0, 4100}

(* No guard and no property reads write_count, and connected only matters  *)
(* for what is still to be sent.                                           *)
MCView ==
    <<linkVars, sends < MaxSent /\ connected, network, datagram, read_count, outcome, taken>>
=============================================================================
