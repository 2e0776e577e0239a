----------------------------- MODULE UDPSocket -----------------------------
(***************************************************************************)
(* UDPSocket of libsponge/util/socket.{hh,cc}: a socket that sends, with   *)
(* sendto() or with connect() and send(), and one that receives into a     *)
(* received_datagram of its caller.  The network holds one datagram at a   *)
(* time, which is lost, delivered, or delivered more than once.            *)
(***************************************************************************)
EXTENDS BufferViewList

CONSTANTS
    Address,        (* the addresses datagrams are sent from               *)
    MaxDatagram,    (* the kernel refuses to send more bytes than this     *)
    MTUs,           (* the sizes recv() is called with                     *)
    MaxReceived,    (* bound on the datagrams received, and then no recv() *)
    NoDatagram      (* there is nothing to receive                         *)

VARIABLES
    connected,      (* sender: connect() has been called                   *)
    write_count,    (* sender: FDWrapper::_write_count                     *)
    network,        (* the datagram to be received, or NoDatagram          *)
    datagram,       (* receiver: the received_datagram given to recv()     *)
    read_count,     (* receiver: FDWrapper::_read_count                    *)
    outcome,        (* how the last call ended                             *)
    taken           (* history: the datagram recvfrom() took last          *)

udpVars == <<connected, write_count, network, datagram, read_count, outcome, taken>>

Blank == [source_address |-> NoDatagram, payload |-> << >>]

UDPInit ==
    /\ connected = FALSE /\ write_count = 0 /\ read_count = 0
    /\ network = NoDatagram /\ datagram = Blank /\ taken = Blank
    /\ outcome = "none"

(* Socket::connect(), on which a datagram socket only notes its peer. *)
Connect == connected' = TRUE /\ UNCHANGED <<write_count, network, datagram, read_count, outcome, taken>>

(* sendmsg_helper(): no address to send to, or too much for a datagram, is *)
(* an error of sendmsg().                                                  *)
SendmsgFails(addressed, views) == ~(addressed \/ connected) \/ Size(views) > MaxDatagram

(* sendto(), or send() when the datagram is not addressed. *)
Sendto(source, addressed, views) ==
    /\ ~SendmsgFails(addressed, views)
    /\ network' = [source_address |-> source, payload |-> Bytes(views)]
    /\ write_count' = write_count + 1
    /\ outcome' = "sent"
    /\ UNCHANGED <<connected, datagram, read_count, taken>>

SendThrows(addressed, views) ==
    /\ SendmsgFails(addressed, views)
    /\ outcome' = "threw"
    /\ UNCHANGED <<connected, write_count, network, datagram, read_count, taken>>

Lose ==
    /\ network # NoDatagram
    /\ network' = NoDatagram
    /\ UNCHANGED <<connected, write_count, datagram, read_count, outcome, taken>>

(* The payload has mtu bytes when recvfrom() writes into it: the start of  *)
(* what arrived, then what was there before and zeros.                     *)
Overwritten(old, new, mtu) ==
    [i \in 1..mtu |-> IF i <= Len(new) THEN new[i] ELSE IF i <= Len(old) THEN old[i] ELSE 0]

(* Mutant: the length is not compared with mtu. *)
OversizedNever(len, mtu) == FALSE

Oversized(len, mtu) == len > mtu

(* string::resize() *)
Resized(s, n) == [i \in 1..n |-> IF i <= Len(s) THEN s[i] ELSE 0]

(* recv(datagram, mtu).  MSG_TRUNC makes recvfrom() return the full length *)
(* of the datagram; one that is too long is gone, and is not counted.      *)
Recv(mtu) ==
    /\ network # NoDatagram /\ read_count < MaxReceived
    /\ LET came == network.payload
           room == Overwritten(datagram.payload, came, mtu)
       IN  \/ /\ Oversized(Len(came), mtu)
              /\ outcome' = "threw"
              /\ datagram' = [datagram EXCEPT !.payload = room]
              /\ UNCHANGED read_count
           \/ /\ ~Oversized(Len(came), mtu)
              /\ outcome' = "received"
              /\ datagram' = [network EXCEPT !.payload = Resized(room, Len(came))]
              /\ read_count' = read_count + 1
    /\ taken' = network
    /\ network' \in {network, NoDatagram}
    /\ UNCHANGED <<connected, write_count>>

(* recvfrom() itself fails, which it may whether or not a datagram waits:  *)
(* the payload has its new size already.                                   *)
RecvThrows(mtu) ==
    /\ read_count < MaxReceived
    /\ datagram' = [datagram EXCEPT !.payload = Resized(@, mtu)]
    /\ outcome' = "threw"
    /\ UNCHANGED <<connected, write_count, network, read_count, taken>>

-----------------------------------------------------------------------------
(* "If `mtu` is too small to hold the received datagram, this method       *)
(* throws" (socket.cc:87): what recv() returns is a datagram as it was     *)
(* sent, with its sender, never the start of one and never with bytes of   *)
(* an earlier one in the same received_datagram.                           *)
DatagramsWhole == outcome = "received" => datagram = taken
=============================================================================
