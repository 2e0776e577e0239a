-------------------------- MODULE FileDescriptorIO --------------------------
(***************************************************************************)
(* FileDescriptor::write(), read() and set_blocking() of                   *)
(* libsponge/util/file_descriptor.cc, and Socket::shutdown() of socket.cc, *)
(* on one descriptor that is connected to a peer.                          *)
(*                                                                         *)
(* One turn of the loop in write() is one step, since each calls writev(): *)
(* between two turns the peer takes bytes, sends, closes, or a signal      *)
(* makes the next call fail.  read() makes a single call and is one step.  *)
(***************************************************************************)
EXTENDS BufferViewList

CONSTANTS
    Byte,           (* the bytes                                           *)
    Payloads,       (* the view lists the program writes                   *)
    Reply,          (* what the peer sends, a sequence of bytes            *)
    Limits,         (* the limits the program reads with                   *)
    BufferSize,     (* BUFFER_SIZE, the maximum size of a read             *)
    Room,           (* what the kernel holds of each direction             *)
    Modulus,        (* 2^32, the range of the counters                     *)
    MaxCalls        (* bound on the calls of read() and of write()         *)

ASSUME IOAssumption ==
    /\ Payloads \subseteq Seq(Seq(Byte)) /\ Reply \in Seq(Byte)
    /\ Limits \subseteq Nat
    /\ {BufferSize, Room} \subseteq Nat \ {0}
    /\ MaxCalls \in Nat /\ Modulus \in Nat /\ Modulus > MaxCalls

VARIABLES
    buffer,         (* write(): the views still to be written              *)
    write_all,      (* write(): the argument of that name                  *)
    total,          (* write(): total_bytes_written                        *)
    phase,          (* "idle", "writing", "returned" or "threw"            *)
    read_count,     (* FDWrapper::_read_count                              *)
    write_count,    (* FDWrapper::_write_count                             *)
    eof,            (* FDWrapper::_eof                                     *)
    outbound,       (* kernel: bytes written and not yet taken by the peer *)
    inbound,        (* kernel: bytes sent by the peer and not yet read     *)
    peer_closed,    (* kernel: nothing follows the bytes of inbound        *)
    shut,           (* kernel: the directions that have been shut down     *)
    nonblocking,    (* kernel: O_NONBLOCK is set                           *)
    data,           (* history: the bytes the last write() was given       *)
    before,         (* history: write_count when that write() began        *)
    earlier,        (* history: how many bytes were written before it      *)
    arrived,        (* history: the bytes the peer has taken               *)
    replied,        (* history: how many bytes of Reply the peer has sent  *)
    got             (* history: the bytes read() has returned              *)

writeVars == <<buffer, write_all, total, phase, write_count, outbound, data, before, earlier>>
readVars  == <<read_count, eof, inbound, got>>
peerVars  == <<arrived, replied, peer_closed>>
modeVars  == <<shut, nonblocking>>
ioVars    == <<writeVars, readVars, peerVars, modeVars>>

IOTypeOK ==
    /\ write_all \in BOOLEAN /\ eof \in BOOLEAN /\ peer_closed \in BOOLEAN
    /\ total \in 0..Len(data)
    /\ phase \in {"idle", "writing", "returned", "threw"}
    /\ read_count \in 0..MaxCalls
    /\ write_count \in 0..(Modulus - 1)
    /\ Len(outbound) <= Room /\ Len(inbound) <= Room
    /\ replied \in 0..Len(Reply)
    /\ shut \subseteq {"RD", "WR"} /\ nonblocking \in BOOLEAN
    /\ phase = "writing" => Size(buffer) = Len(data) - total

IOInit ==
    /\ buffer = << >> /\ write_all = TRUE /\ total = 0 /\ phase = "idle"
    /\ read_count = 0 /\ write_count = 0 /\ eof = FALSE
    /\ outbound = << >> /\ inbound = << >> /\ peer_closed = FALSE
    /\ data = << >> /\ before = 0 /\ earlier = 0
    /\ arrived = << >> /\ replied = 0 /\ got = << >>
    /\ shut = {} /\ nonblocking = FALSE

Lesser(a, b) == IF a < b THEN a ELSE b

-----------------------------------------------------------------------------
(* write(buffer, write_all) is called. *)
StartWrite(payload, all) ==
    /\ phase # "writing"
    /\ buffer' = payload /\ write_all' = all /\ total' = 0 /\ phase' = "writing"
    /\ data' = Bytes(payload) /\ before' = write_count
    /\ earlier' = Len(arrived) + Len(outbound)
    /\ UNCHANGED <<write_count, outbound, readVars, peerVars, modeVars>>

(* How many bytes a call of writev() may take: none when there is nothing  *)
(* to write, else as much as there is room for, at least one.  It blocks   *)
(* while there is no room, or fails if it must not block; after a shutdown *)
(* it fails if there is anything to write.                                 *)
WritevTakes ==
    IF Size(buffer) = 0 THEN {0}
    ELSE IF "WR" \in shut THEN {}
    ELSE 1..Lesser(Size(buffer), Room - Len(outbound))

MustFail == WritevTakes = {} /\ ("WR" \in shut \/ nonblocking)

(* Mutant: one call of writev() is enough. *)
GoesOnNever(views) == FALSE

(* Mutant: the loop goes on until no view is left, empty ones included. *)
GoesOnWhileViews(views) == write_all /\ views # << >>

(* The condition of the do loop. *)
GoesOn(views) == write_all /\ Size(views) # 0

(* Mutant: a call that wrote nothing is not counted. *)
RegisterWriteIf(n) == write_count' = IF n = 0 THEN write_count ELSE (write_count + 1) % Modulus

(* register_write(), after every call of writev() that succeeds. *)
RegisterWrite(n) == write_count' = (write_count + 1) % Modulus

WriteTurn ==
    /\ phase = "writing"
    /\ \E n \in WritevTakes :
        /\ outbound' = outbound \o SubSeq(Bytes(buffer), 1, n)
        /\ RegisterWrite(n)
        /\ buffer' = RemovePrefix(buffer, n)
        /\ total' = total + n
    /\ phase' = IF GoesOn(buffer') THEN "writing" ELSE "returned"
    /\ UNCHANGED <<write_all, data, before, earlier, readVars, peerVars, modeVars>>

(* writev() fails (a signal, the connection is gone or shut down, or there *)
(* is no room and it must not block), or takes nothing of a buffer that is *)
(* not empty: an exception leaves write().                                 *)
WriteThrows ==
    /\ phase = "writing"
    /\ phase' = "threw"
    /\ UNCHANGED <<buffer, write_all, total, write_count, outbound, data, before, earlier,
                   readVars, peerVars, modeVars>>

-----------------------------------------------------------------------------
SizeToRead(limit) == Lesser(BufferSize, limit)

(* How many bytes a call of read(2) may return; it blocks while there is   *)
(* nothing to read and no end, or fails if it must not block.              *)
ReadReturns(limit) ==
    IF SizeToRead(limit) = 0 THEN {0}
    ELSE IF inbound # << >> THEN 1..Lesser(SizeToRead(limit), Len(inbound))
    ELSE IF peer_closed \/ "RD" \in shut THEN {0} ELSE {}

(* Mutant: a read of no bytes is taken for the end. *)
AtEofAnyLimit(limit, n) == n = 0

AtEof(limit, n) == limit > 0 /\ n = 0

(* read(limit).  A call of read(2) that fails throws and changes nothing. *)
Read(limit) ==
    /\ phase # "writing"
    /\ \E n \in ReadReturns(limit) :
        /\ eof' = (eof \/ AtEof(limit, n))
        /\ got' = got \o SubSeq(inbound, 1, n)
        /\ inbound' = From(inbound, n + 1)
    /\ read_count' = (read_count + 1) % Modulus
    /\ UNCHANGED <<writeVars, peerVars, modeVars>>

-----------------------------------------------------------------------------
(* The directions that shutdown(how) closes, and counts as serviced. *)
Directions(how) == IF how = "RDWR" THEN {"RD", "WR"} ELSE {how}

(* Socket::shutdown(how).  A call of shutdown(2) that fails, as it does    *)
(* for another `how`, throws and changes nothing.                          *)
Shutdown(how) ==
    /\ phase # "writing"
    /\ shut' = shut \cup Directions(how)
    /\ read_count' = (read_count + (IF "RD" \in Directions(how) THEN 1 ELSE 0)) % Modulus
    /\ write_count' = (write_count + (IF "WR" \in Directions(how) THEN 1 ELSE 0)) % Modulus
    /\ phase' = "idle"
    /\ UNCHANGED <<buffer, write_all, total, outbound, data, before, earlier,
                   eof, inbound, got, peerVars, nonblocking>>

(* set_blocking(): O_NONBLOCK is cleared or set, the other flags are kept. *)
SetBlocking(blocking_state) ==
    /\ phase # "writing"
    /\ nonblocking' = ~blocking_state
    /\ UNCHANGED <<writeVars, readVars, peerVars, shut>>

-----------------------------------------------------------------------------
(* The peer takes what has arrived, sends the next bytes, and closes when  *)
(* it has sent all it has to send, or before.                              *)
PeerTakes ==
    /\ outbound # << >>
    /\ \E n \in 1..Len(outbound) :
        /\ arrived' = arrived \o SubSeq(outbound, 1, n)
        /\ outbound' = From(outbound, n + 1)
    /\ UNCHANGED <<buffer, write_all, total, phase, write_count, data, before, earlier,
                   readVars, replied, peer_closed, modeVars>>

PeerSends ==
    /\ ~peer_closed /\ replied < Len(Reply) /\ Len(inbound) < Room
    /\ replied' = replied + 1
    /\ inbound' = Append(inbound, Reply[replied + 1])
    /\ UNCHANGED <<writeVars, read_count, eof, got, arrived, peer_closed, modeVars>>

PeerCloses ==
    /\ ~peer_closed
    /\ peer_closed' = TRUE
    /\ UNCHANGED <<writeVars, readVars, arrived, replied, modeVars>>

-----------------------------------------------------------------------------
(* While write() runs and when it is left, by a return or an exception,    *)
(* total_bytes_written says exactly how far the kernel has come: it has    *)
(* the first total bytes of the data after what was written earlier, and   *)
(* the rest is what is left in the list of views.                          *)
WriteExact ==
    phase # "idle" =>
        /\ arrived \o outbound = SubSeq(arrived \o outbound, 1, earlier) \o SubSeq(data, 1, total)
        /\ Bytes(buffer) = From(data, total + 1)

(* A write() that returns has written all of its data if write_all was     *)
(* set, and otherwise some of it, unless there was none.                   *)
ReturnedWhole ==
    phase = "returned" => IF write_all THEN total = Len(data) ELSE total > 0 \/ data = << >>

(* write_count differs from what it was before when write() returns, even  *)
(* of an empty string, and is the same when an exception left write()      *)
(* before anything was written.                                            *)
WriteCounted ==
    /\ phase = "returned" => write_count # before
    /\ phase = "threw" => (write_count # before <=> total > 0)

(* What EventLoop's check for a busy wait relies on: a write() that makes  *)
(* progress shows in write_count, and a direction that was shut down has   *)
(* been counted too, so that a callback which only calls shutdown() is not *)
(* taken for idle.                                                         *)
CountTellsProgress ==
    /\ WriteCounted
    /\ "RD" \in shut => read_count > 0
    /\ "WR" \in shut => write_count > 0

(* _eof is set only when the peer has closed and everything it sent has    *)
(* been read: a read of zero bytes or a short one does not set it.  Only a *)
(* program that has shut down reading sees an end of its own making.       *)
EofIsTheEnd == eof => "RD" \in shut \/ (peer_closed /\ got = SubSeq(Reply, 1, replied))
=============================================================================
