----------------------------- MODULE ByteStream -----------------------------
(***************************************************************************)
(* The in-memory, flow-controlled byte stream of libsponge/byte_stream.hh  *)
(* and byte_stream.cc.  A writer appends bytes on the input side, a reader *)
(* takes them from the output side, and at most Capacity bytes are held in *)
(* between.                                                                *)
(*                                                                         *)
(* The module is the state of one ByteStream object and its operations.    *)
(* It has no Next of its own: ByteStreamPipe puts a writer and a reader at *)
(* its two ends, and StreamReassembler owns one as its output.             *)
(***************************************************************************)
EXTENDS Naturals, Sequences

CONSTANTS
    Byte,       (* the values a byte can take               *)
    Capacity    (* _capacity, the argument of the constructor *)

ASSUME CapacityAssumption == Capacity \in Nat

VARIABLES
    buffer,         (* _buffer, a std::deque<char>                          *)
    bytes_written,  (* _bytes_written, the bytes accepted since construction *)
    bytes_read,     (* _bytes_read, the bytes popped since construction      *)
    input_ended,    (* _input_ended                                         *)
    error           (* _error                                               *)

streamVars == <<buffer, bytes_written, bytes_read, input_ended, error>>

StreamTypeOK ==
    /\ buffer \in Seq(Byte)
    /\ bytes_written \in Nat
    /\ bytes_read \in Nat
    /\ input_ended \in BOOLEAN
    /\ error \in BOOLEAN

(* The constructor. *)
StreamInit ==
    /\ buffer = << >>
    /\ bytes_written = 0
    /\ bytes_read = 0
    /\ input_ended = FALSE
    /\ error = FALSE

(* std::min *)
Lesser(a, b) == IF a <= b THEN a ELSE b

-----------------------------------------------------------------------------
(* Accessors. *)

RemainingCapacity == Capacity - Len(buffer)

BufferEmpty == buffer = << >>

Eof == input_ended /\ BufferEmpty

(* Mutant: the last byte of the buffer is never copied. *)
PeekOutputShort(len) == SubSeq(buffer, 1, Lesser(len, Len(buffer) - 1))

PeekOutput(len) == SubSeq(buffer, 1, Lesser(len, Len(buffer)))

-----------------------------------------------------------------------------
(* Input side. *)

(* Mutant: the capacity is not looked at. *)
WriteLenUncapped(data) == IF input_ended THEN 0 ELSE Len(data)

(* Mutant: write() does not look at _input_ended. *)
WriteLenAfterEnd(data) == Lesser(Len(data), RemainingCapacity)

(* The value write(data) returns: how many of the bytes are accepted. *)
WriteLen(data) ==
    IF input_ended \/ RemainingCapacity = 0
    THEN 0
    ELSE Lesser(Len(data), RemainingCapacity)

(* Mutant: the bytes are inserted at the front of the deque. *)
AcceptDataFront(data) ==
    /\ buffer' = SubSeq(data, 1, WriteLen(data)) \o buffer
    /\ bytes_written' = bytes_written + WriteLen(data)

(* What write(data) does to the two variables it assigns.  It is an action *)
(* on its own because push_substring() may end the input in the same call. *)
AcceptData(data) ==
    /\ buffer' = buffer \o SubSeq(data, 1, WriteLen(data))
    /\ bytes_written' = bytes_written + WriteLen(data)

Write(data) ==
    /\ AcceptData(data)
    /\ UNCHANGED <<bytes_read, input_ended, error>>

EndInput ==
    /\ input_ended' = TRUE
    /\ UNCHANGED <<buffer, bytes_written, bytes_read, error>>

SetError ==
    /\ error' = TRUE
    /\ UNCHANGED <<buffer, bytes_written, bytes_read, input_ended>>

-----------------------------------------------------------------------------
(* Output side. *)

(* Mutant: bytes are erased from the wrong end of the deque. *)
PopOutputBack(len) ==
    /\ buffer' = SubSeq(buffer, 1, Len(buffer) - Lesser(len, Len(buffer)))
    /\ bytes_read' = bytes_read + Lesser(len, Len(buffer))
    /\ UNCHANGED <<bytes_written, input_ended, error>>

PopOutput(len) ==
    LET remove_count == Lesser(len, Len(buffer))
    IN  /\ buffer' = SubSeq(buffer, remove_count + 1, Len(buffer))
        /\ bytes_read' = bytes_read + remove_count
        /\ UNCHANGED <<bytes_written, input_ended, error>>

(* read(len) returns PeekOutput(len). *)
Read(len) == PopOutput(Len(PeekOutput(len)))
=============================================================================
