--------------------------- MODULE ByteStreamPipe ---------------------------
(***************************************************************************)
(* A writer and a reader at the two ends of one ByteStream, each calling   *)
(* its half of the interface in any order: the writer may go on writing    *)
(* after end_input(), and may write between the reader's peek_output() and *)
(* the pop_output() of what was peeked.                                    *)
(***************************************************************************)
EXTENDS ByteStream

CONSTANTS
    MaxWrite,   (* bound: the longest string passed to write() *)
    MaxRead,    (* bound: the largest len the reader asks for  *)
    MaxTotal    (* bound: no write() once this many bytes are in *)

ASSUME PipeAssumption == MaxWrite \in Nat /\ MaxRead \in Nat /\ MaxTotal \in Nat

VARIABLES
    accepted,   (* history: every byte write() accepted, in order    *)
    taken,      (* history: every byte the reader consumed, in order *)
    peeked      (* what the reader holds from peek_output() and has not popped *)

pipeVars == <<buffer, bytes_written, bytes_read, input_ended, error,
          accepted, taken, peeked>>

PipeTypeOK ==
    /\ StreamTypeOK
    /\ accepted \in Seq(Byte)
    /\ taken \in Seq(Byte)
    /\ peeked \in Seq(Byte)

PipeInit ==
    /\ StreamInit
    /\ accepted = << >>
    /\ taken = << >>
    /\ peeked = << >>

(* The strings a writer may pass to write(). *)
Strings == UNION {[1..n -> Byte] : n \in 0..MaxWrite}

WriterWrites ==
    /\ bytes_written < MaxTotal
    /\ \E data \in Strings :
        /\ Write(data)
        /\ accepted' = accepted \o SubSeq(data, 1, WriteLen(data))
    /\ UNCHANGED <<taken, peeked>>

WriterEnds == EndInput /\ UNCHANGED <<accepted, taken, peeked>>

WriterFails == SetError /\ UNCHANGED <<accepted, taken, peeked>>

PipeReads ==
    /\ \E len \in 0..MaxRead :
        /\ Read(len)
        /\ taken' = taken \o PeekOutput(len)
    /\ peeked' = << >>
    /\ UNCHANGED accepted

PipePeeks ==
    /\ \E len \in 0..MaxRead : peeked' = PeekOutput(len)
    /\ UNCHANGED streamVars
    /\ UNCHANGED <<accepted, taken>>

(* The reader has used the bytes it peeked and now removes them. *)
PipePops ==
    /\ PopOutput(Len(peeked))
    /\ taken' = taken \o peeked
    /\ peeked' = << >>
    /\ UNCHANGED accepted

PipeNext ==
    \/ WriterWrites
    \/ WriterEnds
    \/ WriterFails
    \/ PipeReads
    \/ PipePeeks
    \/ PipePops

(* The only party that has to run is the reader: it keeps calling read()   *)
(* with a positive len while there is something to read.                   *)
ReaderProgress == PipeReads /\ taken' # taken

PipeSpec == PipeInit /\ [][PipeNext]_pipeVars

FairPipeSpec == PipeSpec /\ WF_pipeVars(ReaderProgress)

-----------------------------------------------------------------------------
(* FIFO: the bytes the reader got, followed by the bytes in the buffer,    *)
(* are exactly the bytes write() accepted, in that order: nothing is lost, *)
(* duplicated or reordered between write(), peek_output(), pop_output()    *)
(* and read().                                                             *)
Fifo == accepted = taken \o buffer

(* The accounting of bytes_written(), bytes_read() and buffer_size() is    *)
(* that of the bytes themselves, and the buffer never outgrows the         *)
(* capacity, so that `_capacity - buffer_size()` cannot wrap below zero.   *)
Accounting ==
    /\ bytes_written = Len(accepted)
    /\ bytes_read = Len(taken)
    /\ Len(buffer) = bytes_written - bytes_read
    /\ Len(buffer) <= Capacity

(* What the reader peeked is still the front of the buffer when it pops,   *)
(* whatever the writer wrote in between.                                   *)
PeekStable ==
    /\ Len(peeked) <= Len(buffer)
    /\ peeked = SubSeq(buffer, 1, Len(peeked))

(* A step that respects the end of the input. *)
EndKept == input_ended => /\ input_ended'
                          /\ accepted' = accepted
                          /\ Eof => Eof'

(* "the writer can end the input, and then no more bytes can be written"   *)
(* (byte_stream.hh:9-10): after end_input() the accepted bytes are final,  *)
(* so that eof(), once true, stays true.                                   *)
EndIsFinal == [][EndKept]_pipeVars

(* With a reader that keeps reading, end_input() is always followed by     *)
(* eof() with every accepted byte delivered.                               *)
EndReachesReader == input_ended ~> (Eof /\ taken = accepted)
=============================================================================
