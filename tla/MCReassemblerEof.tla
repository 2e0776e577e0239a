-------------------------- MODULE MCReassemblerEof --------------------------
(***************************************************************************)
(* The reassembler with a history of the eof arguments it was given.  It   *)
(* is a module of its own because the early return of push_substring       *)
(* leaves no trace in the reassembler's state.                             *)
(***************************************************************************)
EXTENDS StreamReassembler

MCByte == 1..3
MCStream == <<1, 2, 3>>

VARIABLE announced  (* a substring that starts inside the window came with eof *)

EofInit == Init /\ announced = FALSE

EofNext ==
    \/ \E first, last \in Ends, eof \in BOOLEAN :
        /\ Push(first, last, eof)
        /\ announced' = (announced \/ (eof /\ first < MaxPos))
    \/ (ReaderReads \/ ReaderPops \/ OwnerFails) /\ UNCHANGED announced

EofSpec == EofInit /\ [][EofNext]_<<vars, announced>>

(* "\param eof the last byte of `data` will be the last byte in the entire *)
(* stream" (stream_reassembler.hh:36): once push_substring() was told so   *)
(* and every byte has been written to the output, the output has ended.    *)
AnnouncedEndIsSeen == announced /\ bytes_written = Len(Stream) => input_ended
=============================================================================
