------------------------ MODULE MCStreamReassembler ------------------------
(* A stream of seven distinct bytes, so that a byte out of place shows. *)
EXTENDS StreamReassembler

MCByte == 1..7
MCStream == <<1, 2, 3, 4, 5, 6, 7>>
=============================================================================
