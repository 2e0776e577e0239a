------------------------- MODULE StreamReassembler -------------------------
(***************************************************************************)
(* libsponge/stream_reassembler.{hh,cc}: substrings of a byte stream come  *)
(* in any order, overlapping and repeated, and are put together into the   *)
(* ByteStream the reassembler owns as its output.                          *)
(*                                                                         *)
(* The sender has one byte sequence, Stream.  The network hands the        *)
(* reassembler any excerpt of it, any number of times and in any order (an *)
(* excerpt that is lost is one that is not pushed), while a reader takes   *)
(* bytes from the output between the calls.  Indices count from 0 as in    *)
(* the code: the byte at index i is Stream[i + 1].                         *)
(***************************************************************************)
EXTENDS ByteStream, FiniteSets

CONSTANT Stream

ASSUME StreamAssumption == Stream \in Seq(Byte)

VARIABLES
    unassembled,    (* _unassembled, a std::map<size_t, char> *)
    eof_flag,       (* _eof_flag  *)
    eof_index       (* _eof_index *)

vars == <<buffer, bytes_written, bytes_read, input_ended, error,
          unassembled, eof_flag, eof_index>>

(* The map holds stream bytes under their own index. *)
TypeOK ==
    /\ StreamTypeOK
    /\ DOMAIN unassembled \subseteq 0..(Len(Stream) - 1)
    /\ unassembled = [i \in DOMAIN unassembled |-> Stream[i + 1]]
    /\ eof_flag \in BOOLEAN
    /\ eof_index \in {0, Len(Stream)}

(* The constructor. *)
Init ==
    /\ StreamInit
    /\ unassembled = [i \in {} |-> 0]
    /\ eof_flag = FALSE
    /\ eof_index = 0

-----------------------------------------------------------------------------
(* push_substring *)

(* Mutant: the window is counted from the bytes written, so that bytes the *)
(* reader has not taken yet do not use it up.                              *)
MaxPosFromWritten == bytes_written + Capacity

(* max_pos and min_pos: the window of indices worth keeping. *)
MaxPos == bytes_read + Capacity
MinPos == bytes_written

(* Mutant: an empty substring is discarded like any other. *)
DiscardedEvenEmpty(data, index) == index + Len(data) <= MinPos \/ index >= MaxPos

(* Mutant: the last index of the window counts as behind it. *)
DiscardedEarly(data, index) ==
    \/ Len(data) # 0 /\ index + Len(data) <= MinPos
    \/ index + 1 >= MaxPos

(* The early return. *)
Discarded(data, index) ==
    \/ Len(data) # 0 /\ index + Len(data) <= MinPos
    \/ index >= MaxPos

(* Mutant: the loop stops one byte early. *)
FreshShort(data, index) ==
    {i \in index..(index + Len(data) - 1) : MinPos <= i /\ i + 1 < MaxPos}

(* The indices the copying loop visits, from `start` to before `end`. *)
Fresh(data, index) ==
    {i \in index..(index + Len(data) - 1) : MinPos <= i /\ i < MaxPos}

(* Mutant: the loop reads data from its start, not from i - index. *)
StoredMisplaced(data, index) ==
    [i \in DOMAIN unassembled \cup Fresh(data, index) |->
        IF i \in DOMAIN unassembled
        THEN unassembled[i]
        ELSE data[i - (IF index < MinPos THEN MinPos ELSE index) + 1]]

(* The map once the loop has run: a byte already there is kept. *)
Stored(data, index) ==
    [i \in DOMAIN unassembled \cup Fresh(data, index) |->
        IF i \in DOMAIN unassembled THEN unassembled[i] ELSE data[i - index + 1]]

(* Mutant: assembly takes one byte only. *)
FirstGapOneByte(D, from) == IF from \in D THEN from + 1 ELSE from

(* Where the assembling loop stops: the first index, counted up from the   *)
(* next byte to be written, that the map lacks.                            *)
FirstGap(D, from) ==
    CHOOSE k \in {from} \cup {i + 1 : i \in D} :
        /\ from <= k
        /\ k \notin D
        /\ from..(k - 1) \subseteq D

(* Mutant: the end is announced as soon as it is known. *)
AtEndWhenKnown(flag, index, written) == flag

(* Mutant: the end is announced only by the push that carries it. *)
AtEndOfPush(flag, index, written) == flag /\ ~eof_flag /\ written = index

(* The condition under which push_substring ends the output. *)
AtEnd(flag, index, written) == flag /\ written = index

(* The part behind the early return: store, assemble, write, end.  Writing *)
(* an empty string changes nothing, so the call of write() needs no case.  *)
Assemble(data, index, eof) ==
    LET stored == Stored(data, index)
        stop   == FirstGap(DOMAIN stored, bytes_written)
        run    == [n \in 1..(stop - bytes_written) |-> stored[bytes_written + n - 1]]
    IN  /\ AcceptData(run)
        /\ unassembled' = [i \in DOMAIN stored \ (bytes_written..(stop - 1)) |-> stored[i]]
        /\ eof_flag' = (eof_flag \/ eof)
        /\ eof_index' = IF eof THEN index + Len(data) ELSE eof_index
        /\ input_ended' = (input_ended \/ AtEnd(eof_flag', eof_index', bytes_written'))
        /\ UNCHANGED <<bytes_read, error>>

PushSubstring(data, index, eof) ==
    \/ Discarded(data, index) /\ UNCHANGED vars
    \/ ~Discarded(data, index) /\ Assemble(data, index, eof)

-----------------------------------------------------------------------------
(* The excerpts of the stream: from index `first` up to before `last`.     *)
(* Only one that reaches the end of the stream may say so.                 *)
Ends == 0..Len(Stream)

Push(first, last, eof) ==
    /\ first <= last
    /\ eof => last = Len(Stream)
    /\ PushSubstring(SubSeq(Stream, first + 1, last), first, eof)

NetworkPushes == \E first, last \in Ends, eof \in BOOLEAN : Push(first, last, eof)

(* The owner of the stream uses stream_out() between pushes. *)
ReaderReads ==
    /\ \E len \in 0..Capacity : Read(len)
    /\ UNCHANGED <<unassembled, eof_flag, eof_index>>

ReaderPops ==
    /\ \E len \in 0..Capacity : PopOutput(len)
    /\ UNCHANGED <<unassembled, eof_flag, eof_index>>

OwnerFails == SetError /\ UNCHANGED <<unassembled, eof_flag, eof_index>>

Next == NetworkPushes \/ ReaderReads \/ ReaderPops \/ OwnerFails

Spec == Init /\ [][Next]_vars

(* Fairness of the surroundings, none of the reassembler (which only runs  *)
(* when called).  The sender resends the first byte that has not been      *)
(* assembled (the one an ackno would name) for as long as there is one,    *)
(* and then an empty substring with eof; the reader keeps reading.         *)
ResendNext == bytes_written < Len(Stream) /\ Push(bytes_written, bytes_written + 1, FALSE)

ResendEof == bytes_written = Len(Stream) /\ Push(Len(Stream), Len(Stream), TRUE)

FairSpec ==
    /\ Spec
    /\ WF_vars(ResendNext)
    /\ WF_vars(ResendEof)
    /\ WF_vars(ReaderReads)

-----------------------------------------------------------------------------
(* The output holds the bytes of the stream from the reader's position to  *)
(* the writer's: whatever the order, overlap and repetition of the pushes, *)
(* no byte is lost, doubled, moved or taken from another index.            *)
OutputIsStream ==
    /\ bytes_read <= bytes_written
    /\ bytes_written <= Len(Stream)
    /\ buffer = SubSeq(Stream, bytes_read + 1, bytes_written)

(* "This capacity limits both the bytes that have been reassembled, and    *)
(* those that have not yet been reassembled" (stream_reassembler.hh:25).   *)
WithinCapacity == Len(buffer) + Cardinality(DOMAIN unassembled) <= Capacity

(* The map holds only bytes that wait for an earlier one: the next byte    *)
(* to be written is never left in it, nor is one already written, and none *)
(* lies behind the window.                                                 *)
OnlyGapsWait == DOMAIN unassembled \subseteq (MinPos + 1)..(MaxPos - 1)

(* end_input() is called exactly when it should be: never before the last  *)
(* byte is written, and without delay once an eof has been recorded and    *)
(* the last byte is there, whichever of the two comes last.                *)
EndExact ==
    /\ input_ended => bytes_written = Len(Stream)
    /\ eof_flag /\ bytes_written = Len(Stream) => input_ended

(* The indices whose byte the receiver has, in the output or in the map. *)
Held == 0..(bytes_written - 1) \cup DOMAIN unassembled

HeldKept == Held \subseteq Held'

(* A byte the reassembler once had is never forgotten.  Bytes leave the    *)
(* map before write() is called, so this needs write() never to accept     *)
(* less than it is given.                                                  *)
HeldForever == [][HeldKept]_vars

PushKept ==
    \A first, last \in Ends, eof \in BOOLEAN :
        Push(first, last, eof) => {i \in first..(last - 1) : i < MaxPos} \subseteq Held'

(* Of a substring that is not discarded, every byte before the end of the  *)
(* window is kept.                                                         *)
WindowKept == [][PushKept]_vars

(* The early return of push_substring loses nothing: of a substring it     *)
(* discards, every byte before the end of the window is held already.      *)
DiscardsOnlyHeld ==
    \A first, last \in Ends :
        first <= last /\ Discarded(SubSeq(Stream, first + 1, last), first)
            => {i \in first..(last - 1) : i < MaxPos} \subseteq Held

(* The reassembler implements in-order delivery with a window of Capacity. *)
Delivery == INSTANCE InOrderDelivery WITH
    Window <- Capacity, ready <- buffer, position <- bytes_written, ended <- input_ended

ImplementsDelivery == Delivery!Spec

(* With a sender that resends and a reader that reads, the whole stream is *)
(* delivered and its end announced, however full the window was.           *)
EverythingArrives == <>[](Eof /\ bytes_read = Len(Stream))
=============================================================================
