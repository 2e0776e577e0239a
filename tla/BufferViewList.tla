--------------------------- MODULE BufferViewList ---------------------------
(***************************************************************************)
(* BufferViewList of libsponge/util/buffer.{hh,cc}: a byte string in       *)
(* pieces, as FileDescriptor::write() consumes it.  A view is the sequence *)
(* of the bytes it shows, so that as_iovecs() is the list itself.  The     *)
(* loops are recursive functions, which the proofs can reason about.       *)
(***************************************************************************)
EXTENDS Naturals, Sequences

(* The bytes of a list of views, in order. *)
Bytes(views) ==
    LET upto[i \in 0..Len(views)] == IF i = 0 THEN << >> ELSE upto[i - 1] \o views[i]
    IN  upto[Len(views)]

(* BufferViewList::size() *)
Size(views) ==
    LET ret[i \in 0..Len(views)] == IF i = 0 THEN 0 ELSE ret[i - 1] + Len(views[i])
    IN  ret[Len(views)]

From(views, i) == SubSeq(views, i, Len(views))

(* Mutant: a view that is only partly consumed is kept whole. *)
TrimmedNot(view, n) == view

(* std::string_view::remove_prefix() *)
Trimmed(view, n) == From(view, n + 1)

(* One turn of the loop in BufferViewList::remove_prefix(), with n bytes   *)
(* still to be removed: the front view is trimmed or, if it is no longer   *)
(* than that, popped.                                                      *)
RemoveTurn(views, n) ==
    IF n < Len(Head(views))
    THEN [views |-> <<Trimmed(Head(views), n)>> \o Tail(views), n |-> 0]
    ELSE [views |-> Tail(views), n |-> n - Len(Head(views))]

(* The turn is repeated while n > 0.  More than there is to remove is an   *)
(* exception, which leaves an empty list; n <= Size(views) here.           *)
RemovePrefix(views, n) ==
    LET turn[k \in 0..Len(views)] ==
            IF k = 0 THEN [views |-> views, n |-> n]
            ELSE IF turn[k - 1].n > 0 /\ turn[k - 1].views # << >>
                 THEN RemoveTurn(turn[k - 1].views, turn[k - 1].n)
                 ELSE turn[k - 1]
    IN  turn[Len(views)].views
=============================================================================
