----------------------------- MODULE BufferList -----------------------------
(***************************************************************************)
(* Buffer and BufferList of libsponge/util/buffer.{hh,cc}: a Buffer is a   *)
(* counted reference to a string and an offset into it, a BufferList a     *)
(* queue of Buffers.  A program makes lists from strings, appends one to   *)
(* another, takes a list as a Buffer, and discards bytes.                  *)
(***************************************************************************)
EXTENDS BufferViewList

CONSTANTS
    Byte,           (* the bytes                                         *)
    List,           (* variables of type BufferList                      *)
    Strings,        (* the strings they are made from                    *)
    Storage,        (* where shared strings are kept, numbers but 0      *)
    MaxBuffers      (* bound on the Buffers of a list                    *)

ASSUME ListAssumption ==
    Strings \subseteq Seq(Byte) /\ Storage \subseteq Nat \ {0} /\ MaxBuffers \in Nat

VARIABLES
    heap,           (* the string kept in each storage                   *)
    lists,          (* BufferList::_buffers of each list                 *)
    buffer,         (* a variable of type Buffer                         *)
    threw           (* the last call threw an exception                  *)

vars == <<heap, lists, buffer, threw>>

None == 0
Null == [storage |-> None, offset |-> 0]

(* The Buffers there are, and the storages they refer to: those with a     *)
(* reference count above zero.                                             *)
Held(ls, b) == {b} \cup UNION {{ls[l][i] : i \in DOMAIN ls[l]} : l \in List}
Uses(ls, b) == {c.storage : c \in Held(ls, b)} \ {None}
InUse == Uses(lists, buffer)

(* Buffer::str(), where h is the heap *)
Str(h, b) == IF b.storage = None THEN << >> ELSE From(h[b.storage], b.offset + 1)

TypeOK ==
    /\ DOMAIN lists = List /\ threw \in BOOLEAN
    /\ \A l \in List : Len(lists[l]) <= MaxBuffers
    /\ InUse \subseteq Storage
    /\ \A b \in Held(lists, buffer) : b.storage # None => b.offset \in 0..Len(heap[b.storage])

Init ==
    /\ heap = [i \in Storage |-> << >>]
    /\ lists = [l \in List |-> << >>] /\ buffer = Null /\ threw = FALSE

-----------------------------------------------------------------------------
(* Mutant: the storage is kept when the last byte is discarded. *)
TrimmedKept(h, b, n) == [b EXCEPT !.offset = @ + n]

(* Mutant: the offset is that of the last call. *)
TrimmedAnew(h, b, n) == [b EXCEPT !.offset = n]

(* What Buffer::remove_prefix() makes of a Buffer of at least n bytes. *)
TrimmedBuffer(h, b, n) ==
    [storage |-> IF b.storage # None /\ b.offset + n = Len(h[b.storage]) THEN None ELSE b.storage,
     offset  |-> b.offset + n]

(* BufferViewList(const BufferList &) *)
Views(h, bufs) == [i \in 1..Len(bufs) |-> Str(h, bufs[i])]

(* BufferList::concatenate() and size() *)
Concatenate(h, bufs) == Bytes(Views(h, bufs))
ListSize(h, bufs) == Size(Views(h, bufs))

(* One turn of the loop in BufferList::remove_prefix(), with n bytes still *)
(* to be removed.                                                          *)
DiscardTurn(h, bufs, n) ==
    LET size == Len(Str(h, Head(bufs)))
    IN  IF n < size
        THEN [buffers |-> <<TrimmedBuffer(h, Head(bufs), n)>> \o Tail(bufs), n |-> 0]
        ELSE [buffers |-> Tail(bufs), n |-> n - size]

(* What the loop leaves: it throws if n > 0 and there is no Buffer. *)
Discarded(h, bufs, n) ==
    LET turn[k \in 0..Len(bufs)] ==
            IF k = 0 THEN [buffers |-> bufs, n |-> n]
            ELSE IF turn[k - 1].n > 0 /\ turn[k - 1].buffers # << >>
                 THEN DiscardTurn(h, turn[k - 1].buffers, turn[k - 1].n)
                 ELSE turn[k - 1]
    IN  turn[Len(bufs)]

(* A string to which the last reference is gone is freed. *)
Keeping(h) == heap' = [i \in Storage |-> IF i \in Uses(lists', buffer') THEN h[i] ELSE << >>]

-----------------------------------------------------------------------------
(* l = BufferList(move(s)) *)
Make(l, s) ==
    /\ InUse # Storage
    /\ threw' = FALSE /\ UNCHANGED buffer
    /\ LET i == CHOOSE j \in Storage \ InUse : TRUE
       IN  /\ lists' = [lists EXCEPT ![l] = <<[storage |-> i, offset |-> 0]>>]
           /\ Keeping([heap EXCEPT ![i] = s])

(* l.append(k), where k is another list *)
AppendList(l, k) ==
    /\ l # k /\ Len(lists[l]) + Len(lists[k]) <= MaxBuffers
    /\ lists' = [lists EXCEPT ![l] = @ \o lists[k]]
    /\ threw' = FALSE /\ UNCHANGED <<heap, buffer>>

(* l.remove_prefix(n) *)
Discard(l, n) ==
    /\ LET left == Discarded(heap, lists[l], n)
       IN  lists' = [lists EXCEPT ![l] = left.buffers] /\ threw' = (left.n > 0)
    /\ UNCHANGED buffer /\ Keeping(heap)

(* buffer = Buffer(l), by BufferList::operator Buffer *)
TakeBuffer(l) ==
    /\ \/ lists[l] = << >> /\ buffer' = Null
       \/ Len(lists[l]) = 1 /\ buffer' = lists[l][1]
       \/ Len(lists[l]) > 1 /\ UNCHANGED buffer
    /\ threw' = (Len(lists[l]) > 1)
    /\ UNCHANGED lists /\ Keeping(heap)

TooMuch(n) == n > Len(Str(heap, buffer))

(* buffer.remove_prefix(n) *)
Consume(n) ==
    /\ buffer' = IF TooMuch(n) THEN buffer ELSE TrimmedBuffer(heap, buffer, n)
    /\ threw' = TooMuch(n)
    /\ UNCHANGED lists /\ Keeping(heap)

(* l = BufferList(buffer) *)
FromBuffer(l) ==
    /\ lists' = [lists EXCEPT ![l] = <<buffer>>]
    /\ threw' = FALSE
    /\ UNCHANGED buffer /\ Keeping(heap)

Next ==
    \/ \E l \in List, s \in Strings : Make(l, s)
    \/ \E l, k \in List : AppendList(l, k)
    \/ \E l \in List : TakeBuffer(l) \/ FromBuffer(l)
    \/ \E l \in List : \E n \in 0..(ListSize(heap, lists[l]) + 1) : Discard(l, n)
    \/ \E n \in 0..(Len(Str(heap, buffer)) + 1) : Consume(n)

Spec == Init /\ [][Next]_vars

-----------------------------------------------------------------------------
Plain == INSTANCE PlainStrings WITH
            text <- [l \in List |-> Concatenate(heap, lists[l])],
            word <- Str(heap, buffer)

(* Lists and Buffers that share their strings behave as if each had a      *)
(* string of its own: discarding bytes from one never shows in another,    *)
(* bytes are discarded from the front and across the Buffers of a list,    *)
(* and when remove_prefix() throws a list is empty and a Buffer as before. *)
ImplementsStrings == Plain!Spec

(* "Doesn't free any memory until the whole string has been discarded in   *)
(* all copies of the Buffer" (buffer.hh:47), but does so then: a string    *)
(* that is kept, unless it is empty, has a byte some list or the Buffer    *)
(* still shows.                                                            *)
FreedWhenDiscarded ==
    \A b \in Held(lists, buffer) :
        b.storage # None => Str(heap, b) # << >> \/ heap[b.storage] = << >>
=============================================================================
