---------------------------- MODULE PlainStrings ----------------------------
(***************************************************************************)
(* What Buffer and BufferList promise, as if every one of them held a      *)
(* string of its own: copies are independent, and discarding bytes from    *)
(* the front of one changes no other.                                      *)
(***************************************************************************)
EXTENDS Naturals, Sequences

CONSTANTS List, Strings

VARIABLES
    text,       (* the string of each BufferList                    *)
    word,       (* the string of the Buffer                         *)
    threw       (* the last call threw an exception                 *)

Init == text = [l \in List |-> << >>] /\ word = << >> /\ threw = FALSE

Drop(s, n) == SubSeq(s, n + 1, Len(s))

Assign(l, s) == text' = [text EXCEPT ![l] = s] /\ threw' = FALSE /\ UNCHANGED word

(* All of a string that is too short is discarded from a list, but none    *)
(* from a Buffer.                                                          *)
Discard(l, n) ==
    text' = [text EXCEPT ![l] = Drop(@, n)] /\ threw' = (n > Len(text[l])) /\ UNCHANGED word

Consume(n) ==
    /\ word' = IF n > Len(word) THEN word ELSE Drop(word, n)
    /\ threw' = (n > Len(word))
    /\ UNCHANGED text

Take(l) == word' = text[l] /\ threw' = FALSE /\ UNCHANGED text

(* A list of several Buffers cannot be taken as one. *)
Refuse == threw' = TRUE /\ UNCHANGED <<text, word>>

Next ==
    \/ \E l \in List, s \in Strings : Assign(l, s)
    \/ \E l, k \in List : Assign(l, text[l] \o text[k])
    \/ \E l \in List : Assign(l, word) \/ Take(l)
    \/ \E l \in List : \E n \in 0..(Len(text[l]) + 1) : Discard(l, n)
    \/ \E n \in 0..(Len(word) + 1) : Consume(n)
    \/ Refuse

Spec == Init /\ [][Next]_<<text, word, threw>>
=============================================================================
