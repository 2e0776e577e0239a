-------------------------- MODULE InternetChecksum --------------------------
(***************************************************************************)
(* The class InternetChecksum of libsponge/util/util.{hh,cc}.  Base is the *)
(* number of values of a byte, 256 in the code; a smaller one keeps 32-bit *)
(* numbers (Base^4) within the range of TLC's integers.                    *)
(***************************************************************************)
EXTENDS Naturals, Sequences

CONSTANT Base

(* The six flags of a TCP header take six bits of a byte. *)
ASSUME BaseAssumption == Base \in {64, 128, 256}

Byte == 0..(Base - 1)
Word == Base * Base

InitialSum(initial_sum) == [sum |-> initial_sum % (Word * Word), parity |-> FALSE]

(* One turn of the loop in add(): the first byte of a pair is the high one. *)
AddByte(check, b) ==
    [sum |-> (check.sum + (IF check.parity THEN b ELSE b * Base)) % (Word * Word),
     parity |-> ~check.parity]

AddBytes(check, data) ==
    LET after[i \in 0..Len(data)] == IF i = 0 THEN check ELSE AddByte(after[i - 1], data[i])
    IN  after[Len(data)]

(* Mutant: every call of add() begins a new pair. *)
AddAfresh(check, data) == AddBytes([check EXCEPT !.parity = FALSE], data)

(* add() *)
Add(check, data) == AddBytes(check, data)

(* value(): the carries are added in until none is left, and the complement. *)
Value(check) ==
    LET fold[s \in Nat] == IF s < Word THEN s ELSE fold[(s \div Word) + (s % Word)]
    IN  Word - 1 - fold[check.sum]
=============================================================================
