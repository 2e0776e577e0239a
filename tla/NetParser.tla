----------------------------- MODULE NetParser -----------------------------
(***************************************************************************)
(* NetParser and NetUnparser of libsponge/util/parser.{hh,cc}: numbers in  *)
(* network byte order.  A parser is a record of the bytes left and of the  *)
(* error so far, which stays once it is set.                               *)
(***************************************************************************)
EXTENDS InternetChecksum

Parser(bytes) == [buffer |-> bytes, error |-> "NoError"]

(* Mutant: a number that would end with the last byte is refused. *)
CheckSizeStrict(p, n) == IF n >= Len(p.buffer) THEN [p EXCEPT !.error = "PacketTooShort"] ELSE p

(* _check_size() *)
CheckSize(p, n) == IF n > Len(p.buffer) THEN [p EXCEPT !.error = "PacketTooShort"] ELSE p

Failed(p) == p.error # "NoError"

(* After _check_size(): n bytes less, unless there is an error. *)
Advance(p, n) ==
    IF Failed(p) THEN p ELSE [p EXCEPT !.buffer = SubSeq(p.buffer, n + 1, Len(p.buffer))]

(* remove_prefix(), and what _parse_int() leaves of the parser. *)
Skip(p, n) == Advance(CheckSize(p, n), n)

(* What _parse_int() returns, for a number of n bytes. *)
ParseInt(p, n) ==
    LET ret[i \in 0..n] == IF i = 0 THEN 0 ELSE ret[i - 1] * Base + p.buffer[i]
    IN  IF Failed(CheckSize(p, n)) THEN 0 ELSE ret[n]

(* The weight of a byte by its distance from the last one. *)
Weight == <<1, Base, Word, Word * Base>>

(* The bytes _unparse_int() appends. *)
UnparseInt(v, n) == [i \in 1..n |-> (v \div Weight[n - i + 1]) % Base]
=============================================================================
