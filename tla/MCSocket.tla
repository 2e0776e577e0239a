------------------------------ MODULE MCSocket ------------------------------
(* A FileDescriptor, two TCPSockets (one may accept into the other), a     *)
(* UDPSocket, a LocalStreamSocket and a TunTapFD; the FileDescriptor is    *)
(* made from a socket of any of these kinds or from a file.                *)
EXTENDS Socket, TLC

CONSTANTS f, s1, s2, u, l, t, n1, n2

MCHandle == {f, s1, s2, u, l, t}
MCClass == [h \in MCHandle |-> CASE h = f -> "FileDescriptor"
                                 [] h = t -> "TunTapFD"
                                 [] h = u -> "UDPSocket"
                                 [] h = l -> "LocalStreamSocket"
                                 [] OTHER -> "TCPSocket"]
MCNumber == {n1, n2}
MCPlainKinds == {TCPKind, UDPKind, LocalKind, NoKind}

(* Nothing tells the two TCPSockets, or the two numbers, apart. *)
MCSymmetry == Permutations({s1, s2}) \cup Permutations(MCNumber)

(* No guard and no property reads counted, nor what a number was or did    *)
(* that has been closed: states that differ only there behave alike.       *)
MCView ==
    LET open == {owner[n] : n \in Number} \ {None}
    IN  <<lifeVars, [w \in open |-> kind[w]], listening \cap open>>
=============================================================================
