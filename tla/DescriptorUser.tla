--------------------------- MODULE DescriptorUser ---------------------------
(***************************************************************************)
(* A program that reads, writes and shuts down a descriptor in any order.  *)
(***************************************************************************)
EXTENDS FileDescriptorIO

VARIABLE calls  (* bound: calls of write() and shutdown() so far *)

vars == <<ioVars, calls>>

TypeOK == IOTypeOK /\ calls \in 0..MaxCalls

Init == IOInit /\ calls = 0

ProgramWrites ==
    /\ calls < MaxCalls
    /\ \E payload \in Payloads, all \in BOOLEAN : StartWrite(payload, all)
    /\ calls' = calls + 1

ProgramReads ==
    /\ read_count < MaxCalls
    /\ \E limit \in Limits : Read(limit)
    /\ UNCHANGED calls

ProgramShutsDown ==
    /\ calls < MaxCalls /\ read_count < MaxCalls
    /\ \E how \in {"RD", "WR", "RDWR"} : Shutdown(how)
    /\ calls' = calls + 1

ProgramSetsBlocking ==
    /\ \E blocking_state \in BOOLEAN : SetBlocking(blocking_state)
    /\ UNCHANGED calls

Writing == WriteTurn /\ UNCHANGED calls
Failing == WriteThrows /\ UNCHANGED calls
Peer    == (PeerTakes \/ PeerSends \/ PeerCloses) /\ UNCHANGED calls

Next ==
    \/ ProgramWrites \/ ProgramReads \/ ProgramShutsDown \/ ProgramSetsBlocking
    \/ Writing \/ Failing \/ Peer

Spec == Init /\ [][Next]_vars

(* A thread in write() goes on, an exception included when writev() cannot *)
(* but fail, and the peer takes what has arrived.                          *)
FairSpec ==
    /\ Spec
    /\ WF_vars(Writing \/ (Failing /\ MustFail))
    /\ WF_vars(PeerTakes /\ UNCHANGED calls)

(* A write() comes to an end if the peer keeps taking bytes: the loop      *)
(* neither spins on an empty view nor waits for room that never comes.     *)
WriteEnds == phase = "writing" ~> phase \in {"returned", "threw"}
=============================================================================
