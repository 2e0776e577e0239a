----------------------------- MODULE MCEventLoop -----------------------------
(* Two descriptors.  ThreeRules: one is both read and written, the other   *)
(* only read.                                                              *)
EXTENDS EventLoop

CONSTANTS f1, f2

MCFD == {f1, f2}

ThreeRules == <<[fd |-> f1, direction |-> "In"],
                [fd |-> f2, direction |-> "In"],
                [fd |-> f1, direction |-> "Out"]>>

TwoRules == <<[fd |-> f1, direction |-> "In"], [fd |-> f2, direction |-> "Out"]>>
=============================================================================
