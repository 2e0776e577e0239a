------------------------------- MODULE Webget -------------------------------
(***************************************************************************)
(* apps/webget.cc: get_URL() sends a request on a TCP socket and prints    *)
(* what comes back until the end of file, with write() and read() of       *)
(* FileDescriptorIO.  The server answers a request once it has all of it,  *)
(* closes the connection after its reply (the request asks for that), and  *)
(* may reset the connection or fall silent at any time.                    *)
(***************************************************************************)
EXTENDS FileDescriptorIO

CONSTANT Request    (* the request, as the view list write() is given *)

ASSUME RequestAssumption == Request \in Payloads

VARIABLES
    client,     (* "start", "asking", "printing", "done" or "failed" *)
    output,     (* what has been printed                             *)
    server      (* "up", "reset" or "silent": it says nothing more   *)

clientVars == <<client, output, server>>
getVars == <<ioVars, clientVars>>

GetTypeOK ==
    /\ IOTypeOK
    /\ client \in {"start", "asking", "printing", "done", "failed"}
    /\ Len(output) <= Len(Reply) /\ server \in {"up", "reset", "silent"}

GetInit == IOInit /\ client = "start" /\ output = << >> /\ server = "up"

(* The limit of a read() without arguments: more than there can be. *)
NoLimit == Len(Reply) + BufferSize

-----------------------------------------------------------------------------
(* Mutant: the request is written with a single call of writev(). *)
AskOnce == StartWrite(Request, FALSE)

(* sock.write(request), whose write_all is true by default. *)
Ask == StartWrite(Request, TRUE)

(* sock.connect() succeeds, and write() is called. *)
Connect ==
    /\ client = "start"
    /\ Ask
    /\ client' = "asking"
    /\ UNCHANGED <<output, server>>

Asking ==
    /\ client = "asking" /\ server # "reset"
    /\ WriteTurn
    /\ client' = IF phase' = "returned" THEN "printing" ELSE "asking"
    /\ UNCHANGED <<output, server>>

(* Mutant: what the first read() returns is everything. *)
AtTheEndOnce == read_count > 0

(* The condition that ends the loop. *)
AtTheEnd == eof

(* cout << sock.read() *)
PrintMore ==
    /\ client = "printing" /\ ~AtTheEnd /\ server # "reset"
    /\ Read(NoLimit)
    /\ output' = output \o From(got', Len(got) + 1)
    /\ UNCHANGED <<client, server>>

(* sock.close(), and main() returns EXIT_SUCCESS. *)
Finish ==
    /\ client = "printing" /\ AtTheEnd
    /\ client' = "done"
    /\ UNCHANGED <<output, server, ioVars>>

(* The name cannot be resolved, the server not be reached, a call on a     *)
(* connection that was reset fails, or close() does: main() returns        *)
(* EXIT_FAILURE.                                                           *)
Fail ==
    /\ \/ client = "start" /\ UNCHANGED ioVars
       \/ client = "asking" /\ server = "reset" /\ WriteThrows
       \/ client = "printing" /\ (AtTheEnd \/ server = "reset") /\ UNCHANGED ioVars
    /\ client' = "failed"
    /\ UNCHANGED <<output, server>>

-----------------------------------------------------------------------------
ServerTakes == server = "up" /\ PeerTakes /\ UNCHANGED clientVars

ServerReplies ==
    /\ server = "up" /\ arrived = Bytes(Request)
    /\ \/ PeerSends
       \/ replied = Len(Reply) /\ PeerCloses
    /\ UNCHANGED clientVars

Breaks ==
    /\ server = "up" /\ client \in {"asking", "printing"}
    /\ server' \in {"reset", "silent"}
    /\ UNCHANGED <<client, output, ioVars>>

(* No timeout ends a wait for a server that has fallen silent. *)
Terminated == (client \in {"done", "failed"} \/ server = "silent") /\ UNCHANGED getVars

Client == Connect \/ Asking \/ PrintMore \/ Finish \/ Fail

GetNext == Client \/ ServerTakes \/ ServerReplies \/ Breaks \/ Terminated

GetSpec == GetInit /\ [][GetNext]_getVars

(* The client runs on, and a server that is reached takes the request and  *)
(* replies; it is never forced to reset the connection or to fall silent.  *)
FairGetSpec == GetSpec /\ WF_getVars(Client) /\ WF_getVars(ServerTakes) /\ WF_getVars(ServerReplies)

-----------------------------------------------------------------------------
(* "print out everything the server sends back, (not just one call to      *)
(* read() -- everything) until you reach the "eof"" (webget.cc:16): when   *)
(* the program exits with success it has printed the whole reply, and      *)
(* never anything but a prefix of it.                                      *)
PrintsEverything ==
    /\ output = SubSeq(Reply, 1, Len(output))
    /\ client = "done" => output = Reply

(* The program ends, whatever the sizes of the pieces: client and server   *)
(* do not wait for each other with the request sent in part, and the loop  *)
(* on eof() is left unless the server falls silent before it has closed,   *)
(* from which there is no way out.                                         *)
Ends == <>(client \in {"done", "failed"} \/ (server = "silent" /\ ~peer_closed))
=============================================================================
