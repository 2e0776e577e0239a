--------------------------- MODULE FileDescriptor ---------------------------
(***************************************************************************)
(* The life of file descriptors in libsponge/util/file_descriptor.{hh,cc}: *)
(* FileDescriptor handles that share an FDWrapper, which owns a descriptor *)
(* number of the kernel and closes it when the last handle goes away.      *)
(*                                                                         *)
(* The kernel hands a number out again as soon as it is free, so that a    *)
(* close() too many hits a descriptor of somebody else.  Nothing in        *)
(* FileDescriptor::close() prevents one: it does not look at _closed.      *)
(***************************************************************************)
EXTENDS Naturals, FiniteSets

CONSTANTS
    Handle,         (* variables of type FileDescriptor                  *)
    Number,         (* descriptor numbers                                *)
    MaxOpen         (* bound on the FDWrappers made                      *)

Wrapper == 1..MaxOpen
None == 0

ASSUME LifeAssumption == None \notin Number /\ MaxOpen \in Nat

VARIABLES
    internal_fd,    (* the FDWrapper of each handle, or None             *)
    made,           (* how many FDWrappers have been made                *)
    fd,             (* FDWrapper::_fd                                    *)
    closed,         (* FDWrapper::_closed                                *)
    eof,            (* FDWrapper::_eof                                   *)
    owner,          (* kernel: the FDWrapper a number was handed out for *)
                    (* and has not been closed since, or None            *)
    failed,         (* history: the FDWrappers whose close() has failed  *)
    reclosed        (* history: the FDWrappers close() was called on     *)
                    (* when they were closed already                     *)

lifeVars == <<internal_fd, made, fd, closed, eof, owner, failed, reclosed>>

LifeTypeOK ==
    /\ internal_fd \in [Handle -> 0..made]
    /\ made \in 0..MaxOpen
    /\ fd \in [Wrapper -> Number \cup {None}]
    /\ closed \in [Wrapper -> BOOLEAN] /\ eof \in [Wrapper -> BOOLEAN]
    /\ \A w \in Wrapper : closed[w] => eof[w]
    /\ owner \in [Number -> 0..made]
    /\ failed \subseteq 1..made /\ reclosed \subseteq 1..made

LifeInit ==
    /\ internal_fd = [h \in Handle |-> None]
    /\ made = 0
    /\ fd = [w \in Wrapper |-> None]
    /\ closed = [w \in Wrapper |-> FALSE] /\ eof = [w \in Wrapper |-> FALSE]
    /\ owner = [n \in Number |-> None]
    /\ failed = {} /\ reclosed = {}

Handles(w) == {h \in Handle : internal_fd[h] = w}
WrapperOf(h) == internal_fd[h]

-----------------------------------------------------------------------------
SetFlags(w) ==
    /\ closed' = [closed EXCEPT ![w] = TRUE]
    /\ eof' = [eof EXCEPT ![w] = TRUE]

(* FDWrapper::close() on the number of w: the flags are set if close(2)    *)
(* succeeds, otherwise an exception is thrown.  It fails on a number that  *)
(* is not open, and may fail on one that is; the number is free then all   *)
(* the same, as it is on Linux.                                            *)
CloseNumber(w) ==
    /\ owner' = [owner EXCEPT ![fd[w]] = None]
    /\ \/ owner[fd[w]] # None /\ SetFlags(w) /\ UNCHANGED failed
       \/ failed' = failed \cup {w} /\ UNCHANGED <<closed, eof>>

(* Mutant: a wrapper that was closed is closed again. *)
DestroyAlways(w) == CloseNumber(w)

(* ~FDWrapper(), which catches the exception. *)
Destroy(w) ==
    \/ closed[w] /\ UNCHANGED <<closed, eof, owner, failed>>
    \/ ~closed[w] /\ CloseNumber(w)

(* Handle h lets go of its wrapper; the last one destroys it. *)
Release(h) ==
    \/ WrapperOf(h) # None /\ Handles(WrapperOf(h)) = {h} /\ Destroy(WrapperOf(h))
    \/ (WrapperOf(h) = None \/ Handles(WrapperOf(h)) # {h}) /\ UNCHANGED <<closed, eof, owner, failed>>

-----------------------------------------------------------------------------
(* FDWrapper(fd), for a number the kernel has free and hands out. *)
FDWrapper(n) ==
    /\ owner[n] = None /\ made < MaxOpen
    /\ fd' = [fd EXCEPT ![made + 1] = n]
    /\ made' = made + 1

(* A system call returns a new number, and FileDescriptor(fd) wraps it. *)
Construct(h) ==
    /\ WrapperOf(h) = None
    /\ \E n \in Number : FDWrapper(n) /\ owner' = [owner EXCEPT ![n] = made + 1]
    /\ internal_fd' = [internal_fd EXCEPT ![h] = made + 1]
    /\ UNCHANGED <<closed, eof, failed, reclosed>>

(* An exception destroys the FileDescriptor before anybody has it:         *)
(* ~FDWrapper() closes the number, or fails.                               *)
ConstructInVain ==
    /\ \E n \in Number : FDWrapper(n)
    /\ \/ SetFlags(made + 1) /\ UNCHANGED failed
       \/ failed' = failed \cup {made + 1} /\ UNCHANGED <<closed, eof>>
    /\ UNCHANGED <<internal_fd, owner, reclosed>>

(* g = h.duplicate(), where g is a new handle. *)
Duplicate(h, g) ==
    /\ WrapperOf(h) # None /\ WrapperOf(g) = None
    /\ internal_fd' = [internal_fd EXCEPT ![g] = WrapperOf(h)]
    /\ UNCHANGED <<made, fd, closed, eof, owner, failed, reclosed>>

(* g = move(h), which releases what g had. *)
Move(h, g) ==
    /\ h # g /\ WrapperOf(h) # None
    /\ Release(g)
    /\ internal_fd' = [internal_fd EXCEPT ![g] = WrapperOf(h), ![h] = None]
    /\ UNCHANGED <<made, fd, reclosed>>

(* ~FileDescriptor() *)
Drop(h) ==
    /\ WrapperOf(h) # None
    /\ Release(h)
    /\ internal_fd' = [internal_fd EXCEPT ![h] = None]
    /\ UNCHANGED <<made, fd, reclosed>>

(* h.close(), on a wrapper that may be closed already. *)
Close(h) ==
    /\ WrapperOf(h) # None
    /\ CloseNumber(WrapperOf(h))
    /\ reclosed' = IF closed[WrapperOf(h)] THEN reclosed \cup {WrapperOf(h)} ELSE reclosed
    /\ UNCHANGED <<internal_fd, made, fd>>

-----------------------------------------------------------------------------
(* A wrapper in use has the number that was handed out for it until its    *)
(* own close(), unless close() failed, or was called once too often, on a  *)
(* wrapper that has or had the same number: no destructor, no move and no  *)
(* first close() that succeeds takes away the number of another wrapper,   *)
(* though numbers are handed out again, and only a number that went        *)
(* through such a close() is ever lost.                                    *)
Owned ==
    \A w \in 1..made :
        Handles(w) # {} /\ ~closed[w] /\ w \notin failed /\ owner[fd[w]] # w
            => \E v \in failed \cup reclosed : fd[v] = fd[w]

(* A number that is open belongs to a wrapper some handle refers to: none  *)
(* is left open when the last handle goes away, not even after a failure   *)
(* or a second close().                                                    *)
NoLeak ==
    \A n \in Number : owner[n] # None =>
        Handles(owner[n]) # {} /\ ~closed[owner[n]] /\ fd[owner[n]] = n

=============================================================================
