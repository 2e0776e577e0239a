------------------------------- MODULE Socket -------------------------------
(***************************************************************************)
(* The handles that have a kind, libsponge/util/socket.{hh,cc} and tun.cc: *)
(* Socket and TunTapFD derive from FileDescriptor, and their constructors  *)
(* may throw when the descriptor is already theirs.  C++ then destroys the *)
(* FileDescriptor that was constructed, which lets go of the descriptor,   *)
(* and the FileDescriptor it was moved from stays empty.                   *)
(*                                                                         *)
(* A kind is a domain and a type; <<"file", "none">> stands for what is no *)
(* socket.                                                                 *)
(***************************************************************************)
EXTENDS FileDescriptor

CONSTANTS
    Class,          (* the C++ type of each handle                       *)
    PlainKinds      (* the kinds of what a FileDescriptor is made from   *)

VARIABLES
    kind,           (* kernel: what each FDWrapper's number was opened as *)
    listening,      (* kernel: the FDWrappers whose socket listens        *)
    counted         (* the FDWrappers accept() has called register_read() *)
                    (* on, in place of FDWrapper::_read_count             *)

socketVars == <<kind, listening, counted>>
allVars == <<lifeVars, socketVars>>

NoKind == <<"file", "none">>

(* What the constructors of the subclasses pass for domain and type. *)
UDPKind   == <<"AF_INET", "SOCK_DGRAM">>
TCPKind   == <<"AF_INET", "SOCK_STREAM">>
LocalKind == <<"AF_UNIX", "SOCK_STREAM">>

KindOf(class) ==
    CASE class = "TCPSocket"         -> TCPKind
      [] class = "UDPSocket"         -> UDPKind
      [] class = "LocalStreamSocket" -> LocalKind
      [] OTHER                       -> NoKind

Sockets == {"TCPSocket", "UDPSocket", "LocalStreamSocket"}

ASSUME ClassAssumption ==
    /\ Class \in [Handle -> Sockets \cup {"FileDescriptor", "TunTapFD"}]
    /\ PlainKinds \subseteq {UDPKind, TCPKind, LocalKind, NoKind}

Plain(h) == Class[h] = "FileDescriptor"

SocketTypeOK ==
    /\ LifeTypeOK
    /\ kind \in [Wrapper -> {UDPKind, TCPKind, LocalKind, NoKind}]
    /\ listening \subseteq 1..made /\ counted \subseteq 1..made

SocketInit ==
    /\ LifeInit
    /\ kind = [w \in Wrapper |-> NoKind]
    /\ listening = {} /\ counted = {}

-----------------------------------------------------------------------------
(* A system call (socket, open, accept, or one of the program's) opens a   *)
(* number of kind k, and h wraps it.                                       *)
Opens(h, k) ==
    /\ Construct(h)
    /\ kind' = [kind EXCEPT ![made + 1] = k]
    /\ UNCHANGED listening

OpenPlain(h) ==
    /\ Plain(h)
    /\ \E k \in PlainKinds : Opens(h, k)
    /\ UNCHANGED counted

(* Socket(domain, type).  A socket(2) that fails throws before there is a  *)
(* FileDescriptor and changes nothing.                                     *)
OpenSocket(h) ==
    /\ Class[h] \in {"TCPSocket", "UDPSocket"}
    /\ Opens(h, KindOf(Class[h]))
    /\ UNCHANGED counted

OpenTunTap(h) ==
    /\ Class[h] = "TunTapFD"
    /\ Opens(h, NoKind)
    /\ UNCHANGED counted

(* Mutant: the number stays open when the constructor throws. *)
TunTapThrowsLeaking(h) ==
    /\ Class[h] = "TunTapFD" /\ WrapperOf(h) = None
    /\ \E n \in Number : FDWrapper(n) /\ owner' = [owner EXCEPT ![n] = made + 1]
    /\ UNCHANGED <<closed, eof, failed, reclosed, internal_fd, socketVars>>

(* TunTapFD(): the device is open and wrapped, and the ioctl fails. *)
TunTapThrows(h) ==
    /\ Class[h] = "TunTapFD" /\ WrapperOf(h) = None
    /\ ConstructInVain
    /\ UNCHANGED socketVars

-----------------------------------------------------------------------------
(* Mutant: the domain is checked but not the type. *)
VerifiedDomain(h, w) ==
    /\ owner[fd[w]] # None
    /\ kind[owner[fd[w]]][1] = KindOf(Class[h])[1]

(* The two calls of getsockopt(2) and the comparisons.  They ask about the *)
(* number, which may have been handed out again if w is closed.            *)
Verified(h, w) ==
    /\ owner[fd[w]] # None
    /\ kind[owner[fd[w]]] = KindOf(Class[h])

(* h is constructed by Socket(FileDescriptor &&, domain, type). *)
FromDescriptor(g, h) ==
    /\ Class[h] \in Sockets /\ WrapperOf(h) = None
    /\ Plain(g) /\ WrapperOf(g) # None
    /\ Verified(h, WrapperOf(g))
    /\ internal_fd' = [internal_fd EXCEPT ![h] = WrapperOf(g), ![g] = None]
    /\ UNCHANGED <<made, fd, closed, eof, owner, failed, reclosed, socketVars>>

(* It throws: what was moved out of g is let go. *)
FromDescriptorThrows(g, h) ==
    /\ Class[h] \in Sockets /\ WrapperOf(h) = None
    /\ Plain(g) /\ WrapperOf(g) # None /\ ~Verified(h, WrapperOf(g))
    /\ Drop(g)
    /\ UNCHANGED socketVars

(* What the kernel has under the number of h: not h's own wrapper if that  *)
(* was closed and the number handed out again.                             *)
Target(h) == owner[fd[WrapperOf(h)]]

(* TCPSocket::listen().  listen(2) needs a stream socket. *)
Listen(h) ==
    /\ Class[h] = "TCPSocket" /\ WrapperOf(h) # None
    /\ Target(h) # None /\ kind[Target(h)] \in {TCPKind, LocalKind}
    /\ listening' = listening \cup {Target(h)}
    /\ UNCHANGED <<lifeVars, kind, counted>>

(* TCPSocket::accept(): register_read() comes first.  The new number is of *)
(* the kind of the listening socket, and if that is not TCP's, the         *)
(* constructor of the TCPSocket throws.                                    *)
Accept(h, g) ==
    /\ Class[h] = "TCPSocket" /\ WrapperOf(h) # None
    /\ counted' = counted \cup {WrapperOf(h)}
    /\ \/ /\ Target(h) \in listening /\ kind[Target(h)] = TCPKind
          /\ Class[g] = "TCPSocket"
          /\ Opens(g, TCPKind)
       \/ /\ Target(h) \in listening /\ kind[Target(h)] # TCPKind
          /\ ConstructInVain
          /\ UNCHANGED <<kind, listening>>
       \/ UNCHANGED <<lifeVars, kind, listening>>

-----------------------------------------------------------------------------
(* Only a FileDescriptor is made by duplicate(), and a move is between     *)
(* handles of one class or leaves a FileDescriptor behind.                 *)
Inherited ==
    \/ \E h \in Handle : Drop(h) \/ Close(h)
    \/ \E h, g \in Handle :
        \/ Plain(g) /\ Duplicate(h, g)
        \/ (Plain(g) \/ Class[g] = Class[h]) /\ Move(h, g)

SocketNext ==
    \/ Inherited /\ UNCHANGED socketVars
    \/ \E h \in Handle :
        OpenPlain(h) \/ OpenSocket(h) \/ OpenTunTap(h) \/ TunTapThrows(h) \/ Listen(h)
    \/ \E h, g \in Handle :
        FromDescriptor(g, h) \/ FromDescriptorThrows(g, h) \/ Accept(h, g)

SocketSpec == SocketInit /\ [][SocketNext]_allVars

-----------------------------------------------------------------------------
(* A handle of a socket class that has its own number has a socket of that *)
(* class's domain and type there, through moves, accept() and construction *)
(* from descriptors, and however close() was misused before.               *)
KindHolds ==
    \A h \in Handle :
        Class[h] \in Sockets /\ WrapperOf(h) # None /\ Target(h) = WrapperOf(h)
            => kind[Target(h)] = KindOf(Class[h])
=============================================================================
