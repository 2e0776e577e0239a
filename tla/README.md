# A TLA+ verification of libsponge

libsponge is a user-level TCP library under construction: a byte stream, a
reassembler, wrapping sequence numbers, a receiver that is still a stub, the
TCP segment format, and the utilities (buffers, file descriptors, sockets, an
event loop) they run on. `apps/webget.cc` is a program on top of the sockets.

The modules here are translated from the source. Names follow the source
(`bytes_written` is `_bytes_written`). A definition whose comment starts with
"Mutant" is a deliberately wrong variant of the one after it, used to show that
a property notices such a bug; no specification uses it.

## Inventory

| Part | Source | State of it here |
| --- | --- | --- |
| ByteStream | `byte_stream.{hh,cc}` | modelled, proved |
| StreamReassembler | `stream_reassembler.{hh,cc}` | modelled, proved |
| WrappingInt32, wrap, unwrap | `wrapping_integers.{hh,cc}` | modelled, proved |
| EventLoop | `util/eventloop.{hh,cc}` | modelled, proved |
| FileDescriptor | `util/file_descriptor.{hh,cc}` | modelled, proved |
| Buffer, BufferList, BufferViewList | `util/buffer.{hh,cc}` | modelled, proved |
| Sockets | `util/socket.{hh,cc}` | constructors, listen, accept, shutdown, UDP send and receive; proved |
| TunTapFD | `util/tun.{hh,cc}` | modelled, proved |
| TCPSegment, TCPHeader, NetParser | `tcp_helpers/`, `util/parser.*` | parse and serialize, proved; not the printing |
| InternetChecksum | `util/util.{hh,cc}` | modelled, proved |
| webget | `apps/webget.cc` | get_URL and the exit status; proved |
| TCPReceiver, TCPState | `tcp_receiver.*`, `tcp_helpers/tcp_state.*` | not modelled, see below |
| Address, random numbers, timestamps, hexdump | `util/` | not modelled, see below |

The hazards of each part are listed in `PROJECT.json`.

## Modules

**ByteStream, ByteStreamPipe.** `ByteStream` has the members of the class as
variables and one operator per method. The buffer is a sequence. `ByteStreamPipe`
is a writer and a reader calling the methods in any order. The history variables
`accepted`, `taken` and `peeked` say what went in, what came out and what the
reader looked at last.

**StreamReassembler, InOrderDelivery.** `PushSubstring` is `push_substring()`
whole: the early return, the recording of eof, the copying loop (`Stored`), the
assembling loop (`FirstGap`), the write, and `end_input()`. The output is the
ByteStream of the module above. Substrings are excerpts of one constant
`Stream`, pushed in any order and any number of times, so an eof mark is always
truthful. The members `_next_byte_index` and `_last_reassembler_size` are never
used by the code and have no variable. `InOrderDelivery` is what the reassembler
promises: bytes of the stream become ready in order within a window.

**WrappingIntegers, SequenceNumbers.** The widths 2^32 and 2^64 are the constants
`M` and `K * M`, and all arithmetic is modulo these, with the signed distances of
`unwrap()` as two's complement. `SequenceNumbers` is a sender and a receiver
(outside the source) that use the functions over a network that delays, repeats
and loses.

**EventLoop.** A turn of either loop of `wait_next_event()` is a step; so is the
call of `poll()`. The program adds rules between calls. Callbacks service their
descriptor, close any descriptor (that of another rule too) or do neither, and
may change the interest of a rule. They do not add rules. A descriptor is taken
to be non-blocking: a read or write of one that is not ready throws. Only
readiness that some rule can ask for is tracked (`Watched`).

**FileDescriptor, Socket.** `FileDescriptor` has the handles, the FDWrapper they
share, and the numbers of the kernel, which are handed out again. Two things in the
code close a number that may be somebody else's by then. `close()` does not look at
`_closed`, so a second call closes the number again. And when close(2) fails the
number is free all the same, as on Linux, but `_closed` stays false and the
destructor closes it again. Both are modelled. The history variables `reclosed` and
`failed` name the wrappers they happened to, and `Owned` says that nothing else
takes a number from a wrapper. `Socket` adds the classes that derive from
it. A handle has a C++ class and an open number has a kind (domain and type).
A call on a handle acts on what the kernel has under its number (`Target`), so that
`listen()` and `accept()` through a closed handle may reach the socket of another.
A constructor that throws lets go of the descriptor that was moved or opened into
it (`ConstructInVain`). `accept()` counts a read before it calls accept(2); the counter is kept as
the set of wrappers it was moved for.

**BufferViewList, FileDescriptorIO, DescriptorUser.** `read()`, `shutdown()` and
`set_blocking()` are one step each. `write()` takes one step for each turn of its
loop, since each calls `writev()`. The kernel has limited room; the peer takes and
sends bytes in between. After `shutdown()` of writing, and on a non-blocking
descriptor without room, `writev()` of any data fails and `write()` throws; with
nothing to write it returns 0. `DescriptorUser`
is a program that calls all of them in any order. "Wrote more than the length of
the buffer" and "read more than requested" cannot happen with a kernel that keeps
its contract and are left out. SIGPIPE is taken to be ignored. The loop of
`BufferViewList::remove_prefix()` is a recursive function of its turns
(`RemoveTurn`), as is that of `BufferList::remove_prefix()` (`DiscardTurn`).

**Webget.** Composes `FileDescriptorIO` with the program and a server that
replies when it has the whole request and closes afterwards, or resets the
connection or falls silent at any time. Its specification is `GetSpec`, so that it
can stand beside that of `DescriptorUser` in one proof module.

**BufferList, PlainStrings.** `BufferList` has Buffers as a storage and an offset,
the strings they share in `heap`, and the lists. A string is freed with its last
reference. `PlainStrings` is what this stands for: every list and the Buffer has
a string of its own. The refinement mapping is `concatenate()` and `str()`. The
operators take the heap as a parameter, because a call reads the strings of before
it while it decides which ones are let go.

**InternetChecksum, NetParser, TCPSegment.** Pure operators on bytes, one per
function of the source. A byte has `Base` values, 256 in the code and 64 in the
run, so that a 32-bit number is below TLC's limit; the flags need six bits. The
four upper bits of the byte of `doff` become the upper four of six. The proofs are
for 64, 128 and 256 alike.

**UDPSocket, SegmentLink.** `UDPSocket` is a sender and a receiver;
`recv()` keeps what the caller's payload held before, as `resize()` does, a
datagram that is too long is gone, and a `recvfrom()` that fails leaves the payload
resized (`RecvThrows`). `SegmentLink` sends TCP segments through it,
one after another in sequence space, to a receiver that parses them. The last
datagram may be damaged, cut short or come under another pseudo-header; datagrams
of another implementation have options or a `doff` the code never writes.

## Runs

| Run | Shows | Bounds |
| --- | --- | --- |
| `byte_stream` | order, accounting, valid peeks, a final end, delivery to a reader | capacity 2, writes and reads of up to 3 bytes, 4 bytes in total: full, empty and overfull all occur |
| `reassembler` | output is the stream, capacity, nothing held is lost, the early return loses nothing, refinement of `InOrderDelivery`, everything arrives | stream of 7 distinct bytes, capacity 4, so the window moves and is full |
| `sequence_numbers` | `unwrap()` recovers the number meant | M = 8, K = 4, the whole number space, three ISNs, 2 segments in flight |
| `event_loop` | list and vector stay in step, cancel once, dispatch complete, callbacks run on results that are stale only by another callback or a hangup, exhausted rules leave, nobody starves or is left behind by Exit | 3 rules on 2 descriptors, two of them sharing one |
| `descriptor_io` | write and read are exact, the counters tell progress, write ends | 3 bytes in up to 5 pieces, room for 2, 2 calls of each |
| `webget` | success means everything was printed; only a server that falls silent before it has closed keeps it from ending | request and reply of 4 bytes, reads of 2, room for 3 |
| `sockets` | a wrapper loses its number to another only through a close() that failed or was one too many, no number leaks when a constructor throws, a socket handle with a number of its own has its kind | 6 handles of all 5 classes, 2 numbers, 3 wrappers, so that numbers are reused; the two TCPSockets and the two numbers are symmetric, and a view leaves out what nothing reads: the read counter and what closed numbers were |
| `buffers` | shared buffers behave as separate strings, storage is let go | 2 lists of up to 2 Buffers and 1 Buffer, strings of 0 to 2 bytes, 2 storages |
| `segments` | round trip, damage detected, truncation and options, checksum of pieces, no part of a datagram | 2 datagrams, the second one harmed; 3 headers, odd and empty payloads, 3 foreign packets, 2 pseudo-headers, every position damaged or cut; receive buffers smaller and larger than a segment; a view leaves out the write counter, and `connected` once nothing is left to send |

Three runs end in a violation, each of a statement in the source:

- `reassembler_eof`: eof on a repeated substring is lost in the early return.
- `event_loop_poll_error`: a failing `poll()` does not throw.
- `segment_doff`: `TCPSegment::parse()` reports NoError for a header whose length
  is below the minimum.

Two more places where a comment says more than the code does are in the
conditions of passing properties. `UnwrapClosest` leaves out checkpoints in the
last 2^32 numbers, where `unwrap()` may return a small number
(`wrapping_integers.hh:30`). `SuccessExplained` lets Success be returned with no
rule triggered after a hangup of a descriptor nobody is interested in
(`eventloop.hh:44`).

Every module states a type invariant. Those of the byte stream and the reassembler
are proved as theorems, and those of sequence numbers and sockets as part of an
inductive invariant. The others document the variables and are not part of a run;
they hold on the same instances when added to the configuration.

`WindowKept` speaks of steps that change something. A discarded substring changes
nothing, so the invariant `DiscardsOnlyHeld` covers the early return.

Deadlock is not checked in `descriptor_io`, `sockets` and `segments`, where the
bounds on calls, wrappers and datagrams end every behaviour.

## Fairness

- ByteStream: the reader keeps reading while there is something to read. The
  writer owes nothing: what is promised holds once it has ended the stream.
- Reassembler: the sender resends the first missing byte, and then an empty
  substring with eof; the reader reads. The reassembler itself only runs when
  called. Resending eof with bytes already assembled would not do, see above.
- EventLoop: the program keeps calling `wait_next_event()`, a call runs on, and
  `poll()` returns when it has something to report. The peers owe nothing, and
  `NoStarvation` excepts a `poll()` that fails again and again.
- write(): the thread runs on, an exception included when `writev()` cannot but
  fail, and the peer takes what has arrived.
- webget: the server takes, replies and closes, as `Connection: close` asks, unless
  it resets the connection or falls silent, which is never forced.

## Proofs

TLAPS proves the theorems for every value of the constants: every capacity,
stream, width, table of rules, list of views, number of handles. The assumptions
are the named ones of the modules. They say what the constants are (a natural
capacity, byte strings, buffers and kernel room of at least one byte), and
`WidthAssumption` says that a 32-bit range is even and fits at least four times
into the 64-bit one. `LinkAssumption` says that the fields of a header fit their
widths, that the sum of a pseudo-header is below 2^24 and that a packet is below
2^16 bytes, as for IP. `BoundsAssumption`, `MaxCalls` and the like only bound what
the environment does; only `CountTellsProgressCorrect` depends on how large one of
them is, and says so. TLC finds the inductive invariants named below to hold on the
instances of the runs as well.

- `StreamProofs`, ByteStream: type correctness, `Fifo`, `Accounting`, `PeekStable`,
  `EndIsFinal`. Their conjunction is inductive: `Fifo` needs the counters of
  `Accounting` to know that a pop takes what a peek showed.
- `StreamProofs`, StreamReassembler: type correctness, `OutputIsStream`,
  `OnlyGapsWait`, `EndExact`, `WithinCapacity`, `DiscardsOnlyHeld`, `HeldForever`, `WindowKept`,
  and that every step is a step of `InOrderDelivery` or a stutter. The inductive
  invariant `IInv` adds two facts: an eof on record has the length of the stream
  as its index, and what is written stays within `bytes_read + Capacity`. The
  second is why `write()` always takes the whole run, although the bytes have
  left the map by then. `WithinCapacity` follows by counting the window.
- `NumberAndSocketProofs`, WrappingInt32: three theorems about `unwrap()` alone. Its result wraps
  to `n` again at every checkpoint (`UnwrapWraps`), is the closest such number
  below the last epoch (`UnwrapIsClosest`), and is the number meant when that is
  less than half the 32-bit range away, at both ends of the 64-bit range too
  (`UnwrapRecovers`). They rest on a lemma that names the three candidates of the
  code (`UnwrapIs`). From them follow `RecoveredIsMeant` and `UnwrapClosest` for the
  sender and the receiver; the invariant adds that every number in flight is the
  wrapped form of the one meant.
- `EventLoopProofs`: `Aligned`, `CancelledOnce`, `DispatchComplete`,
  `SuccessExplained` and the action property `CallbackReady`. The invariant has four
  parts. `ListInv`: a rule that was added is in the list once or was cancelled once.
  `WalkInv`: the first loop builds one entry for each rule it passes, which is what
  makes `Aligned` true when the second begins. `OutcomeInv`: what the second loop
  has done about the entries before `idx`. `TimelyInv`: a result not yet acted upon
  still holds, or a hangup, a close or a callback of the same call explains it.
- `NumberAndSocketProofs`, FileDescriptor and sockets: `Owned`, `NoLeak` and
  `KindHolds`, for the operations of both together. `Owned` and `NoLeak` need each other: a
  number handed out anew is nobody else's only because numbers in use are not free.
  `Owned` also needs that a wrapper on record for a second close() is closed
  (`Again`): a first `close()` that hits another wrapper's number is then the act of
  a wrapper that had lost the number before, and the same earlier close() explains
  both. `KindHolds` is inductive beside them, because no step but the constructor
  gives a wrapper a number.
- `DescriptorProofs`: `EofIsTheEnd`, `WriteExact` and `ReturnedWhole` for any program
  that uses a descriptor, `PrintsEverything` for webget. `ReadInv` adds that the
  bytes read and the bytes in flight are together what the peer has sent, and that
  nothing is in flight once `_eof` is set. `WriteInv` adds the lengths without which
  cutting n bytes off the views says nothing. `GetInv` composes `ReadInv` with
  the client. `WriteCountedCorrect` proves the part of `CountTellsProgress` that is
  about `write()`, under `ShortWrites`: no payload has as many bytes as the 32-bit
  counter has values. The counter may wrap, but not all the way round in one call.
  The part about `shutdown()` compares a counter with zero, and a counter that was
  moved 2^32 times is zero again. `CountTellsProgressCorrect` is therefore for
  programs that make fewer calls of `writev()` in all (`FewCalls`). Its invariant
  `CounterInv` bounds the counter by the calls of `write()` begun, less the calls of
  `writev()` that the one under way may still make.
- `SegmentLemmas` and `SegmentProofs`: `RoundTrip`, `DamageDetected`, `ParseExact`,
  `ChecksumOfPieces` and `DatagramsWhole`. None of them is inductive. `LinkInv` says
  of the datagram on its way that it is what `serialize()` made of the segment sent,
  with a good checksum, as long as nothing has harmed it, and that after a change of
  a byte or of the pseudo-header the checksum is wrong. The argument for the second
  part: the sum of a segment and its pseudo-header is a multiple of 2^16 - 1
  (`SerializedIs`), and a changed byte moves it by less than that (`ChangeIsSeen`).
  `PseudoAssumption` says that no two pseudo-headers have equal sums modulo 2^16 - 1,
  because no checksum can tell such a pair apart. For `RoundTrip`, the sums, numbers,
  flags and `doff` are taken apart into bytes and put together again; what `parse()`
  reads from any bytes is stated once and serves `ParseExact` too.
- `BufferListProofs`: `FreedWhenDiscarded`, and that BufferList and Buffer implement
  `PlainStrings`. The invariant `ListInv` is that every Buffer has its offset within
  its string and shows a byte of it, unless the string is empty. Letting go of other
  strings does not change what a Buffer shows, since its own is in use.
- `SliceLemmas`: what concatenation and `SubSeq` do to slices of a sequence, what
  `Bytes`, `Size` and `RemovePrefix` of a list of views are, the laws of quotient and
  remainder that sequence numbers and checksums need, and the means for loops.

Facts about loops over data need induction, and the library's theorems for it take
an operator as a parameter, which the provers cannot instantiate. `SliceLemmas`
has a form with a set instead (`TurnByTurn`: a set that has 0 and with k - 1 also k
has all of `0..n`), from the existence of a least element. `LoopRuns` and `LoopIs`
use it to show that a loop given by its turns has a run and that the recursive
function is that run. `Bytes`, `RemovePrefix` and the discarding of Buffers are
handled this way, with one invariant of the loop each (`Collected`, `TurnRemoves`,
`TurnDiscards`), and so are the loop of `InternetChecksum::add()` and the sum of
words it is compared with.

Only model-checked is liveness (`EndReachesReader`, `EverythingArrives`, `WriteEnds`,
`ExhaustedLeaves`, `NoStarvation`, `Ends`): fairness is out of the prover's reach.
Every invariant and every action property of a passing run has a theorem, and so has
the refinement of `InOrderDelivery` and of `PlainStrings`.

## Not modelled

- `TCPReceiver`: the three operations are stubs without effect on any state, and
  `TCPState::state_summary()` of such a receiver has one value. There is no
  behaviour to state a property of until they are written.
- `Address`: values made by the resolver of the C library, never changed. An
  address is a model value where one matters.
- `bind()`, `set_reuseaddr()`, `local_address()`, `peer_address()`: system calls
  that change nothing the program keeps. `connect()` is part of `Webget` and
  `UDPSocket`.
- `SystemCall()` has no module: its exception is the failing branch of every
  operation that uses it.
- `to_string()`, `summary()`, `as_string()`, `hexdump()`: text for people. Random
  generator and timestamps: no state of interest.
- `add_rule()` from a callback: the second loop would walk past the entries that
  were polled. Nothing in the repository says whether a callback may do that.
