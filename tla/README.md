# TLA+ models of codec_single_thread

`codec_single_thread` is a gateway for voice calls: it receives UDP packets,
takes the SC2, UDP/IP and RTP headers off, decodes the media, encodes them
again for the other side and sends them on. This directory holds its
specification: TLA+ modules translated from `src/src/`, the TLC runs that
check them, and TLAPS proofs. Line numbers are those of the sources beside it.

1. [The system](#1-the-system)
2. [How unfinished code is read](#2-how-unfinished-code-is-read)
3. [The modules and the code](#3-the-modules-and-the-code)
4. [The runs](#4-the-runs)
5. [Fairness](#5-fairness)
6. [What is proved](#6-what-is-proved)
7. [Disagreements between code and documentation](#7-disagreements-between-code-and-documentation)
8. [What is not modelled](#8-what-is-not-modelled)
9. [Plan](#9-plan)

## 1. The system

| Part | State | Operations | What is hard about it | What makes it correct |
|---|---|---|---|---|
| `main` (main.cpp) | the entries of the configuration, the vector `th` of threads | read the entries, start `UpLoop` or `DownLoop` in a thread each, join them | threads race for ports and descriptors; main may return or throw while threads run | no session takes another's port or sockets; main returns over running threads at a bad codec name only |
| `UdpSocket` (udp.h, udp.cpp) | `fd_`, the remote address | `Init`, `Bind`, `SetSendIp`, `Send`, `RecvFrom`, `Close` | descriptors and ports belong to the process; descriptor 0 is treated as none | no descriptor but 0 leaks or is shared, and 0 goes to one socket at most |
| `UploadSession`, `DownloadSession` (session.h, session.cpp) | `first_pack_`, the header objects, two sockets, two coders, `frame_buff` | `Init`, `UnPak`, `Recv`, `Send`, `ProcessLoop`, `HandleSocket` | two ways from decoder to `Send`; failures in the middle; members nobody initialises; a sorter between two SC objects | the chunks sent are the chunks of the decoded stream; a call is relayed under one identity; every buffer has an owner |
| `PacketSorter` (utils.h, utils.cpp) | `is_first_`, `increase_`, `now_sn_`, the map `data_`, the buffers it owns | `Init`, `Insert`, `Get`, `Skip` | numbers that wrap around, loss, repetition, reordering; buffers with two possible owners | packets come out in order and once; each buffer has one owner |
| `EventHandler` (event_handler.h, event_handler.cpp) | `event_table_`, `sockets_event_`, `socket_fds_`, the kernel's interest and ready lists | `AddSocket`, `RemoveSocket`, `AddEvent`, `DeleteEvent`, `Run` | callbacks change the containers while they are walked; closed and reused descriptors; edge-triggered reports; timeouts | iterators stay valid; every armed event and ready socket is served |
| `SC` (sc.h, sc.cpp) | a header to send, the header kept of what is received, `first_pack_` | `Init`, `Send`, `Recv`, `GetUEID`, `GetSn` | the first datagram decides for the whole call, whatever it is | one direction per call; packets are numbered on from the first |
| `RtpSession` (rtp.h, rtp.cpp) | the next sequence number and timestamp | `Init`, `GenerateRtpHeader`, `DecodeRtpHeader` | numbers of 16 and 32 bits that start at random | numbers and timestamps agree with what was sent |
| `UdpPacker` (udp_packer.h, udp_packer.cpp) | the IP and UDP headers | `SetIpPort`, `GenerateHeader`, `UdpParser` | nobody calls `SetIpPort`; carries of the checksum | the header that is written is the header that is parsed |
| `Coder`s (codec.h, codec.cpp) | state of the libraries | `Init`, `Codec`, `GetWhite` | lengths and rooms that each class counts in its own unit; the boundaries of the G.711 segments | media keep their duration; samples keep their order; error does not add up |
| `codec_server` | one socket | receive, code, answer | buffers of its own sizes | as for the coders |

Interaction: `main` calls the sessions; a session calls its `UdpSocket`s, `SC`,
`UdpPacker`, `RtpSession` and coders in a fixed order, one packet at a time.
Sessions share no memory, but the descriptors and ports of the process. The
sorter and the event loop belong to the session's unfinished event-driven
form (`HandleSocket`, called by `EventHandler`), which will replace
`ProcessLoop`. Between gateways, and between stations and gateways, there is
UDP: datagrams are lost, repeated and reordered.

## 2. How unfinished code is read

The commit is in the middle of a change and does not compile as it is. Where
the text leaves only one sensible program it is read as that program:

- `UploadSession::Send` declares `int len` again (session.cpp:124); the second
  one is the local sum of lengths.
- `DownloadSession::Recv` passes `int`s where `uint32_t&` is declared
  (session.cpp:311, 334); the callee writes to them.
- `SC::Recv` names its output `sn` in the declaration (sc.h:89) and
  `lost_pack` in the definition (sc.cpp:39), and uses both: one parameter.
- `kBuffSize` is 1600 in session.h:29 and 2048 in session.cpp:14; no model
  depends on it. `rtp.h:82` misses a comma, `rtp.cpp:55` assigns to
  `lost_samples`, which does not exist: neither is used.
- `UploadSession::Recv`, `CodecAndPak`, `SendWhitePak` and `HandleEvent` are
  declared but not defined. Where `ProcessLoop` and `HandleSocket` call them
  the models take any result: a packet of any length, or a failure. Of
  `sc_send_`, whose header the packets of `CodecAndPak` and `SendWhitePak` must
  begin with, both make the next header or none, as `Send` does
  (session.cpp:148-157), wherever they are called.
- `HandleSocket` ends in `while (true) {}` (session.cpp:240), so that its
  `delete` cannot be reached. The models read the line as left over and go on
  to line 242.

CMake builds with `-O0` by default and with `-O2` as Release. The signed
subtraction of `PacketSorter::Less` (utils.h:82) overflows for numbers far
apart. Without optimisation it wraps, which orders the numbers cyclically; an
optimiser may compare the two numbers instead. The constant `OverflowWraps`
of `SerialOrder` selects the outcome, and the proofs cover both.

## 3. The modules and the code

| Module | Models | Composed from |
|---|---|---|
| `SerialOrder` | `Less` and the unsigned addition, for any width | - |
| `PacketSorter` | class `PacketSorter` and its buffers | `SerialOrder` |
| `IdealSorter` | what the sorter promises: packets with numbers that never end | - |
| `SorterWindow` | the sorter used on a wire whose numbers wrap; refines `IdealSorter` | `PacketSorter`, `IdealSorter` |
| `EventHandler` | class `EventHandler`, its callers and the kernel's epoll | - |
| `SC` | class `SC` as operators on objects | - |
| `Session` | stations, the network, and `HandleSocket` with `UnPak`, both SC objects and the sorter | `SC`, `PacketSorter` |
| `ChunkStream` | what re-chunking promises: the stream cut at multiples of the chunk | - |
| `ProcessLoop` | `ProcessLoop` of both sessions; refines `ChunkStream` | `ChunkStream` |
| `MediaPath` | `UploadSession::Send` of one gateway and `DownloadSession::Recv` of the next, with RTP, UDP/IP and SC | `SC` |
| `G711` | the u-law and A-law coders as operators on a sample and an octet | - |
| `Coders` | `Codec` of all coders, on media that go from gateway to gateway | `G711` |
| `Main` | `main`, the set-up and end of the session threads, `UdpSocket` | - |
| `*MC` | instances for TLC | the module they name |
| `*Proofs` | theorems | the module they name; `SorterWindowProofs` and `SessionProofs` also cite `PacketSorterProofs` |

Definitions that begin "A wrong ..." in a comment are faulty variants of the
definition that follows. They are part of no specification; each of them makes
a property fail and so shows what the property guards against.

### SerialOrder, PacketSorter, SorterWindow

`data_` is the sequence of the map's nodes in tree order, since `CmpLess` is an
order only within half the number space. `Insert` is three actions, one per
answer (`InsertNow`, `InsertNext`, `InsertBehind`); `emplace` of a key that is
there already inserts nothing (`Taken`), and where no order exists it may put
the node at any place a descent of the tree can end at (`Place`). `heap` and
`caller` are history: which buffers are allocated, and which of them the
caller has to free. `increase_` and `now_sn_` start with any value, since they
have no initialiser and `UploadSession` never calls `Init`.

`SorterWindow` adds the packets' unbounded numbers as history. Its assumptions
on the caller are guards with names: packets alive at one time are less than
half the number space apart (`InWindow`), the first packet does not carry
`now_sn_` (`NotZeroFirst`; otherwise `is_first_` stays set and the next packet
fixes the position again), and a `Get` that returns a packet is followed by
`Skip` (`owesSkip`). Without one of the first two `ImplementsIdeal` fails, and
without the third `HandedInOrder`: nothing in the code enforces them.
`HandedInOrder` is a property of the two steps that hand a packet over. `handed`
itself may go back: `WReset` starts a call anew, and the first packet of
that call may be any.

### EventHandler

One action per operation and one per stage of `Run`. An iterator is the time of
the entry it points at, and a callback is named by the time it was armed for.
While a callback runs (`pc` is `"socket_cb"` or `"event_cb"`) every operation
is enabled, and so are `Open` and `Close` of descriptors. An empty
`std::function` throws, which nothing catches: `"crashed"`. `epoll_wait` takes
sockets off the ready list (edge triggered), up to `kEventSize` of them, and
may fail because of a signal.

`Disciplined` adds four rules that the class needs but does not check: a
descriptor is registered before an event is armed for it, and has no other
event; no other event has the same time; a socket with an armed event is not
removed; a registered socket is not closed. Disciplined callers also arm events
only for times that lie ahead: a callback that keeps arming past times would
starve the sockets.

### SC, Session, MediaPath

`SC` keeps a header as its fields, since `ScCopyToNet` and `ScCopyFromNet` are
inverse. Of the length field it matters only whether it matches the size of
the datagram: `shape`.

In `Session` stations number their packets, the network keeps every header for
ever (so it may be lost, repeated or overtaken), and stray datagrams arrive.
One call of `HandleSocket` (session.cpp:210-243) is a run through these actions:

| Action | Lines | What happens |
|---|---|---|
| `Receive` | 211-224 | a fresh buffer, a datagram in it, `UnPak` |
| `ReceiveFails` | 211-216 | the early return, which forgets the buffer |
| `SkipOne` | 219-223 | `UnPak` refused the datagram: `Skip(1)` |
| `InsertNow` | 225-235 | `kPacketNow`: `HandOn` codes and sends the packet, or fails |
| `InsertBehind` | 64-66 of utils.cpp | `kPacketLost`: the packet is dropped |
| `InsertNext` | 236-238 | the sorter has the buffer, or refused it as a duplicate; either way the pointer is cleared |
| `Delete` | 242 | the buffer is freed |

Every call of the sorter is the action of `PacketSorter`, instantiated, so the
sorter of `Session` is the sorter, not a picture of it. `sc` is `HandleSocket`'s
local variable; `Wire` is its shift by eight bits. `first`, `accepted`,
`refused`, `handed`, `made` and `relayed` are history. `SkipOne` and `HandOn`
make a header of `sc_send_` or none (`MakeHeader`, `MakeNone`); what `SkipOne`
makes is never sent, so that after a refused datagram the numbers sent may have
gaps.

`MediaPath` has two gateways with the same configuration. `UploadSend` is the
whole of `UploadSession::Send`, from RTP to SC; `Arrives` the whole of
`DownloadSession::Recv`. The `udp_` and `sc_send_` of the sender and the
`sc_recv_` of the receiver start with any content; `UnPak` gives `sc_send_` the
number of a packet, and without it nothing is set up.

The IP and the UDP header are the 10 and 4 words of 16 bits that `CheckSum`
and `UdpParser` see, in the byte order of the machine. `GenerateHeader` writes
`ip_len`, `ip_id`, `ip_sum`, `uh_ulen` and `uh_sum`, and leaves the others as the
memory had them. With an `ip_hl` of 0 to 4 the receiver reads two bytes of these
words where it expects RTP, and `TakenForRtp` says whether they pass; with 4 they
are `uh_ulen` and never do. With 5 it finds RTP. With more it reads the timestamp,
the ssrc or media, of which the model has no bytes: they may pass or not.

### ProcessLoop

The bytes of the decoded stream are numbered, so that chunks show which bytes
they hold. `Receive(n)` is a successful `Recv` of `n` bytes with the
choice between the direct way and `frame_buff`, `SendDirect` and `SendChunk`
are the two calls of `Send`, which may fail; `Drained` ends the inner loop.

### G711, Coders

`Coders` follows one stretch of media: PCM, coded, PCM again at the next
gateway, and so on without end. `user` says who has it, since the test
programs, the two sessions and `codec_server` give the coders different room
(`DecodeRoom`, `EncodeRoom`) and let different lengths through (`Accepts`). Of
the media the model keeps the length and two neighbouring samples, from which
one sees what a coder does to values and to their order. `G711` has both laws
in full; the decoders' literal tables appear as the formulas they are
tabulated from, and the `^` of two octets is the sum of the bits in which they
differ (`Xor`). Of Codec2 and AMR, which are libraries, the lengths stay.

AMR has a loop in each direction, one action per round. The encoder packs
frames without octet alignment, the decoder reads aligned blocks: which mode it
finds is fixed for the first byte, restricted for the second, free behind them
(`Modes`). The decoder compares each block with the room for the whole output;
the step past the end is `AmrDecodePastRoom`, after which the behaviour is
undefined and the model stops.

### Main

`main_pc`, `i`, `th` and `joined` are main; `pc[s]` names the step of
`Session::Init` that the thread of entry `s` does next: `rtp_.Init` (of an
`UploadSession` only), the two sockets, `bind`, the coders, then `"loop"`; or
`"destroy"` and `"destroy_recv"`, the destructors of the members in reverse
order. `rtp_.Init` calls `gethostid` (rtp.cpp:97), which may open a descriptor
and close it again; one lookup stands for those of the C library. `socket` returns
the lowest free descriptor, and standard input may be closed. An entry is sound,
has an address that is too long (skipped), or an unknown codec (main returns
-1, and the destructors of the joinable threads terminate the process);
`Throws` is an exception out of main, from jsoncpp or from starting a thread.
Ports are not 0, and no other process takes them. `zeros`, the sockets that were
ever given descriptor 0, and `failures` are history.

## 4. The runs

| Run | Instance | Question, and what it shows |
|---|---|---|
| `sorter` | 8 numbers, 3 buffers, increments 1 and 2, skips 0, 1, 3 | Any calls in any order: every buffer has one owner (`Ownership`), nothing waits before the first packet, nodes stay ordered in the comparing build, `Skip` leaves nothing behind the position, and only a duplicate loses a buffer. |
| `sorter_window` | 8 numbers on the wire, packets 0..10, 2 calls of `Init` | In the wrapping build the sorter implements `IdealSorter` although the wire wraps; answers are right; packets come once and in order. |
| `sorter_get` | as before, packets 0..9 | Fails: see section 7. |
| `events` | 2 descriptors, times 0..2, any callers | No slot's iterator dangles, whatever callers do. |
| `events_disciplined` | 3 descriptors, times 0..2, batches of 2 | For disciplined callers the two containers agree, the callback that runs is the one armed, class and kernel watch the same sockets, and every armed event and every ready socket is served, also when more are ready than fit and callbacks remove sockets the batch still names. |
| `session` | 3 stations, 2 packets each, 3 numbers, 3 buffers | One direction per call; relayed packets speak for the first and are numbered on from it, without a gap while nothing is refused; buffers are abandoned in two places only. |
| `session_number` | as before | Fails: see section 7. |
| `process_loop` | chunks of 3 bytes, packets of 0 to 7, 16 bytes | The k-th chunk is the k-th of the stream, less than a chunk waits between packets, and every whole chunk is given to `Send`. |
| `main` | 3 entries, 2 ports, descriptors 0..7; 2 entries without standard input | Descriptors but 0 are neither leaked nor shared, 0 is given to one socket at most, sessions in their loops have a port each, main returns over running threads at an unknown codec only, and every port that a sound entry names is served in the end. |
| `media_path` | 4 packets, numbers of 1 and 3 bits, 4 receptions | RTP numbers and timestamps agree with what was sent across wraps, the ten words of every IP header verify, SC passes all packets of the peer or none. |
| `coders` | all 65535 pairs of neighbouring samples; 10 lengths | Media keep their duration through G.711 and Codec2 with every user's buffers, samples never change order, and errors do not add up in a chain of any length. |
| `amr_round_trip` | as before | Fails: see section 7. |

Why the bounds are enough. The sorter sees numbers only through `Less` and
`Add`; 8 numbers have both halves of the space, the wrap, and the overflow of
the subtraction, and three buffers are one at the caller and two that wait, on
both sides of the position. Packets 0..10 wrap the wire once with all windows of
width 3, and packet 8 has the number of packet 0. Two descriptors and two armed times are a batch, an event and a
callback that touches the other descriptor; a third descriptor is needed only
when batches are full. In `session` three stations are two directions and two
that share an identity; with 3 numbers the session's wrap around with the third
header it makes (`MaxMade`), and `net` repeats packets without bound. Three session threads with two ports are a
winner, a loser of the race and a bystander; eight descriptors are one short
for all three when descriptors 0 to 2 are taken. Packets of 0 to 7 bytes
for chunks of 3 are nothing, less than a chunk, one, and more than two. RTP
sequence numbers of 1 bit wrap with every second packet. The words of the IP
header have their 16 bits in every run; of the contents of the memory
`MCIpHeaders` takes nine: nothing but zeros, nothing but ones, an `ip_hl` of 0, 1,
4, 5 and 15, a sum with the most carries there can be, and sums whose folding
leaves a carry of its own, with an `ip_id` that wraps. `coders` has no bound
on samples; its lengths are nothing, less than a frame, one frame, the packet
of three frames, and lengths on both sides of the limits that the buffers and
the rate converter set.

The deadlock check is off where the system stops: in `EventHandlerMC.cfg` after
a crash, or when `epoll_create` failed; in `SessionMC.cfg` when every buffer
was abandoned; in `CodersMC.cfg` and `AmrMC.cfg` when media are refused or the
behaviour is undefined. In the other runs there is always a next step; `Main`
idles explicitly when the process is over.

Some instances start from fewer initial states than the specification has:
`MainMC` and `MediaPathMC` where values are only compared with each other,
`MainMC` with two entries when standard input is closed (the session that is
given descriptor 0, and the one whose lookup held it), `MediaPathMC` for the
memory of `udp_` as said above, `SorterWindowMC` where `Init` is called before any packet, `SessionMC` with
two values of `increase_` and three of `now_sn_` (0, a number on the wire, one
between two of them), `CodersMC` with all pairs for the packet length and one
pair for the other lengths. The proofs start from all of them.

## 5. Fairness

- `EventHandler`: weak fairness of `LoopStep` (the thread is scheduled and
  callbacks return) and `Tick` (time passes). Callers, data and signals are
  free. Liveness ends when `Run` returns because of a signal. That sockets are
  served (`SocketServed`) also rests on a rule of `Disciplined`: events are
  armed only for times that lie ahead.
- `ProcessLoop`: weak fairness of the steps between two receptions: the thread
  is scheduled and encoding ends. Nothing is assumed of reception.
- `Main`: weak fairness of main and of every thread's set-up, of which no call
  blocks. `Loop` is not fair; sessions stay in it.

## 6. What is proved

The proofs hold for every value of the constants; TLC's runs check the same
definitions on the instances above. Assumptions are those the modules state
(`...Assumption`): sizes are natural numbers, and positive where the code
divides or takes a remainder.

- `PacketSorterProofs`, first part: in the wrapping build `Less` orders numbers
  less than half the space apart as the packets they stand for (`SerialLess`),
  which is what `SorterWindowProofs` rests on; in the comparing build it is a strict
  total order, which makes the last return of `Insert` unreachable.
- `PacketSorterProofs`, second part: `IInv` is `TypeOK`, `Ownership`, `FirstMeansEmpty`.
  `Ownership` needs the others: that `Insert` moves one buffer from the
  caller to one node is a fact about well-typed sequences. `Sorted` and
  `SkipPurges` are proved for the comparing build from it; the central lemmas
  say what inserting a node at a place, and dropping a prefix, does to the set
  of stored buffers. `LostOnlyToDuplicate`, in both builds, is that `emplace`
  inserts nothing only where a node of the number is in `data_`.
- `SorterWindowProofs`: in the wrapping build the sorter implements
  `IdealSorter` for any width of the wire, any number of packets, calls of
  `Init` and wrap-arounds (`WindowImplementsIdeal`). The theorems assume
  `OverflowWraps` and that 0 is not among the increases of `Init`: with 0 all
  packets would carry one number. `WInv` adds to `IInv` that every number in the
  members is that of a packet (`OnTheWire`), that packets alive are less
  than half the space apart (`Near`), that nodes ascend as their packets
  (`Ascending`), and that the packet handed over last lies before the position,
  or at it until the `Skip` that follows `Get` (`HandedBefore`). `Ascending`
  alone is not inductive: that `emplace` finds the right place for a number
  follows from `Less` only for packets that are `Near`, and `Near` holds after a
  step only because of the caller's guards. Each step is mapped to a step of
  `IdealSorter` or a stutter: `Insert` to `First`, `Arrive` or `Wait`, `Get` to `Take`,
  `Skip` to `Advance`, because the prefix that `Skip` drops is the set of packets before the
  new position. `WindowAnswersTruly`, `WindowHandedInOrder` and
  `WindowSorted` (the nodes are ordered in this build too) follow.
- `EventHandlerProofs`: `IteratorValid` for any callers, with the type of the
  slots (`IInv`), and `TypeOK`. For disciplined callers `DInv`: `EntriesOwned`
  and `RegisteredIsWatched` need each other's help and a third part, that the
  callback of an entry is the one armed for its time (`CallbackOfEntry`), from
  which `RightCallback` follows.
- `ProcessLoopProofs`: the waiting bytes are the numbers that follow the
  chunks already sent, up to those received (`IInv`). `ChunksAligned`,
  `NoBacklog`, the refinement of `ChunkStream` and `TypeOK` follow.
- `MainProofs`: `Inv` has two halves. `SocketInv`: the program counter of a
  thread says which sockets it has open (`Stages`); a socket's descriptor is
  open and held by no other (`Held`); every open descriptor but 0, 1, 2 has a
  socket or a lookup (`Owned`); a socket that was given 0 keeps it open, since
  `Close` does not close it, and no other is given it (`ZeroTaken`); a port
  belongs to one socket, and past `bind` a session has its own (`PortHeld`).
  `ThreadInv`: every thread that was started is in `th`, and those joined have
  ended. `OnePortEach`, `DescriptorsOwned` and `CutsOffAtBadCodec` follow, and
  `ZeroGivenOnce`, because `zeros` has one member at most. `TypeOK` bounds
  `failures` by the number of entries, because each failure put another session
  among those on their way out (`Leaving`).
- `SessionProofs`: but for the receive error every step of `Session` is a
  step of `PacketSorter`, or none, so the lemmas of `PacketSorterProofs`, instantiated, give
  the sorter's invariant in the composition (`SessionOwnership`) and where
  buffers are lost (`SessionAbandonsInTwoPlaces`). `Types` adds that a shifted
  24-bit number is one of the sorter's numbers. `Direction` (the accepted
  directions are that of the header kept) is inductive and gives
  `OneDirection`; `Speaks` (the header of `sc_send_` is the first packet's,
  advanced by the headers it made, and those that were sent ascend) gives
  `SpeaksForFirst`. `Silent` says where a session without refusals is on its
  way to rest - the sorter's position can no longer be the number that `Recv`
  repeats - and gives `FallsSilent`, which no run checks: it is a consequence of
  the disagreement that `session_number` shows.
- `MediaPathProofs`: `Clock` states number and timestamp of each packet on the
  wire by how far it is behind the sender's next header, in numbers that wrap
  (`Remainder`, `SameRemainder`); the distance between two packets, `MediaClock`, is a
  difference of two of those. `Link` says that a refusal means a kept header
  of the other direction and an acceptance one of the peer's, which gives
  `AllOrNone`. For
  `IpSumVerifies` let the ten words, `ip_sum` still 0, add up to a * 2^16 + b: a is
  at most 9, so the folded sum a + b has one carry at most, and with the complement
  of what is left the words add up to (a + 1) or (a + 2) times 2^16 - 1
  (`ComplementVerifies`). `IpSumVerifies` itself is the test of a receiver and does
  not use `CheckSum`.

- `CodersProofs`: in three layers. The first computes what each encoder with
  its decoder makes of a sample: the middle of its cell (`ULevel`, `ALevel`,
  `NegativeALevel`; `ULawRoundTrip`, `ALawRoundTrip`), from the segments, the masks
  and the tables. The second is about these functions alone: they are
  monotone (`LawsKeepOrder`), each leaves its own levels as they are, and two
  laws in alternation come to two values (`LawsSettle`), so that a
  magnitude has seven values at most in any chain (`Orbit`), all of them near it
  (`UCloseChain`, `ACloseChain`). Negative samples have no such orbit, since
  A-law takes 8 from the magnitude; for them the proof exhibits, close above
  every magnitude, one that neither law makes louder (`Bounded`). The third is
  the chain: `CInv` is `TypeOK`, what the stage says of the codec (`Stages`), and
  that both samples are reached from their originals by the two laws
  (`Sounds`), which is inductive where a bound on the error is not: one more
  coding may use up what the bound leaves. `ChainNoDrift` follows.
  `ChainKeepsOrder` assumes of `Pairs` only that their first member is not the
  larger one: it holds for any two samples, not only for neighbours.
  `ChainKeepsDuration` assumes that the lengths at the start are whole
  samples, and needs beside `SameDuration` that they stay whole.

Only model-checked: liveness (`EventServed`, `SocketServed`, `ChunkSent`,
`PortServed`), which rests on fairness, out of reach of the installed
provers. That the decoders' literal tables are the formulas of `G711` is a
matter of reading: it is a translation, not a theorem.

## 7. Disagreements between code and documentation

- `sorter_get`: `Get` answers null while the packet whose turn it is waits
  (utils.cpp:77 against utils.h:65). A waiting packet that arrives again when
  its turn has come is handed over from the copy, its node stays at
  the front behind `now_sn_`, and `Get` looks at the first node only.
- `session_number`: `SC::Recv` outputs the sequence number of the first packet of
  the call, not that of the packet at hand (sc.cpp:67 against sc.h:87, "@param
  sn output, sequence number"). `HandleSocket` gives this number to the sorter, to
  which all packets but the first look alike. The theorem `SessionFallsSilent` says
  what comes of it: three packets of a call are handed on at most, unless a
  refused datagram moves the position.
- `amr_round_trip`: the AMR decoder does not make the number of bytes again
  that its own encoder was given (codec.cpp:255, 380 against
  test/amr_wb_test.cpp:71-72). The encoder packs frames without octet alignment
  and adds a byte; the decoder reads a mode from the third to sixth bit of
  aligned blocks.

Seen while reading, without a run:

- An `UploadSession` with `add_udpip` writes IP headers from uninitialised memory,
  because nobody calls `SetIpPort` (session.cpp:142); the receiver believes their
  length field (udp_packer.cpp:129). In `MediaPath` the decoder is given `Garbage`
  when, say, `ip_hl` is 0 and the byte of `ip_ttl` is 128: the bytes there pass for an
  RTP header (rtp.cpp:61-65). With `ip_hl` 4 every packet is refused.
- `UdpSocket::Init` takes descriptor 0 for a success and `Send` refuses it
  (udp.cpp:9, 45). Without standard input one thread's `gethostid` can hold 0 while
  another opens its `recv_socket_`, and close it before that thread opens its
  `send_socket_`: the session enters its loop and drops every packet. `Main` has
  this behaviour; `ZeroGivenOnce` bounds the damage to one socket.
- main returns at an unknown codec name while the sessions of the entries before
  it run (main.cpp:96), and the destructors of their threads terminate the process.
  No sentence of the repository promises otherwise; `CutsOffAtBadCodec` says
  that this is the only case.
- The comment of `PacketSorter::Insert` (utils.h:56) names the return values
  the other way round than the enumeration below it.
- `GenerateHeader` is given the length of the header where it expects the
  length of the packet (session.cpp:142), and computes a UDP checksum that the
  next line overwrites with 0 (udp_packer.cpp:67-70).
- The A-law encoder takes 8 from the magnitude of negative samples
  (codec.cpp:570). Where that is a decision level, a sample loses a step towards
  0 with every change of the law: -391 ends as -120 after 35 codings. `NoDrift`
  therefore bounds the error of samples that are not negative, and of the
  others only how loud they get.
- `GetWhite` is documented to count frames of 160 samples (codec.h:116). The
  G.711 coders count samples, and their white byte, 0, is the loudest negative
  value, not silence (codec.cpp:483-490); `AmrWbEnCoder` goes round `length`
  times, not `frames` (codec.cpp:322).
- The AMR decoder never reduces the room it compares with (codec.cpp:392).
- `UINT4` is "a four byte word" of eight bytes on 64-bit Linux (md5.h:19-20),
  so MD5 computes another hash there; it seeds an identifier only.

## 8. What is not modelled

- Signal processing of the coders: floating point and libraries (AMR-WB,
  Codec2, libsamplerate). `RateConverter` is its limit and its ratio.
- `Coder::Init` and `GetWhite`. `GetWhite` has no caller but
  `SendWhitePak`, which is not defined. Likewise the bodies of
  `UploadSession::Recv`, `CodecAndPak` and `HandleEvent` do not exist.
- `SC::ResetRecv`, `UdpPacker::SetIpPort` and `codec_server`'s `DecodeLoop` and
  console have no caller. The lengths `DecodeLoop` accepts are in `Coders`.
- `UdpSocket::Send`, `RecvFrom` and `SendTo` change no state of the program;
  that `Send` refuses descriptor 0 is in section 7.
- The unchecked `strcpy` of the configured address into 16 bytes (main.cpp:98):
  the entries of `Main` have addresses that fit.
- The A-law encoder takes its sample by reference and leaves the magnitude in the
  caller's buffer (codec.cpp:562, 570). The sessions do not read that buffer again.
- `while (true) {}` at the end of `HandleSocket` (section 2).
- What the rules of `Disciplined` and the guards of `SorterWindow` exclude (section
  3). The hazards they exclude are listed with the rule and without a property.
- Configuration parsing, tables (`GenerateDefaultParam`, `StringToType`),
  logging, MD5 and, but for `gethostid`'s descriptor, `SSRCGenerator`: no state the
  other parts depend on.
- jsoncpp (`jsoncpp.cpp`, `json.h`) is a vendored library. It is more than two
  thirds of the lines under `src/`, the reason why the part of all
  lines that the models stand for is small; of the program's own sources
  (session, sorter, event loop, SC, RTP, UDP, coders, main) it is large.
- Lifetime of callbacks: a callback that removes its own socket destroys the
  function that runs. The models name callbacks and do not follow their captures.

## 9. Plan

Done, in this order: sorter, event loop, SC, re-chunking, main, media path,
the session driven by events, coders; type correctness and all safety
invariants and action properties of these, and both refinements, are proved.

Left:

1. How far `FallsSilent` holds when datagrams are refused: the position then
   moves, and how many more packets are handed on depends on how far.
2. `SendWhitePak`, `CodecAndPak` and `GetWhite` in `Session` and `Coders` once
   they are defined, and `Session` behind `EventHandler` once `HandleEvent` is.
3. MD5's block buffer, if an identifier ever depends on its being MD5.
