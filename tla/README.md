# XSKNet in TLA+

Specifications of [XSKNet](../src/README.md): a daemon that redirects the
ICMP traffic of a network device into virtual interfaces, and clients that answer
echo requests from user space through AF_XDP sockets. The modules follow
the C sources (`src/src/`, `src/scripts/`); paths below are relative to the
repository. Kernel, libxdp, libbpf and the C library are modelled only as far
as this code relies on them.

Contents: [the system](#1-the-system), [plan](#2-plan), [modules and the
code](#3-modules-and-the-code), [runs](#4-what-the-runs-show),
[bounds and fairness](#5-bounds-and-fairness), [proofs](#6-what-is-proved),
[findings](#7-where-code-and-text-disagree), [not modelled](#8-not-modelled).

## 1. The system

| Component | Source | State | Operations |
|---|---|---|---|
| Frame allocator and rings | `xsk_utils.c`, `xsk_receive.c` | stack of free frames, fill ring, rx ring, cached ring indices | configure, peek, refill, allocate, free, release |
| Packet processing | `xsk_receive.c:101-190`, `kern/inner_xdp.c` | the bytes of a frame | XDP verdict, `process_packet`, `csum_replace2` |
| Ports | `socket_cmds.c`, `veth_list.c`, `xdp_utils.c`, `scripts/` | the table `veths`, veth pairs, attached programs, pinned devmap and its entry 0 | `create_port`, `delete_port`, `unload_list` |
| Hash table | `uthash.h` as `veth_list.c` uses it | list of entries, buckets and their chains | find, add and double the buckets, delete, iterate |
| Daemon process | `daemon.c`, `signal_handler.c`, `socket.c:132-161` | main thread, socket thread, handlers on their stacks, `global_exit_flag` | start, serve, signal, `exit_daemon`, kill, restart |
| Command channel | `socket.c`, `socket_handler.c`, `client.c`, `exit_client` | connections, accept queue, the stage of each client | request, answer, time out, reset, stop |
| XDP programs | `kern/phy_xdp.c`, `kern/outer_xdp.c`, `kern/inner_xdp.c` | devmap, an `xsks_map` for each inner program | pass, drop, redirect |
| Set-up of a client | `client.c`, `xsk_utils.c:23-110`, `xdp_utils.c:112-138` | socket, opened map, its entry | bind, open the pinned map, insert, stop, crash |
| Statistics thread | `xsk_stats.c` | counters shared with the receiving thread, their copy | print, copy |
| Options, messages, logging, build | `args.c`, `messages.c`, `lwlog.h`, `Makefile`, `CMakeLists.txt` | - | not modelled |

**How they interact.** A client connects to the daemon (TCP 8080) and sends
`create_port`, then `get_phy_if`; the daemon's socket thread runs a script and
loads two programs for the new veth pair, pins the map of the inner one, then
writes the pair's index to entry 0 of the devmap that the main thread pinned when
it attached the program of the device. The client opens an AF_XDP socket on the
inner end, opens the pinned map and enters the socket, and shares a UMEM
with the kernel: it posts free frames on the fill ring, the kernel returns them
with packets on the rx ring, `process_packet` turns a request into a reply in
place and sends it through a raw socket on the device; a second thread prints
how the counters have grown. A signal runs `exit_client` (ask for `delete_port`,
exit) or `exit_daemon` (set the flag, join the socket thread, unload everything,
exit) on top of whatever its thread does; neither ever returns.

**What is hard.**

* *Rings*: the kernel works on the rings while the user thread relies on cached
  indices; the refill happens before received frames are freed; the receive loop
  blocks in `poll` when nothing arrives, and the refill happens only after
  something arrived. What makes it correct: every frame is in exactly one place,
  the reservation never falls short, the kernel is never left without a frame.
* *Packets*: length tests that do not cover the ICMP header, bytes that the last
  packet left in the frame, be it one that was processed or one that the kernel
  dropped because the rx ring was full, an incremental checksum with two zeros.
  Correct: processing leaves no request behind, answers verify and go back to the
  sender; which packets other than requests are answered is known exactly.
* *Ports*: half a dozen calls per command, each of which may fail and is only
  logged; two threads; objects in the kernel that outlive the process. Correct:
  no pair that was entered in the table is forgotten, the table is true, a new port
  gets the traffic.
* *Table*: chains that are redistributed in the middle of an addition, a walk that
  deletes what it walks over. Correct: it is a list of prefixes without
  repetitions, and no freed entry is touched.
* *Daemon*: signals on either thread at any point, nested handlers, a join that
  can fail, kills. Correct: it stops, alone, and leaves nothing behind.
* *Channel*: one connection at a time, clients that hold several, timeouts that
  connections have or do not have, commands that fail and are answered "OK", a
  server that stops. Correct: commands are executed in the order of their requests,
  nobody waits for ever, an exiting client leaves no port.
* *Packet path*: several programs on one interface, each with a map, of which one is
  pinned; clients that stop at any point and come back under the same name.
  Correct: the map that is pinned is that of the newest program, ICMP reaches the
  socket of the right client, nothing else reaches a socket.
* *Statistics*: counters read while they change. Correct: no unsigned difference
  wraps, and what is shown adds up.

## 2. Plan

| # | Module | Composes | State of the work |
|---|---|---|---|
| 1 | `FrameOwnership` (abstract), `Umem`, `UmemProofs` | `Umem` implements `FrameOwnership` | done, safety and refinement proved |
| 2 | `Checksum` | - | done, proved in `EchoReplyProofs` |
| 3 | `EchoReply`, `EchoReplyProofs` | `Checksum` | done, safety proved |
| 4 | `Ports` | - | done |
| 5 | `Daemon`, `DaemonProofs` | `Ports` | done, safety proved |
| 6 | `CommandChannel`, `CommandChannelProofs` | - | done, safety proved |
| 7 | `PacketPath`, `PacketPathProofs` | programs, ports and clients | done, safety proved |
| 8 | `Statistics`, `StatisticsProofs` | - | done, safety proved |
| 9 | `PortTable` (abstract), `VethTable`, `VethTableProofs` | `VethTable` implements `PortTable` | done, safety and refinement proved |

`SequenceLemmas` holds what `DaemonProofs` and `VethTableProofs` share. Every safety
property, action property and refinement that a passing run checks is also a theorem. The
six liveness properties are left to TLC (section 6).

## 3. Modules and the code

**`Umem`.** `umem_frame_addr` and `umem_frame_free` are the fields of
`struct xsk_socket_info`; `fq`, `rxq` are the rings as sequences, `fqAvail` how
many entries of the fill ring are submitted, `fqFree` and `rxSeen` the user thread's
cached view (`NbFree`, `NbPeek` say when libxdp refreshes it). `Configure` is the
end of `xsk_configure_socket`; `Peek`, `Stock`, `Reserve`, `Fill` (one per
iteration), `Submit`, `Process` (one per descriptor), `Release` are
`handle_receive_packets` in order, `KernelTake`, `KernelSkip` and
`KernelDeliver` the other side. `complete_tx` always returns at once, because the code
that would increase `outstanding_tx` is commented out. `FrameOwnership` is what
this promises: a frame goes round pool, fill ring, kernel, rx ring, pool.

**`Checksum`, `EchoReply`.** `CsumReplace2` is `csum_replace2` on words below
`WORD`. A frame is its header and message fields; `Receive` overwrites as much
of it as the packet is long, so that stale bytes remain. `Drop` is the packet that the
kernel copies into the frame and then finds no room for in the rx ring; it keeps the
frame (`KernelDeliver` in `Umem`), and the next packet comes on top of it. `IsEchoRequest` is the
chain of early returns, `Reply` the rewriting in place. Words the code does not
touch are one number, their one's complement sum. The code takes the message to be at
offset 34; a packet is `plain` if it is (no IP options, no later fragment). `unseen` is
a history variable: the type byte in the frame came with a dropped packet.

**`Ports`.** `job[t]` is the command a thread executes and the call it is at:
`Add`, `Script`, `Load` (outer, then inner), `UpdateDevmap` for `create_port`;
`Remove`, `Unload`, `Unlink` for `delete_port`. Each call has the outcome that the
code only logs, `Add` that `veth_list_add` has no memory and the port is made without an
entry. `strays` is a history variable: pairs that were there
before the daemon, that it could not enter in its table or could not delete. Prefixes are short, so that neither the
key nor an interface name is truncated.

**`Daemon`.** The main thread is `Spawn`, `AttachPhy`, `UnpinOld`, `PinNew`,
`Sleep`; the socket thread `Bind`, `CheckFlag`, `Accept`, `AcceptTimeout`, `AcceptFails`,
`Answer`, and between them the steps of `Ports`. `Signal` pushes a handler on a thread:
`Join`, `Joined`, `UnloadPhy`, `UnloadNext` and `Exit` are `exit_daemon`. A
handler interrupts its thread for good, since `exit_daemon` does not return. A
signal is masked while its own handler runs, not the other; the kernel prefers
the main thread; `system()` makes the process ignore SIGINT. `pthread_join`
fails with EDEADLK in the socket thread and with EINVAL when the thread is
already being joined, and its result is not looked at. `Quit` gathers the errors
on which the daemon exits; `Crash` and `Restart` keep what lives in the kernel.
`Bind` is one step here, since a client is one exchange; `CommandChannel` has its parts.
Programs on the device are a sequence: libxdp runs the oldest of equal priority
first, and its redirect decides (`Targets`).

**`CommandChannel`.** `requests[c]` is what client `c` has asked for, one
connection each; the last one is the one being made, since a handler never
returns to those before it. `Connect`, `Write`, `Proceed` are
`socket_connect`, `socket_write_with_timeout` and the closing of the connection; `Fail` is every
`exit(EXIT_FAILURE)`. On the other side `Listen` and `SetTimeout` are the set-up of the
socket, `Accept`, `ReadCommand`, `WriteAnswer`, `ReadEnd`,
`ReadTimeout`, `Close` are `handle_client`. A connection inherits the
one-second SO_RCVTIMEO of the listening socket when it is completed (Linux), which is what
`ReadTimeout` is; one that is completed between `listen` and `setsockopt` has none
(`timed`), and the thread may be `Stuck` in `read` on it for ever. A command written after
the daemon closed is `lost`, and the end of file read instead of an answer
passes for one. `ReadCommand` executes a whole command, since nothing else touches the
ports meanwhile: with the effect it should have, or, when a call in it fails, with
that effect or none (`failed`). The answer is "OK" either way. A command on which the daemon
exits is `Quit` in `Daemon`.

**`PacketPath`.** `Verdict` is what the XDP programs of the device and of the inner
interfaces have in common;
`AtDevice` and `AtInner` say where a frame ends, `AtInner` through all
programs of the interface (`inner[p]`, oldest first), each with an `xsks_map` of
one entry. The programs look at the Ethernet and IP headers and no further: what a frame has in
the place of an ICMP header, if anything, is for `EchoReply`. `Script`, `Attach`, `Unpin`, `Pin`, `UpdateDevmap`,
`Unload`, `Unlink` are the
commands again, here with the identity of programs and maps and without failures, which `Daemon` has.
A client goes through `Start`, `Created`, `CreateSocket`, `OpenMap`, `Insert`
(`main` and `xsk_configure_socket`); `Stop` is `exit_client` at any point of it, `Crash` the
null socket it uses when the queue is taken or no map is pinned. Clients
may share a name, and start again; one that is killed leaves its commands to be executed.

**`Statistics`.** Each counter is added to, shown and copied in a step of its own:
`TxBytes`, `TxPackets`, `RxBytes`, `RxPackets` in the order of
`process_packet` and `handle_receive_packets`, `Show` and `Copy` in
any order the compiler may choose. `printed` and `missed` are history variables: what was
shown so far, and what was counted between the print of a counter and its copy.

**`VethTable`.** `veths` is the record that `UT_hash_table` is: the list of entries in the
order of addition, the chains, the number of buckets and what the doubling
remembers. `HASH_ADD`, `HASH_EXPAND_BUCKETS`, `HASH_DEL`, `HASH_FIND` and
`Successor` (`HASH_ITER`) are the macros; `Moved` is the loop over one old chain,
as what one new bucket gets of it, and `Put` is one round of that loop. `veth_list_add`, `veth_list_remove` and the walk of
`unload_list` (`Unload`, `UnloadNext`, `Unloaded`) use them. Reading a freed entry gives anything.
`PortTable` is what the daemon relies on.

`MCUmem`, `MCEchoReply`, `MCDaemon`, `MCCommandChannel`, `MCPacketPath`,
`MCStatistics` and `MCVethTable` instantiate the modules for TLC. An operator
marked as a mutant is a plausible mistake in the definition that follows it; no
specification uses it.

## 4. What the runs show

| Run | Instance | Shows |
|---|---|---|
| `umem_tight` | 4 frames, rings of 2 and 2, batch 2, one frame in the kernel: `NUM_FRAMES = FQ + RX` as in the code; user thread fair | frame partition, no double free (the assertion), the "should not happen" loop unreachable, the kernel never starved, the ownership cycle; a kernel without a frame is fed, a received frame comes back |
| `umem_overask` | 6 frames, rings of 3 and 3 | **violation**: `INVALID_UMEM_FRAME` is posted |
| `echo_reply` | words of four bits, some hundred packets: every sum, plain or not, three lengths, received or dropped (25 747 states) | `NoRequestLeftBehind`, `AnswersOnlyRequests`, `ReplyReturnsToSender`, `ReplyVerifies` |
| `daemon` | two names, three commands, one failing call, one signal, one kill, two lives; both threads fair (506 024 states) | `LinksAreKnown`, `TableIsTrue`, `CleanExit`, `UnloadsAlone`, `LoopNeverLeft`, `CreateRedirects`, `FlagStopsDaemon` |
| `daemon_two_signals` | two signals | **violation**: unloading while the socket thread works |
| `daemon_early_port` | one command, no fault | **violation**: a port created while the daemon starts gets no traffic |
| `channel` | two clients, one signal, queue of two, any command failing (2.5 million states) | `PortBeforeUse`, `ExitRemovesPort` |
| `channel_live` | one client, two signals, so three open connections, queue of one (112 868 states) | `SignalledClientEnds`, `AnswerOrError`, `FlagStopsServer` |
| `channel_early` | one client, one signal | **violation**: a connection made before the timeout is set keeps the socket thread for ever |
| `statistics` | two lengths, batches of two, two packets, any number of prints | `DifferencesNeverWrap`, `OnlyWindowMissed` |
| `veth_table` | five prefixes with colliding hashes, one bucket at first, threshold 2 | `Consistent`, `ChainsBounded`, `WalkInStep`, `IsPortTable` |
| `packet_path` | three clients, two of them with one name, four starts, one kill (907 300 states) | `RunningIsServed`, `MapIsOfNewest`, `SocketsGetTheirFrames`, `EntryIsBound`, `NothingLeft` |

Each run also checks the `TypeOK` of its module (`VethTable`'s is part of `Consistent`).

What the properties except, because the code does not do better:

* `TableIsTrue`, the device's part of `CleanExit`, and `CreateRedirects` speak of
  histories without a failing call. `LinksAreKnown` and the rest of `CleanExit` hold
  whatever fails, for the pairs that the daemon had the memory to enter in its table:
  `create_port` ignores that `veth_list_add` failed and makes the pair, which then nobody deletes.
* `CreateRedirects` is about a daemon that has finished starting and whose program
  is the only one on the device.
* `PortBeforeUse` and `ExitRemovesPort` except a client whose command in question was
  `Missed`: written after the connection timed out, or a call in it failed. The client then
  goes on as if answered. What failed or was lost before is not excepted: a port made by
  halves is deleted when its client exits.
* `SignalledClientEnds`, `AnswerOrError` and `FlagStopsServer` except a socket thread
  that stays for ever (`<>[]Stuck`) in `read` on a connection made before the timeout
  was set. Run `channel_early` shows it.
* `NoRequestLeftBehind` and `AnswersOnlyRequests` except what a dropped packet left in the
  frame: a packet that ends in front of the ICMP type is answered when a request was
  dropped from its frame before. `AnswersOnlyRequests` also excepts packets with IP options and
  later fragments, which are judged by their own byte 34.
* `RunningIsServed` and `NothingLeft` are about histories without a killed client;
  `RunningIsServed`, `MapIsOfNewest` and `EntryIsBound` about clients with a name of their own.

What these exceptions stand for, and what else was seen while modelling:

* A client that is killed leaves its port. Started again under its name it gets a
  second program behind the first; the map that is pinned is the second's, the program that
  decides the first, and the client is not served.
* A daemon that is killed leaves its program on the device. After a restart the old
  one goes on deciding, by a devmap nobody can write to any more.
* Of two clients with one name the first to exit deletes the port under the other.
* A prefix of 16 characters or more is stored cut off and looked up whole: it is never
  found, may be entered twice, and `unload_list`, which deletes the other copy,
  then walks over a freed entry. (`Cut` in `VethTable` is the identity in the run.)
* A kill between the pinning of two maps leaves some pinned and others not.
* Of several ports on one device only the newest gets traffic: `update_devmap` writes each to
  entry 0 (`xdp_utils.c:217`), and `xdp_redirect` looks up entry 0 for every packet
  (`phy_xdp.c:67`), where `phy_xdp.c:10-11` says "depending on the port number".
  When the newest is deleted the older ones still get none.
* ICMP that is no echo request is redirected to the socket and dropped by
  `process_packet` (`xsk_receive.c:144-147`); it does not reach the stack.

## 5. Bounds and fairness

Every bound is a constant. `NUM_FRAMES`, `FQ_SIZE`, `RX_SIZE`, `RX_BATCH_SIZE`
are the code's; two entries per ring let indices wrap, batches be partial,
and both rings be full or empty; `KERNEL_HOLD` bounds the frames between
the rings. `WORD = 16` is enough for `ICMP_ECHO` (8), for both carries and for both zeros;
the theorems cover 2^16. `LIVES`, `FAULTS`, `COMMANDS`, `SIGNALS`, `CRASHES`
bound histories: two lives are one restart, three commands on two names
include create-create-delete and create-delete-create. `BACKLOG` is `MAX_CLIENTS`, here 1 or 2
so that it overflows. `STARTS = 4` lets each of three clients run and one of them come
back, or one come back three times; `KILLS` bounds the kills. `PACKETS = 2` is a batch of two or
two batches, against prints and copies that are not bounded; the theorems of
`StatisticsProofs` have no bound. Five entries double one bucket up to four
times, past the point where the hashes of the run differ at last, and up to where
doubling is given up. The clients of `channel` and the entries of `veth_table` are symmetric.

Fairness is weak and per thread: the scheduler runs the receive loop (`User`),
the two threads of the daemon, the server and each client. Packets, commands,
signals, faults and kills are never owed. `FlagStopsDaemon` and
`FlagStopsServer` rest on SO_RCVTIMEO, which is an action of the socket thread
and therefore fair; they assume that a handler's library calls return (see
section 8). A thread in `read` on a connection without a timeout owes nothing (`ReadBlocks` is not
part of `ServerStep`). The clients are those of this project, which send one command on a
connection; one that kept sending would keep `handle_client` from looking at the flag.

## 6. What is proved

TLAPS checks, for all values of the constants that satisfy the named
assumptions:

* `UmemProofs`: `TypeCorrect`, `EveryFrameInOnePlace`, `FirstReservationSucceeds`,
  `AssertionNeverFails`. Assumptions: positive sizes and `FQ_SIZE <=
  NUM_FRAMES` ("we assume we have enough"). The inductive invariant `IInv` adds two
  parts to what it proves. `CountsAgree` relates the cached indices to the
  rings: without it a step could be handed more than a ring has.
  `NoDuplicates` says that no frame is twice in one place: the partition itself only tells *which* places
  hold a frame, and taking one of two copies out would leave it in two places. One lemma per
  action shows that it keeps `IInv`. That the assertion holds is a
  counting argument: a full stack without duplicates holds every frame, but the frame about to be freed is in the rx ring.
  `ImplementsOwnership`: every step maps to a step of `FrameOwnership` or moves
  nothing. Since a frame is in one place (`IInv`, before and after the step), it is
  enough to say for each action which frame it moves.
  `KernelNeverStarved` if `NUM_FRAMES > RX_SIZE + KERNEL_HOLD` (`Sufficient`), and
  `AmplePoolSuffices` if `NUM_FRAMES >= FQ_SIZE + RX_SIZE + KERNEL_HOLD` (`Ample`):
  with that many frames the missing test of section 7 is not missed. Both count the
  frames of the partition; the first needs `SInv`, which says at which points of the
  loop the kernel is `Supplied`.
* `EchoReplyProofs`: one's complement addition is associative and commutative up
  to its two zeros, so `ReplacePreservesChecksum`; `TypeCorrect`, `NoStaleRequest`, `OnlyRequestsAnswered`, `RepliesVerify`,
  `RepliesReturn`, for every word size and every set of packets. The key is
  `NoRequestLeftBehind`: a free frame holds a request's type byte only if a dropped
  packet brought it, so that the missing length test does harm in that case and in no other.
* `DaemonProofs`: for any prefixes, lives, commands, faults, kills *and signals*
  `TypeCorrect`, `MainSleeps`, `CreatesRedirect`. Their invariant says which steps
  belong to which command, that the table has no repetitions, that a life attaches its
  program once, and that a daemon that has started without a failing call has
  pinned its own devmap. With one signal at most (`OneSignal`; run
  `daemon_two_signals` shows that two are too many) `ExitWaits`, `LinksKnown`, `ExitIsClean`, `TableTrue`.
  `Control` is why: the signal finds the main thread outside a handler, so that only it is in
  `exit_daemon`, and it gets past the join only when the socket thread is over;
  hence one command at a time is executed (`Alone`), and `Known` and `Table`, which say how far a
  command has come at each of its steps, are kept by every step.
* `CommandChannelProofs`: for any number of clients and signals and every length of
  the backlog `TypeCorrect`, `PortIsThere`, `NoPortLeft`, `PortFollowsCommands`,
  `CommandsInOrder`. The argument is one of order. A handler that asks for
  `delete_port` leaves earlier connections of its client behind, possibly with a
  `create_port` that nobody has read; were that one executed after the deletion, the port would
  stay. `AcceptedInOrder` says why it is not: the backlog is first in, first out (`Queue`),
  and the one connection that is served (`OneServed`) is closed only when its command was
  executed or is lost (`WellFormed`). Then `PortFollows` ties the port of a client to its requests: there is none before its
  `create_port` was executed nor after a `delete_port` in which no call failed, and there is one
  from a `create_port` in which none failed until the first `delete_port`. Commands that fail may leave
  either, commands that are lost change nothing.
* `VethTableProofs`: for every hash function, any number of entries and of
  buckets and every threshold `TableConsistent` and `ChainsAreBounded`. What
  `HASH_EXPAND_BUCKETS` makes of a chain is a function defined by recursion over it; `Recursion`
  (`SequenceLemmas`) says that there is such a function and `MovedIs` proves by induction that
  after `i` rounds a new bucket has those of the first `i` entries that hash to it, each once,
  within what was granted to it. `ModMod` says that doubling only splits buckets. So a
  table keeps `TableTyped`, `Chained` and `Bounded` in `HASH_ADD` and `HASH_DEL`
  (`HashAdd`, `HashDel`), and these are the invariant.
  If prefixes fit into their entries (`Short`: the constant `Cut` is the identity, as in
  the run), no two entries have one prefix (`Unique`); hence `WalkStaysInStep`, and
  `ImplementsPortTable`: every step is one of `PortTable`. `Short` is needed, since a longer
  prefix is cut when it is added but not when it is looked up (section 4).
* `StatisticsProofs`: `TypeCorrect`, `NoDifferenceWraps`, `PrintedAddsUp`, `NothingTwice`, and
  `RepliesWithinABatch`: the counters never show more replies than packets by more
  than a batch.
* `PacketPathProofs`: `TypeCorrect`, `FramesToTheirSockets` and `IcmpNeverPasses`, for any
  clients, names, starts and kills; `EntriesAreBound`, `MapsAreOfNewest`;
  `RunningAreServed` and `NothingStays`. For the sockets `SetUpInOrder` is needed (who is in a map has
  come that far in its set-up), for the bound ones also that a port
  is taken down in order (`OwnInv`). `MapsAreOfNewest` is for any number of kills: `MapOf`
  (`NewestInv`) says that the last command of a client that waits for its `create_port` is that one,
  behind whatever its earlier lives have left in the queue, and follows the program it attaches to its
  pin (`Loading`). `RunningAreServed` needs `PortOf`,
  which follows the port of a client with a name of its own through its whole life: at each stage of
  the client and step of its command, whether there is a pair, that there is one
  program at most, and that it is the one whose map is pinned. This is
  what a killed client breaks.

Some definitions are there for the theorems only and are checked by no run of their own: the inductive
invariants and their parts, `NothingShownTwice`, `RepliesAheadByABatch`, `NoIcmpToTheStack`. Each
inductive invariant held in TLC on a small instance before it was proved.

`SequenceLemmas`: taking one element out of a sequence or adding one, and induction and
recursion. The prover cannot instantiate a theorem whose parameter is an operator, so
`Induction` speaks of a set of numbers and `Recursive` of a function; both come from the least
element of a set (`Least`).

Only model-checked: liveness under fairness, which is beyond the prover. These are
`StarvedKernelIsFed`, `ReceivedIsRecycled` (`umem_tight`), `FlagStopsDaemon` (`daemon`),
`SignalledClientEnds`, `AnswerOrError` and `FlagStopsServer` (`channel_live`).

## 7. Where code and text disagree

1. `xsk_receive.c:200-213` "Stuff the ring with as much frames as possible": the
   refill asks for the free *slots* of the ring, more than the pool may
   have, and posts `INVALID_UMEM_FRAME` (run `umem_overask`). The kernel skips such an entry.
   One more frame for each that the kernel may hold would exclude it (`AmplePoolSuffices`).
2. `signal_handler.c:21-22` "Waiting for socket thread to exit": a second signal of the
   other kind does not wait (run `daemon_two_signals`).
3. `signal_handler.c:21` again, and `socket.c:138-141`: the timeout by which the thread
   gets back to its flag is set after `listen`. A connection completed in between has none;
   its client, sent a signal, waits for the answer to a second one, the daemon on the
   first, and the thread that `exit_daemon` joins does not end (run `channel_early`).
4. `README.md:23` "Redirect packets from PHY to veth": the socket thread serves
   commands before the devmap is pinned; a port created then is answered as if done
   and gets no traffic (run `daemon_early_port`).

## 8. Not modelled

* `outer_xdp.c`: the program of the outer interfaces, which sees what the inner ends send,
  keeps no state and redirects nothing: it passes every frame whose headers are whole.
* `args.c`, `messages.c`, `lwlog.h`, the build: no state beyond the device's name.
* `uthash.h`: what the program does not use of it (sorting, ordered addition,
  selection, the bloom filter), and the hash functions, since any will do.
* The C library's locks: a handler that interrupts a thread inside `malloc` or a
  logging call may block on itself.
* Errors of `close`; the two names that an entry of the table leaks.
* The maps of one object are unpinned in one step and pinned in one; the loops over them
  are libbpf's.
* A daemon that dies while clients wait: `CommandChannel` has the daemon that is told to stop,
  `Daemon` the other ends.
* A daemon with failing calls, kills and several programs per port at once:
  `Daemon` has the failures and the restarts, `PacketPath` the programs and maps,
  and the two are not composed.
