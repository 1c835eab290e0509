# A TLA+ model of this repository's programs

The repository holds six small, independent programs. This directory models
the ones whose correctness depends on what several threads or machines do to
each other, checks them with TLC on small instances and proves the central
results with TLAPS for every value of the parameters.

Modules are written from the code. A comment or a document of the repository
is only used as the statement a finding compares the code with.

1. [The parts of the repository](#1-the-parts-of-the-repository)
2. [Modules](#2-modules)
3. [The traffic shaper](#3-the-traffic-shaper)
4. [The list](#4-the-list)
5. [The file transfer](#5-the-file-transfer)
6. [The router](#6-the-router)
7. [The ping pong game](#7-the-ping-pong-game)
8. [The WebRTC adapter](#8-the-webrtc-adapter)
9. [Runs and bounds](#9-runs-and-bounds)
10. [What is proved](#10-what-is-proved)
11. [Findings and divergences](#11-findings-and-divergences)
12. [What is not modelled](#12-what-is-not-modelled)
13. [Plan](#13-plan)

## 1. The parts of the repository

| Part | Code | State | Operations | Hard about it |
|---|---|---|---|---|
| traffic shaper | `TOKEN BUCKET/warmup2.c` | mutex `m1`, condition variable `cv`, `list_Q1`, `list_Q2`, `token_count`, `serial_number_packet`, `cur_val` of each server, thread ids | four threads: `packet_control`, `token_control`, `server_control` twice; `moving_packet_Q1_to_Q2`; `pthread_cancel` by the server of the last packet; joins and statistics in `main` | interleaving, condition variables, cancellation, termination, appends whose failure nobody looks at |
| linked list | `TOKEN BUCKET/my402list.c` | ring of heap cells around an anchor, `num_members` | four insertions, unlink, unlink all, first / last / next / previous / find / empty | pointer surgery, `malloc` failure, a count every loop trusts |
| file transfer | `RELIABLE FTP/server_final_1.c`, `client_final_1.c` | server: `seq`, `lost_seq`; client: `nack` table, mapped file, loop counters; the link | header and its ACK, first pass, NACK rounds, repair passes, final ACKs | loss, delay, timeouts shorter than a round trip, termination |
| IP router | `SIMPLE IP ROUTER/Custom_IP_ARP.c` | routing table, one capture thread per interface, handles, the kernel's ARP table | `callback` per frame: time to live, route, open, resolve, inject; ICMP answer | threads over shared kernel resources, leaks, an ARP entry that is gone, calls whose failure is printed and forgotten |
| ping pong game | `Ping Pong Multiplayer Game/` | ball, speeds, paddles, window size, scores | GLUT callbacks `Timer`, `Render`, `MouseMotion`, `reshape`, `keyboard`; one UDP exchange per frame | a window that changes under the ball, corners, callback order, unsigned wrap |
| WebRTC adapter | `Virtual 3D(ongoing)/lib/adapter.js` | for each peer connection of its Edge shim: signalling, gathering and connection state, descriptions, pending offer, transceivers over ORTC objects, candidate buffer, timeouts | `createOffer`, `createAnswer`, `setLocalDescription`, `setRemoteDescription`, `addIceCandidate`, `close`; gatherer and transport callbacks; SDP written and parsed; Chrome's `srcObject` and `ontrack`; constraints rewritten for Chrome and Firefox; browser detection | callbacks, promises and timeouts in any order, loops that throw half way, state recomputed from parts, parsing by prefix, URLs renewed under other elements |
| WebRTC page | `Virtual 3D(ongoing)/javascripts/main.js` | two peer connections | `start`, `call`, `hangup` | not reachable in this commit, see section 12 |
| memory query | `SERVER Memory Usage/` | an SSH channel | `sendCommand` | polling an exit status while output is still to be read |

How they interact: the shaper's two queues *are* two `My402List`s. The list is
modelled as a ring of cells and shown to implement a sequence of elements; the
shaper uses sequences. The link between the two is `ListAppend` and
`UnlinkFirst` of `TokenBucket`, the two calls the shaper makes. The two ends of
the file transfer interact only by packets; server and client are two sets of
actions of one module with the link between them. Two peer connections of the
adapter interact by descriptions and candidates that pages carry between them;
`EdgeCall` composes two of them. The SDP text between them is modelled twice, at
two levels: `EdgePeerConnection` has what an m-section says, `EdgeSdp` how it is
written and read. In Chrome the streams of a peer connection feed the
media elements; `ChromeMedia` has both with the listeners that join them. The other
programs share nothing.

### Hard behaviours and the properties that answer them

`PROJECT.json` lists every hazard at the line where it bites. In short:

- shaper: a broadcast that is made only when Q2 *was* empty (`NoLostWakeup`),
  two movers and two takers (`InOrder`), a packet that is unlinked and paid for
  before an append that may fail (`Accounted`), a test that reads one
  packet and a move that pays for another (`ImplementsFilter`; `TokensInBounds`,
  which is proved and not run), the end read off one serial number (`DrainedAtEnd`,
  `EmulationEnds`), threads that die owning the mutex
  (`StatisticsUnlessBlocked`).
- list: four links per insertion at every place and a count that ends every
  loop (`LoopsSeeEveryElement`), `malloc` failures and freeing inside a loop
  (`ImplementsSequence`); the invariant behind both, `RingClosed`, is proved.
- file transfer: two messages that look alike, one of which ends the transfer
  (`ZeroMeansFinished`), a finished client that misses a piece
  (`ImplementsTransfer`), rounds that never end (`ClientEnds`).
- game: a ball that a corner or a smaller window lets out (`NearWindow`,
  `BallReturns`).
- adapter: candidates that are found too early, buffered, and emitted from three
  different callbacks (`NothingBeforeLocalDescription`, `CandidatesInOrder`,
  `NoCandidateLost`, `NullEndsTheAnswer`, `BufferIsFlushed`, `CandidatesMatchLines`,
  `CandidatesArrive`, `GatheringCompletes`), loops that throw after starting some transports
  (`StableMeansStarted`), a connection state put together from many
  (`ConnectedMeansAll`), announcements from nested timeouts
  (`StreamsAreAnnounced`), two ends that number codecs differently
  (`ImplementsOfferAnswer`, `SendersAreUnderstood`, `AnswersNumberAsOffered`), lines
  found by a textual prefix (`OffersSurvive`, `SectionsAreRead`), constraints
  rewritten in place (`AskTheSame`).
- media elements of Chrome: listeners that stay on a stream an element no longer
  shows (`UrlsAreShown`), a handler replaced while streams it was promised still
  grow (`HeardOnce`).
- router: a handle that is never closed (`HandlesReturned`), a frame that gets
  another packet's route, neighbour or time to live (`ImplementsForwarding`).

## 2. Modules

| Module | Kind | Code |
|---|---|---|
| `TokenBucket` | detailed | `warmup2.c` lines 68-304 and 487-516 |
| `TokenBucketFilter` | abstract | what a token bucket promises |
| `TokenBucketProperties` | properties, refinement mapping | |
| `TokenBucketProofs` | theorems | |
| `My402List` | detailed | `my402list.c`, whole |
| `ListSequence` | abstract | what a list promises: a sequence |
| `My402ListProperties` | properties, refinement mapping | |
| `My402ListProofs` | theorems, the refinement's included | |
| `ReliableFtp` | detailed | both programs and the link |
| `FileTransfer` | abstract | what a file transfer promises |
| `ReliableFtpProperties` | properties, refinement mapping | |
| `ReliableFtpProofs` | theorems | |
| `IpRouter` | detailed | `Custom_IP_ARP.c` lines 148-425 |
| `IpForwarding` | abstract | what a router promises for each packet |
| `IpRouterProperties` | properties, refinement mapping | |
| `IpRouterProofs` | theorems | |
| `PongGame` | detailed | `game_test.h` and `working_test.cpp` without the drawing |
| `PongGameProperties`, `PongGameProofs` | properties, theorems | |
| `EdgePeerConnection` | detailed: state, methods, callbacks | `adapter.js` lines 986-1930 without `getStats` |
| `EdgePeerCalls` | one peer with any page, browser and remote end | |
| `EdgePeerProperties` | properties | |
| `EdgeCall` | two peers of `EdgePeerConnection` composed | |
| `OfferAnswer` | abstract | what an offer/answer exchange promises |
| `EdgeCallProperties` | properties, refinement mapping | |
| `EdgeProofs` | theorems on one peer and on the call, the refinement's included | |
| `Selection` | functions: the elements of a list that pass a test, the i-th of a set | `filter` and the loops that push under a condition, 517-521 and 1153-1167 |
| `EdgeSdp` | functions | `adapter.js` lines 488-972 |
| `MediaConstraints` | functions | lines 352-401 and 2193-2236 |
| `AdapterFunctions`, `AdapterFunctionsProperties` | calls of these functions and what their inputs are, properties | |
| `AdapterFunctionsProofs` | theorems | |
| `ChromeMedia` | detailed | lines 107-182 and 317-324 |
| `ChromeMediaProperties`, `ChromeMediaProofs` | properties, theorems | |
| `MCEdgePeer`, `MCEdgeCall`, `MCAdapterFunctions`, `MCChromeMedia` | constants of the runs | |

Each detailed module keeps the names of the code's variables and functions where
TLA+ has room for them. A control state is named for the call the thread is
about to make (`"lock"`: before `pthread_mutex_lock`) and its comment gives the
line. A few operators in the detailed modules stand beside the one the code is
modelled by (`SignalOne` beside `Broadcast`, `KeepOpen` beside `Close`): they are
the plausible mistakes the properties are tested against, and nothing uses them
otherwise.

## 3. The traffic shaper

**Granularity.** Everything shared is touched between `pthread_mutex_lock` and
`pthread_mutex_unlock` of `m1`, and nothing inside a critical section blocks but
`pthread_cond_wait`. So one critical section is one action; `m1` is `"free"`
between actions unless a cancelled thread has died owning it. `usleep` is a
control state, because time passes and because it is a cancellation point. A packet
that `moving_packet_Q1_to_Q2` holds between its two lists is therefore in no state of
the model: nobody else sees it there. What can go wrong with it is that the append
fails, and that is an outcome of the action.

| Code | Action |
|---|---|
| `reading_file` and the sleep before an arrival, 103-152 | `ReadFile` (any size of `PacketSizes`) |
| the arrival's critical section, 154-197 | `Arrive`: `Enqueue` (162-181) or `Drop` (182-188); `ArriveWithoutMemory` |
| `moving_packet_Q1_to_Q2`, 68-101 | `MoveHead`, part of the action of its caller; `MoveNothing` where it is not called |
| end of the token thread's sleep, 202 | `TokenWake` |
| the token's critical section, 203-227 | `TokenArrive` |
| the server's loop, 235-294 | `Wait`, `BeginService`, `EndService`, `Depart` |
| a wakeup nobody caused | `SpuriousWakeup` |
| `pthread_cancel`, 281-293 | part of `Depart`; the deaths are `TokenDiesAsleep`, `TokenDiesPrinting`, `ServerDiesServing`, `ServerDiesWaiting`, `ServerDiesPrinting` |
| the four joins and the statistics, 503-512 | `DisplayStatistics` |

**Cancellation.** A cancelled thread dies at its next cancellation point: `usleep`,
`pthread_cond_wait` (which takes the mutex again *before* the thread dies, and no
cleanup handler gives it back), and perhaps `printf`: POSIX leaves that open, so
`PrintfCancels` is a constant. `pthread_mutex_lock` is none.

**Memory.** `malloc` is called for the packet (156) and by each append (91, 98, 176).
With `MallocFails` each call may fail, at any time. The packet's own is not tested: the
process dies writing to it (`ArriveWithoutMemory`, `main = "killed"`, after which no thread
moves, `Alive`). `My402ListAppend` returns 0 and leaves the list as it is, and no caller looks at
that: the packet, which may have been unlinked and paid for, is in no list any more, and
`lost` has its number. The rest of the code goes on as if it had been appended: the test of 178
may move the head of Q1, and the broadcast is made.

**Abstractions.** Times and the sums of the statistics are left out; which
thread goes next is free. Packet sizes are the set `PacketSizes`: one element
without a trace file (`-P`), any with one (`-t`). They are integers, not
naturals, because `sscanf` takes a negative `-B` or `-P`.

**Fairness** (`FairSpec`, only for liveness). `WF` for each thread: `usleep`
returns, and a thread that finds `m1` free again and again gets it, because every
other thread sleeps or waits between two of its critical sections. No fairness
for `SpuriousWakeup` and none between the alternatives inside one thread.

## 4. The list

A cell is an element of `Elems` or the anchor; `list` holds the three fields of
all of them and the count. A cell that is free reads as `NULL` in each field; the
program would read garbage, so a property that fails with `NULL` points at a read
after `free`. One action per call: four insertions, each with a twin in which
`malloc` returns `NULL`, `Unlink`, and `UnlinkAll` with its loop. The queries are operators;
`Walk` is the loop callers write with `First` and `Next` (`Forward`) or with `Last` and
`Prev` (`Backward`), in the direction `way`; `Find` contains the first.
Callers pass elements that are in the list, as `warmup2.c` does; a call with a
foreign element is the caller's error and is not made.

`My402ListProperties` maps the ring to `ListSequence` by walking it (`Members`), so
`ImplementsSequence` says that every call puts, removes or refuses exactly what
its name says, at the right place, with the right result.

## 5. The file transfer

**The programs.** A file is `FullPackets` pieces of 1475 bytes and, if
`HasRemainder`, a shorter one. The server sends the size (packet 0 here), takes
whatever arrives first for its ACK, sends the pieces once, and then alternates
between collecting NACKs and sending again. The client receives until it has
counted enough packets or 350 ms pass, scans its table, sends the missing
numbers in NACKs of at most `NackCapacity` (367 in the code), receives until
the next timeout, and so on; when nothing is missing it sends four final ACKs.

| Code | Action |
|---|---|
| server 107-150, 152-160 | `SendHeader`, `AwaitAck` |
| server 171-211 | `SendData` |
| server 227-266 | `ReceiveNack`, `ReceiveFinalAck` |
| server 267-313 | `Resend(n)` |
| client 72-154 | `ReceiveHeader` |
| client 157-184 | `ReceiveData(n)`, `TimeOut` |
| client 199-262 | `Scan`, `SendNack` |
| client 263-278 | `ReceiveLost(n)`, `TimeOut` |
| client 281-308 | `SendFinalAck` |

**The link** is the one `doc` describes: an Ethernet link with 20 % loss and
200 ms of delay. `Sent` loses a packet or appends it; order is kept. A packet is
also lost when `InFlight` packets of its direction are under way, which bounds
the channels; in the proofs `InFlight` is any positive number. `TimeOut` may
come at any moment: 350 ms is shorter than the 400 ms of a round trip.

**Abstractions.** The data of packet *n* is "piece *n*". IP headers, checksums and
the file mapping are left out; a `sendto` that fails is not modelled. `lost_seq`
is a set: one number NACKed twice is sent once here and twice in the code, where
the repetition changes nothing a property sees. The client's table `nack` is the
set of marked numbers. Its `malloc` and `memset` are two cells short; `HeapIsFresh`
says whether these cells happen to be zero.

**Fairness.** Both programs run on (`WF`); the client gets to receive what has
arrived in spite of timeouts (`SF`); and the loss is not selective for ever
(`SF`): a number or a NACK that is sent again and again arrives once. That is what
a link with random loss gives with probability 1. There is *no* such assumption
for the header and the ACKs, which are sent a bounded number of times.

## 6. The router

One thread per interface; each step of `callback` that touches shared state is
an action: `Capture` (count down, decide, look up the route), `Expire` (open a
handle, build the ICMP message), `Open`, `Resolve`, `Send`, and the early
returns `ExpireUnopened` and `CannotOpen`. The process dies (`Dies`) where an `ioctl` that
failed is printed and its result used all the same: for the interface's address
(`ExpireUnaddressed`, 224-233), its hardware address (`OpenUnaddressed`, 277-286; for an ICMP
message only if the one at 201 failed too) and the neighbour's (`Unresolved`, 297-309), each
read through `NULL`. The first two may fail whenever they are made; the third does when
there is no entry. The environment delivers packets
(`Arrive`) and changes the ARP table (`ArpChanges`). The time to live keeps its
eight bits (`CountDown`).

The handle opened at 191 goes out of scope without being closed: `Expire`
takes one of `Handles` and nothing gives it back. The interface's name is
copied without its terminating zero (210): with `StackIsFresh = FALSE` it may be
`"garbage"` and the message is not sent. The names in the routing table are
copied in the same way (370-394), but into memory from `malloc` that this model
takes to be zero.

The table is the one `main` builds, literally. Lengths, checksums and the
layout of the ICMP message are left out. `Send` either injects or fails.

## 7. The ping pong game

GLUT calls the callbacks one at a time. A round of its loop handles events, the
timers due when it began, then the idle function; `Timer` sets itself anew, so at
most one call of it comes before the next call of `Render` (`moved`). `Render` may
be called any number of times in between, and the window and the mouse may change
at any moment.

| Code | Action |
|---|---|
| `game_test.h` 84-93 | `Timer` |
| `working_test.cpp` 9-75 with `Test_Ball_Wall` (110-122) and `Test_Ball_Player` (124-135) | `Render` |
| `MouseMotion` 183-188, `reshape` 195-210, `keyboard` 138-145 | the actions of these names |

A step of the ball is half its speed, so lengths are in half pixels and what the
floats hold is exact. The order of the four tests is kept: a ball in a corner is
only turned on the horizontal axis. The paddle's left side keeps its unsigned
wrap. `GameAssumption` asks that no window is so small that the ball fills it: there
it would touch a side wall in every test and never be turned at top and bottom.

**Fairness**: GLUT's loop runs on and its timers expire (`WF` of `Render`, `Timer`).
`BallReturns` further supposes, in its statement, that the window keeps its size from
some moment on and that the game is not ended.

## 8. The WebRTC adapter

`adapter.js` makes one interface for browsers that differ. For Edge, which has
only the ORTC objects, it builds `RTCPeerConnection` itself: that is its largest
part and the one with state.

### The peer connection (`EdgePeerConnection`)

**Granularity.** A page runs one task at a time. An action is one whole task: a
method with the promise continuations that follow it at once, a timeout, or a
callback of an ORTC object. Nothing else can come in between.

| Code | Action or operator |
|---|---|
| `addStream`, `removeStream` 1130-1143 | `AddStream`, `RemoveStream` |
| `createOffer` 1697-1819 | `CreateOffer`, its m-lines `OfferedLines`, the description `OfferOf` |
| `createAnswer` 1821-1843 | `AnswerOf`; `CanCreateAnswer` says where it does not throw |
| `setLocalDescription` 1302-1401 | `SetLocalOffer`, `SetLocalAnswer`, both with `LocalDescriptionSet` |
| `setRemoteDescription` 1403-1606 | `SetRemoteOffer`, `SetRemoteAnswer`, both with `RemoteDescriptionSet` |
| `onlocalcandidate` 1186-1253 | `LocalCandidate` (`end` for the end of candidates) |
| `_emitBufferedCandidates` 1094-1128 | `EmitBufferedCandidates`, called by `RunTask` and `RunFlush` |
| `addIceCandidate` 1845-1883 | `AddIceCandidate` |
| `setTimeout(..., 0)` 1382-1398, 1574-1601 | `RunTask`, the queue `tasks` |
| `setTimeout(..., 500)` 1397 | `RunFlush`, the number `flushes` |
| `onicestatechange`, `ondtlsstatechange`, `onerror` 1254-1266 | `IceStateChange`, `DtlsStateChange` with `_updateConnectionState` |
| `close` 1608-1641 | `Close`, `TransportStopped` |

A transceiver is an object of the program: `_pendingOffer`, `transceivers` and the
callbacks may refer to objects of different negotiations. So `object` holds all
that were ever made, under peer, negotiation and m-line, and a list of
transceivers holds only their numbers.

The two faces of `setLocalDescription` are both there: with a success callback
the callback and the first emission come from a timeout of 0 ms; without, the
gathering state is set at once and the emission comes 500 ms later. A handler
of the page may throw at the null candidate (it reads `event.candidate.candidate`): then
the loop of the emission is left and the buffer stays (`nullThrows`).

`EdgePeerCalls` says who calls one peer: a page that keeps to the order of the
standard (but may call `createOffer` and then get an offer, negotiate again, and
close at any moment), other browsers that write the remote descriptions and may
reject lines, gatherers that end or not, and transports that change state.

`EdgeCall` joins two peers: the caller's page sends its offer in the task that sets
it, the callee's sends its answer when `setLocalDescription` did not throw, the service
keeps the order of what each page sends, and each page gives what it gets to its peer.
`EdgeCallProperties` maps it to `OfferAnswer`: who may be in
which signalling state, and that both end with the same codecs under the same
payload types on the same m-lines.

**Abstractions.** A description carries m-sections and no candidates (they are sent
one by one), no session lines and no `b=` lines; codecs are name and payload type; the
encodings given to senders and receivers are left out. Event listeners other than
`onicecandidate`, `onaddstream` and `ontrack` do not change this state.

**Fairness** of the call: *one* weak condition over everything that has to go on
(`Proceeds`: the messages of the two pages once the caller has offered, timeouts,
delivery of candidates, the end of each gatherer). The browser runs its tasks and
timeouts, an ICE gatherer ends, and a service that is up delivers. None of these
actions can be taken for ever, so it is not necessary to ask more than that one of
them is taken as long as one can be. The caller need not call.

### The functions without state

`EdgeSdp` has lines of an m-section as records whose field `a` is the attribute's
name, up to the first separator; payload types, where lines are found by a *textual*
prefix (775-785), keep their decimal form (`OfPayload`). `WriteX` and `ParseX` are
not inverses by construction: what a writer leaves out (extension parameters,
related addresses without a port) is not there for the parser.

`AdapterFunctions` calls each function on every member of the sets of inputs, which are
constants; its assumptions say which inputs there are (section 10). TLC takes small sets. `Negotiates` is
the way of one m-section through a call: written from the offerer's
capabilities, read by the answerer, intersected, written, and read by the
offerer. `ReadsSection` is a section of another browser with lines about SSRCs and
a session part above it. `ConvertsForChrome` and `ConvertsForFirefox` rewrite
constraints; the properties ask which values of a device the page and the browser
accept, so a rewritten limit that lets one value more or less through is found.

### Media elements and tracks in Chrome (`ChromeMedia`)

A page gives an element a stream by `srcObject`. The shim makes a blob URL of it,
and since that version of Chrome does not follow a stream that changes, it listens
to `addtrack` and `removetrack` and makes the URL anew. The listeners are never taken
off, and they set `src` of the element whatever it shows by then: `watchers` has the
elements that ever showed a stream.

| Code | Action |
|---|---|
| setter of `srcObject` 153-180 | `SetSrcObject`, with `RenewUrls` |
| listeners 168-179 | `Reload`, part of `AddTrack` and `RemoveTrack` |
| `reattachMediaStream` 317-324 | `Reattach` |
| setter of `ontrack` 114-121 | `SetOnTrack` |
| `_ontrackpoly` 121-138 | `AddStream`, `AddTrack`, with `Dispatch` |

An element that is given the same stream twice listens twice, but its second
listener revokes what the first created; so a set of elements is enough. `blob` says
which URLs are alive. The versions are those from 43 on, where `attachMediaStream` is
this setter.

`ontrack` is kept by a listener to `addstream` (`polyfills`: how many there are), which
puts a listener to `addtrack` on each stream it sees (`relays`). `promised`, `due` and
`cleared` are history: which streams were announced while the page had a handler, how
often it should have heard of each track, and whether it ever set `ontrack` to
`null`, after which the shim no longer takes its old listener off (116).

There is no fairness and nothing has to happen: the browser only reports.

## 9. Runs and bounds

Every run is complete: TLC visits all reachable states of the instance.

| Run | Instance | Shows |
|---|---|---|
| `tb_trace` | 4 packets, bucket 2, sizes 1-3, `printf` cancels, `malloc` may fail | no lost wakeup, order, account, drained at the end |
| `tb_live` | 3 packets, bucket 2, size 2 | every admitted packet is served, the emulation ends, the statistics come unless a dead thread owns the mutex, the shaper implements the token bucket filter |
| `tb_starved` | 2 packets, bucket 3, size 1 | finding: a packet waits for ever |
| `list_calls` | 3 cells, 2 objects | loops see every element, the ring implements a sequence |
| `ftp_safe` | 2 full pieces and a rest, NACKs of 2, 3 in flight | the end is heard right, the file is complete |
| `ftp_live` | 2 full pieces, NACKs of 4, stale heap allowed | the client ends |
| `pong_resize` | ball of 4, two widths and heights, three mouse positions | the ball stays near the window and comes back |
| `router_forward` | 2 interfaces, 2 packets with time to live 1, 2 or 255, 2 handles | the router implements forwarding, handles are returned |
| `edge_peer` | 1 peer, 2 m-lines, 2 negotiations, 2 transceivers, 1 candidate | types, order and completeness of events, start of transports, connection state, announcements |
| `edge_call` | 2 peers, 2 m-lines, a stream of two tracks or of one at each end, codecs numbered differently | senders are understood, candidates match their lines, the call implements offer/answer, every candidate arrives, call and gathering complete |
| `adapter_functions` | every input of small sets: candidates, pairs of codec lists and of transceivers, announced streams, constraints | what is written is read, what is asked for is asked for |
| `chrome_media` | 2 elements, 2 streams, a track that comes twice, 4 URLs, 2 handlers, at most 2 listeners left behind | no URL leaks or is revoked while shown, each track is told once |

Why these bounds are enough for their questions:

- *Shaper.* Four packets fill both hands, Q2 and Q1 at once. Size 3 is dropped by
  a bucket of 2; sizes 1 and 2 make the packet that arrives differ from the one
  that moves, so the count becomes negative in this run. An allocation fails for none, any
  or all of the packets. In `tb_live`, where the refinement is checked, the need is 2 and the
  count takes the values below and at it: there no arrival releases a packet itself (178) and
  none is dropped for its size. That the refinement holds with both is proved (section 10);
  with two sizes that fit it is false.
- *Liveness of the shaper.* `AdmittedReachesServer` holds only where the count
  cannot pass the need, that is, where the size equals the depth; `tb_live` is
  such an instance and `tb_starved` shows what happens otherwise. Memory is always found there:
  a packet that an append loses is never served, and if it is the last one, or is
  dropped for its size, the emulation has no end (281).
- *End of the shaper.* What follows the end of the emulation is `StatisticsUnlessBlocked`, which
  holds: only a mutex that died with its owner keeps `main` from its statistics. That this
  does happen, and that `main` then never returns, is in section 11.
- *List.* With three cells every insertion meets an empty ring, both ends and the
  middle, and `malloc` fails both with and without free cells.
- *Transfer.* With three numbers and NACKs of two a round can consist of one
  partial, one full, and a full and a partial NACK; three packets in flight let a
  whole round arrive late. `ftp_live` takes a size that is a multiple of 1475,
  where the last number is never sent in the first pass but always asked for, and
  a NACK that holds every number, because otherwise it fails: a round of full
  NACKs only has no end (section 11).
- *Game.* The narrow window is narrower than the first flight, so the ball can be
  far outside of it; the mouse at 0 makes the paddle's side wrap; the ball hits
  corners of both windows. Positions are bounded by the game itself (`NearWindow`).
- *Peer.* Two transceivers are two lines of one negotiation or one line in each of
  two, and the second negotiation may begin while the gatherer of the first still
  runs. One candidate and the end of each line make every order of candidate,
  end and null candidate at two gatherers. `MaxTimeouts` and `MaxEvents` bound how often
  a page sets its offer again, `MaxMoving` lets the transports of the first negotiation
  change state: in the second nothing new can be seen of them, since
  `ConnectedMeansAll` is about the first.
- *Call.* Each end lacks a codec of the other and numbers the common ones in
  another way, and one payload type means two codecs. `CallCompletes` and `GatheringCompletes`
  are about a callee without a stream or with a track for each offered line
  (`CalleeHasTracks`). With a shorter stream `createAnswer` throws (1493, 942; section 11); such
  calls are in the run for its other properties.
- *Functions.* Payload types 1, 10, 100 and 101 are prefixes of each other. Up to three of
  five and four codecs cover RTX with and without RED and ULPFEC, and no common codec.
  Limits are 1 to 3 and values 0 to 4, so one below and one above every limit. The answerer
  lists RTX twice, for codecs of different numbers, and Opus with another number of channels
  than the offerer, so a codec of the same name alone is not the same one. The 66673 states
  are one for each call.
- *Media elements.* Each of two elements can be left with a listener on the stream
  the other shows. Four URLs are two in use and two to renew them with. Tracks do not
  meet in the code, so one is enough; it may come before its stream is announced,
  after, and again in the other stream. Elements, streams, URLs and handlers are only
  compared, so the run uses symmetry.
- *Router.* Two expired packets use up both handles; one expired and one
  forwarded packet compete for them on two threads.

Deadlock is not checked where a system may stop: the shaper after `main` has
printed, the transfer when both ends are done, the router when the process has
died or nothing is left to arrive, the game after its key, a peer that is closed and a
call that is set up. `list_calls` and `chrome_media` never stop and check it.

Type invariants that are proved are not also run, but for the one of the peer, whose
state is the largest: `edge_peer` checks it as well.

## 10. What is proved

Everything below holds for all values of the constants that satisfy the module's
`ASSUME`. Every invariant and every refinement of the runs is proved. Liveness stays with
TLC, since the provers have no support for fairness: `AdmittedReachesServer`,
`EmulationEnds` and `StatisticsUnlessBlocked` of `tb_live`, `ClientEnds` of `ftp_live`, `BallReturns` of `pong_resize`, and
`CallCompletes`, `CandidatesArrive` and `GatheringCompletes` of `edge_call`. Theorems that
need an induction over data cannot be had from the library, whose rules take an operator as a
parameter. Where the list, the call and the adapter's functions need one, it is done through
the least element of a set of numbers and through the ranks of its members.

### Shaper (`TokenBucketProofs`)

| Theorem | Extra assumption | Statement |
|---|---|---|
| `Invariance` | | `Spec => []IInv` |
| `TypeCorrect`, `NeverLostWakeup`, `FirstInFirstOut`, `NoPacketLost`, `EndsDrained` | | the type invariant (not run) and the invariants of `tb_trace` |
| `NeverOverfull` | `SizesNatural` | `BucketNotOverfull` |
| `TokensBounded` | `OneSizeFits` | `TokensInBounds` |
| `FilterImplemented` | `OneSizeFits`, `~MallocFails` | `ImplementsFilter`, the refinement |

`IInv` is `TypeOK`, `InOrder`, `NoLostWakeup`, `DrainedAtEnd` and
what makes them inductive:

- `Arriving`: the arrival thread is done exactly when all serials are used;
- `Holding`: a server holds a packet exactly while it serves;
- `Everywhere`, `Apart`, `LostForMemory`, `DistinctHands`: `Accounted` cut into the pieces an
  action disturbs. That the queues and hands are disjoint is not among them, because it
  follows from `InOrder`.

The least obvious one is `DrainedAtEnd`. The last packet has the largest serial;
`InOrder` says that what is in service is ahead of both queues, so when that
packet is in service nothing can be behind it, and by `Arriving` nothing is still
to come. `InOrder` in turn needs every mover to move the head and every taker to
take the head. The proof has one lemma per action; `MoveHeadFacts` and
`MoveKeepsAccount` carry the two actions that move a packet.

These hold with `MallocFails` too. `NoPacketLost` then says that a packet is in exactly one
of its places or is one that an append without memory left nowhere, and that there are none of
these as long as memory is found.

`SizesNatural` (depth and sizes are not negative) is what the command line is meant
to hold and does not enforce. `OneSizeFits` is that at most one of the sizes, not negative, is no
larger than the bucket: the program without a trace file, or with one whose other packets are all
dropped. It says nothing of how that size compares with the depth. The refinement needs memory
for every packet: a packet that an append loses is neither waiting nor released. With several
sizes that fit the refinement is *false*: the arrival thread tests the packet that arrives (178)
and pays for the head of Q1 (80), so a large head can be moved on a small packet's
credit and the count becomes negative.

### List (`My402ListProofs`)

| Theorem | Statement |
|---|---|
| `ListInvariance` | the list is a `Ring` after every call |
| `ListTypeCorrect` | `TypeOK` |
| `RingStaysClosed` | `RingClosed`: next and previous are inverse, free cells hold nothing |
| `LoopsAreComplete` | `LoopsSeeEveryElement` |
| `SequenceImplemented` | `ImplementsSequence`, the refinement |

`RingClosed` is not enough: a second ring beside the anchor's would satisfy it, and
`UnlinkAll`, which follows the links, would leave it behind. `Ring` adds that no part of
the list is closed under next (`OneRing`) and that the count is the number of elements.
From these the loop of a caller, which stops after `num_members` steps, sees each element
once: if it came back too early, what it saw would be such a part. `LinkKeepsRing` and
`UnlinkKeepsRing` are the pointer surgery, and the loop of `UnlinkAll` unlinks one element
after another.

For the refinement, `ChainIsForward` says that a sequence of all elements, each next of
the one before, *is* what `Forward` sees. So it suffices to name that sequence after each
call: linking puts the new cell at a position, unlinking takes one out.

### Transfer (`ReliableFtpProofs`)

| Theorem | Extra assumption | Statement |
|---|---|---|
| `TransferInvariance`, `TransferTypeCorrect` | | `IInv`, `TypeOK` |
| `HeaderAckNeverEndsTransfer` | | `ZeroMeansFinished` |
| `TableHonest` | `HeapIsFresh` | what is marked was written |
| `TransferImplemented` | `HeapIsFresh` | `ImplementsTransfer`, the refinement |
| `FileNotCorrupted` | `HeapIsFresh` | a finished client has every piece |

The ACK of the header and the final ACK both begin with `'0'`. The server accepts
*anything* as the former, so it could in principle go on with the ACK of the
header still on its way and take it for the end later. `FirstMayBeHeaderAck` is the
strengthening that excludes it: while the server waits, only the *first* packet on
the way to it can be a `'0'`, unless the client is finished. It rests on the order
the link keeps and on `Handshake`: until the header has arrived the server has
heard nothing. On a link that reorders packets the property would not hold.

`Finished` ties the end of the client to an empty set of missing numbers; together
with `MarkedWereWritten` it gives the whole file. The latter is exactly what a heap
that is not zero breaks, hence `HeapIsFresh`.

### Router (`IpRouterProofs`)

| Theorem | Extra assumption | Statement |
|---|---|---|
| `RouterTypeCorrect` | | `TypeOK` |
| `HandlesComeBack` | | `HandlesReturned` |
| `ForwardingImplemented` | `0 \notin Ttls` | `ImplementsForwarding`, the refinement |

`RouterInv` says of each interface that what waits on its wire came to it and waits
once (`Waiting`), that its thread holds one packet that waits no more (`Holding`), and that
at each stage the thread's variables are what the code made of that packet (`Staged`).
So no frame can get the route or the time to live of another. `HandlesPaid` counts: an
open handle belongs to a thread that injects or to an expired packet that has left the
wire. The refinement leaves out packets that arrive with time to live 0, because the
code counts them down to 255 and forwards them.

### Game (`PongGameProofs`)

| Theorem | Extra assumption | Statement |
|---|---|---|
| `GameTypeCorrect` | | `TypeOK` |
| `BallStaysNear` | | `NearWindow` |

`NearWindow` bounds the ball by the narrowest, widest and highest window there can
be. It is not inductive. Its strengthening counts the steps for which a ball that
touches the right wall can go on touching it while it moves away (`Touching`), at most
`wide - narrow + 5`; above and below the window the ball goes on outwards only during
those steps, so that its position *plus* what the remaining ones can add is bounded
(`Upwards`, `Downwards`). `Across` is the horizontal bound, which needs no count.

### Peer connection (`EdgeProofs`)

| Theorem | Statement |
|---|---|
| `CandidatesWait` | `NothingBeforeLocalDescription` |
| `BufferEmpties` | `BufferIsFlushed` |
| `PeerInvariant` | `IInv`, the inductive invariant |
| `TypesAreKept` | `TypeOK` |
| `OrderIsKept` | `CandidatesInOrder` |
| `CandidatesReachTheApplication` | `NoCandidateLost` |
| `NullIsTheEnd` | `NullEndsTheAnswer` |
| `StableIsStarted` | `StableMeansStarted` |
| `ConnectedIsComplete` | `ConnectedMeansAll` |
| `StreamsReachTheApplication` | `StreamsAreAnnounced` |

The assumptions are `BoundsAssumption` (the bounds are natural numbers, lines and
negotiations at least one), `InputsAssumption` (codecs, streams and options have the
form the page hands over) and `TransportsAssumption` (transports only report states
the shim's table knows or leaves out, 1658-1666).

Three callbacks emit candidates: the gatherer's, the timeout of 0 ms and that of
500 ms. `EmissionInv` says of each peer that before its first local description no
timeout that emits is pending and the gathering state is new (`SilentBefore`), so the
gatherer's callback buffers; and that after it whatever is in the buffer has such a
timeout pending, and a state that is still new has the one of the success callback
(`FlushedAfter`). The exception is a handler that threw at the null candidate.

`IInv` adds the types and one invariant of each peer, `PeerInv`. None of its parts is a
property of a run as it stands:

- *Events.* What was emitted followed by what is buffered is one sequence (`Events`):
  emission moves the border and leaves the sequence alone. Each event is of a gatherer
  that found it (`FoundBefore`), in order (`InOrder`), and none is missing in the first
  negotiation (`NoneLost`). Without `FoundBefore` the order is not inductive: it is what
  makes the next candidate larger than all before it, and what excludes one after the end.
- *The null candidate.* `NullIsLast` says more than `NullEndsTheAnswer`: that the
  transceivers, when it comes, are all done. Nothing can follow because a gatherer that is
  done does not call again, and in a first negotiation that began with an offer from
  outside every gatherer is one of `transceivers` (`FirstMade`).
- *Before there is a description* nothing is installed, no transport has a role and the
  connection is new (`Untouched`). In the first negotiation whatever was made is
  either all pending or all installed (`FirstMade`): this is why the state that is worked
  out from `transceivers` speaks of every line (`Connected`).
- *Signaling.* `Agreed` ties the signaling state to the types of the two descriptions;
  with it, `Started` (a stable peer has started each accepted line in its role)
  survives each call, the ones that throw half-way included: those leave the state that is
  not stable.
- *Announcements.* What was announced and what waits for its timeout, the outer or the inner
  one, add up to the streams there were (`Awaited`).

A step of one peer leaves every other as it is (`SameAt`, one lemma per action), so each
part is proved for the peer that steps and carried over for the others.

### Call (`EdgeProofs`)

| Theorem | Statement |
|---|---|
| `CallInvariance` | `CallInv`, the inductive invariant |
| `CandidatesAreMatched` | `CandidatesMatchLines` |
| `SendersAreHeard` | `SendersAreUnderstood` |
| `CallImplementsOfferAnswer` | `ImplementsOfferAnswer`, the refinement |

They are about `CallSpec`, which has no fairness, and hold of `FairSpec` too. Assumptions:
`CallAssumption` (two different peers) and those of `EdgePeerConnection`; codecs may be any
lists, with names that come twice or not at all, and streams and options any there are.

`CallInv` has two parts. `Exchanged` is about candidates. A call only makes transceivers in
the first negotiation of each end, and line `l` of both ends has the mid the caller gave
it; events name candidates that were found, and a transport was given only
candidates with its mid that the other end has found. `addIceCandidate` looks for the mid
first and takes the index otherwise (1847-1854): with `Exchanged` both ways come to the
same line (`CandidateLineIsOwn`).

`Progress` says that the call is in one of six stages, `Idle`, `Created`, `Offered`,
`Received`, `Answered` and `Accepted`. A stage gives the values of `signalingState`, the
transceivers and the descriptions on their way *at both ends*, and says what is settled
about each line: `Offering` what the caller wrote, `IsOffer` what the offer says of it,
`Answering` and `Sends` what the callee made of it, `IsAnswer` what the answer says,
`Matched` what both ends have when the answer is accepted. There is one lemma per action.
Two kinds of action stay in their stage: those outside the signaling (`QuietStays`; streams,
gatherers, timeouts and candidates do not touch what is settled, `SameMedia`), and an
answer whose loop throws at a line the callee has no transceiver for (1326-1332), which
leaves `Received` with some lines started.

That both ends settle on the *same* codecs is `CommonAgain`. The callee intersects its codecs
with the caller's and keeps the caller's payload types; the caller intersects its own codecs
with that answer. The two lists need not have the same order nor length, but they
have the same elements: an element of the answer is the *first* of the caller's codecs
with its name, so the caller finds it again under the name, and finds nothing else. The loop
over the codecs is modelled without a recursion, by the ranks of the positions
that are shared (`Nth`); `NthHasRank` and `EachIsNth` show that these are all
and come once.

For the refinement, `WhatStagesShow` gives the abstract state of each stage. The
steps between the stages are then those of `OfferAnswer`, and all others are stutters:
`createOffer` because nothing is settled before a description came, the quiet ones because
`Settled` depends on nothing they change.

### Chrome (`ChromeMediaProofs`)

| Theorem | Statement |
|---|---|
| `UrlsStayShown` | `UrlsAreShown` |
| `TracksHeardOnce` | `HeardOnce` |

`RenewKeeps` is the common lemma of every action that changes URLs: elements that take
different unused URLs and revoke their own disturb no other element. For the tracks the
invariant is that, as long as `ontrack` was not set to `null`, there is one listener to
`addstream` if there is a handler and none otherwise, and one relay on each stream
announced since.

### Functions of the adapter (`AdapterFunctionsProofs`)

| Theorem | Statement |
|---|---|
| `CandidatesArriveWhole` | `CandidatesSurvive` |
| `OffersAreUnderstood` | `OffersSurvive` |
| `AnswersAreInOffer` | `AnswersNumberAsOffered` |
| `SectionsAreUnderstood` | `SectionsAreRead` |
| `BrowsersAskTheSame` | `AskTheSame` |

TLC tries lists of three codecs and three numbers; the theorems are about lists of any
length, any payload types, any candidates, and constraints of any settings, as far
as they meet these assumptions, each in `AdapterFunctions`:

| Assumption | What it says | Why it may be assumed |
|---|---|---|
| `CandidatesAssumption` | The fields of a candidate; all but host candidates have a related address and port, TCP ones a TCP type | ORTC's dictionary, which the writer reads field by field (565-589). A port 0 counts as none there (577), and is a hazard listed for this reason |
| `CapabilitiesAssumption` | No two codecs of an offerer have one preferred payload type; parameters have a value without `=`; RTX names what it repeats; what an answerer lists more than once has no feedback | Payload types name codecs in the lines written (610-691). `parseFmtp` cuts a value at `=` (644-645). A codec both ends share twice, as RTX is, is written twice under one payload type, and each would read the feedback lines of both (783-785) |
| `TransceiversAssumption` | The offerer's SSRC is not 0 | A primary SSRC of 0 counts as none (886) |
| `AnnouncementsAssumption` | The lines below the codecs are not about codecs; one user fragment, password and fingerprint; an FID group is a pair | Another browser's section describes one transport; the code reads the first such line (716-755) and the first group's second number (862-864) |
| `SessionsAssumption` | The session part is a list of lines | |
| `ConstraintsAssumption`, `ValuesAssumption` | Constraints of the new style; numbers have limits, texts do not; an exact number lies within its limits; only one of `deviceId` and `sourceId` | Old ones are handed on unread (353-355, 2195-2197). Chrome has one name for both (369). With an exact value the limits are overwritten (362-364) |

TLC evaluates all of them for the run's instance, which they hold of.

There is no state to be kept: `function` is `"none"` and becomes the name of a call with its
input and result. So each invariant is true in the beginning, made true by its call, and
about no other. The work is in what a function computes from any list:

- *Filters.* `filter` of JavaScript is `Filter(s, Test)`, the elements at the indices that
  pass, by rank (`Selected`). `SelectedElements` says which they are and that none is
  missing, `SelectedFirst` which is the first: what the code takes of it nearly everywhere.
  `StreamsAreFound` carries the first one over lines put in front that do not pass.
- *Writing.* A codec is written as a block of lines, a section is the blocks behind one
  another. `FlattenIs` says where the lines of each block stand (`Places`), `WrittenIs` that
  a section is nothing else.
- *Reading.* `CodecReads` is that among all these lines those of one payload type are the
  lines of one codec, in the order they were written. This is where two codecs of one number
  would be mixed up, and where a textual prefix would. `ReadBack` is the whole list.
- *Answers.* `CommonIs` is the intersection of two lists as the loops of
  `_getCommonCapabilities` make it; `OffersAreWritable` and its like show that the result
  can be written and read back again, so that the answer is one of the offer's codecs as it
  was described. That a codec shared twice keeps its feedback needs the assumption above.
- *Encodings.* `EncodingsAre` are the encodings a section with these codecs and lines yields,
  and `SectionReads` and `ForeignSection` apply it to the adapter's own sections and to those
  of others.

## 11. Findings and divergences

One is a counterexample TLC finds, in a run of its own; the quotation is in
`PROJECT.json`. In `tb_starved` the token thread moves a packet only when the count
*equals* its need (222), an arrival only when it is *greater* than the new packet's need
(178). A count that has passed the need of the head moves nothing any more.

The others were met while modelling and have no run.

Shaper (`warmup2.c`):

- A server cancelled in `pthread_cond_wait` (238) dies owning `m1`; the token thread then
  blocks in `pthread_mutex_lock` (203), which is no cancellation point, and `main` in its
  join.
- What `My402ListAppend` returns is ignored at 91, 98 and 176, and the result of `malloc` at 156
  is not tested. Without memory a packet is unlinked from Q1, paid for and in no queue, or
  was never in one; its time in Q1 is in the sums all the same, and if it was the last one the
  emulation does not end. Without memory for the packet itself the process dies (168).
- The document lets an arrival move a packet only into an empty Q2; the code does not
  look at Q2 (178). With a trace file a large head of Q1 is moved on the credit of a
  small packet that arrives (178, 80) and the count becomes negative.
- A packet's time in a queue is taken from a global that the next packet overwrites (77,
  247). The packet in a cancelled server's hand is in no statistic (475). If the last
  packet is dropped, no server ever sees the number that ends the emulation (281).

Transfer:

- The header is sent once and its ACK awaited without a timeout
  (`server_final_1.c` 152). If all four final ACKs are lost the server waits for ever.
- When the missing numbers just fill their NACKs and the last number is among them, no
  NACK of the round is partial and the server waits for more (258).

Router (`Custom_IP_ARP.c`):

- A failed `ioctl` is printed and the code goes on: the address of the interface is read through
  `s_ip`, still `NULL` (224-233), and its hardware address copied from `s_hw`, still `NULL` unless
  the request at 201 was answered (277-286). The same holds of the neighbour's (297-309).
- The handle opened to answer an expired packet is never closed (191), and the interface's name is
  copied without its end (210).

Peer connection of the Edge shim (`adapter.js`):

- "must not emit candidates until after setLocalDescription" (1087-1090): on a second
  `createOffer` while the state is gathering, candidates of the new gatherers are emitted
  before the second `setLocalDescription`; when it is complete they are dropped
  (1247-1249).
- "emits null candidate when all gatherers are complete" (1224): before the first
  `setLocalDescription` the list of transceivers is empty, so `every` is true and a caller
  with two m-lines buffers a null candidate after its first gatherer.
- An `onicecandidate` that throws at the null candidate leaves the loop with the buffer
  still full: candidates are emitted twice and the state never becomes complete.
- `addIceCandidate` returns no promise for TCP candidates without a port and for other
  components (1860-1866), drops a candidate that comes before the remote description
  (1855-1856), and appends a line without `a=` to it (1875).
- A rejected line of an offer leaves a hole in the transceivers:
  `setLocalDescription` of the answer throws there (1327-1332) after it started the lines
  before; `createAnswer` skips holes, so that its lines no longer match those of the
  offer.
- The stream's tracks are matched by number and not by kind, and with `>=` (1493): a
  line behind the last track gets a sender without a track, and `createAnswer` throws (942): a
  callee whose stream has fewer tracks than the offer has lines cannot answer. The direction
  of an offered line is not looked at (1491).
- A `createOffer` followed by an offer of the other side leaves `_pendingOffer` set. A new
  negotiation leaves the transports of the old one running. Timeouts fire after `close`.
- `'disconnected'` is missing from the table of states (1658-1666, 1679), and a closed
  transport counts as new. `removeStream` never finds the stream, since a clone was kept.
  Listeners to `track` are told by the event of `addstream` (1593).

SDP, constraints and loading (`adapter.js`):

- Values of `fmtp` are cut at a second `=` (644-645), and a parameter without one becomes
  `=undefined`. A related address with port 0 is not written (577-578). RTX without an
  SSRC with a cname gives encodings whose SSRC is `false`. The `b=` line makes `maxBitrate` an
  array (893-902). Header extensions of the remote side are lost (830).
- In Firefox before 38 an exact text together with an ideal one is deleted (2213-2229).
  The same conversion is there a second time and never reached (2054-2113). With `urls` as
  one text, it is split into characters (2005). If peer connections are switched off, the
  shim throws while it loads (2024, 2042).
- In Edge `RTCPeerConnection` is installed whether or not there is ORTC (993-1011).

Media elements of Chrome (`adapter.js`):

- The listeners of a stream an element no longer has set its `src` again when a track of
  that stream comes (168-179), even when `srcObject` was set to `null`: the element plays the
  old stream again.
- `ontrack` set to `null` and then to a function leaves two listeners, and every track is
  told twice (116-121).

## 12. What is not modelled

- *Command line of the shaper* (310-469): sequential, before any thread. Planned.
- *Scores and the other player of the game.* Nothing reads the scores, and the
  exchange only moves a paddle that is drawn.
- *Memory query.* Planned: one polling loop.
- *WebRTC page.* No behaviour can be reached in this commit: the page that loads
  `main.js` (`Stages/conference.html`) has no element `localVideo`, so the script
  stops at line 42; `gotStream` has no caller; `call` throws at 88 because
  `localStream` is undefined.
- *Loading of the adapter.* `detectBrowser` and the factory (14-91, 2373-2463) are one pass of
  straight-line code over what the browser offers; a model would repeat which interface each
  branch reads.
- *Rest of the adapter.* The promise wrappers of Chrome and Firefox (185-316, 2024-2050)
  hand on what the browser returns. `getStats`, the server configuration of Edge, the
  `srcObject` of Firefox (the same setter without listeners) and `attachMediaStream`
  before Chrome 43 are left out, as are candidates inside descriptions and the
  `negotiationneeded` event.
- *Checksums* of the transfer and the router. Planned as a pure module.
- *Failing system calls of the router* other than those in section 6; the source hardware address
  a frame leaves with, which after a failed request (277) is another one's.
- *Thread creation* of the shaper and the router: all threads exist from the
  start; a server that finishes while `main` still creates the other one is out.
- *Joins of the router*: `main` joins threads 3, 1 and 2, and with two interfaces
  the first id is uninitialised. No capture thread ever returns, so the model
  stays before that line.
- *Times*: all of them. Properties about rates and statistics are out of reach.

## 13. Plan

Done in this order, most important first: shaper, list, transfer, router,
game, with their proofs; then the adapter: peer connection, call, functions, media
elements. What remains:

| Step | Module | Content |
|---|---|---|
| 1 | `FtpRoundTrip` | the two scripts: the file goes and comes back; final ACKs of the first transfer in the socket of the second; `FileTransfer` twice |
| 2 | `InternetChecksum` | the sum of the transfer (31-82) and the router against the reference definition, with the width of its accumulator |
| 3 | `CommandLine` | option parsing of the shaper and the values it lets through |
| 4 | `SshCommand` | the polling loop: output that arrives after the exit status |
| 5 | | promise wrappers of Chrome and Firefox, `srcObject` of Firefox |

The bounds stay at the smallest instance that shows each case; a run is added only for a
question no other run asks.
