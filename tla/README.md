# A TLA+ model of OSCRouter

OSCRouter receives show-control packets (OSC and PSN over UDP or TCP, sACN, ArtNet, MIDI, OTP), looks
each one up in a table of routes, converts it where the protocols differ, and sends it on. It runs with a Qt
window (`OSCRouter/MainWindow.cpp`) or as a headless daemon with an HTTP API (`OSCRouter/daemon/`). All
paths below are under `src/`; `Router.cpp` is `OSCRouter/Router.cpp`.

This directory models the parts of the program whose correctness depends on the order in which threads,
packets, timers, requests and failures meet, and the algorithms whose cases a test would hardly cover. TLC
checks the models on small instances; TLAPS proves the most important results for all instances.

1. [Inventory](#1-inventory)  2. [Modules and the code](#2-modules-and-the-code)  3. [Runs](#3-runs)
4. [Fairness](#4-fairness)  5. [Proofs](#5-proofs)  6. [Where code and documentation disagree](#6-where-code-and-documentation-disagree)
7. [What is not modelled](#7-what-is-not-modelled)  8. [Plan](#8-plan)

## 1. Inventory

### Threads and what they share

| thread | code | shares |
|---|---|---|
| router thread | `RouterThread::MainLoop` | its item state table and logs (under `m_Mutex`); the sACN caches (`m_sACNRecv`, under a mutex of its own); a queue with every worker thread; the maps of the sACN sockets (under `m_socklock`) |
| UDP input, one per port | `EosUdpInThread::run` | `m_Q`, `m_State`, logs under its mutex; `m_Mute`, `m_Run` without |
| UDP output, one per destination | `EosUdpOutThread::run` | the same, with `m_QEnabled` |
| TCP server, one per listening address | `EosTcpServerThread::run` | the queue of accepted connections |
| TCP client, one per configured or accepted connection | `EosTcpClientThread::run` | a receive and a send queue, and the accepted socket it is handed |
| sACN socket threads: one per client socket, one reader (select) or several workers (Windows) | `CAsyncSocketServ`, `CStreamClient::ParsePacket` | the map of sockets; the client's records of the sources, under the client's lock; calls `RouterThread::UniverseData` after releasing it |
| the system's MIDI threads | callbacks in `rtmidi/RtMidi.cpp` | a ring per input, without a lock |
| main thread | `RouterController` and `HttpServer`, or the window | talks to the router thread only by `Sync` (a timer), `Start` and `Stop` |

ArtNet, PSN, OTP and MIDI output run in the router thread, one after another in each turn of `MainLoop`.

### Components, state, operations, and what makes them correct

* **Item states** (`ItemState.cpp`). Per endpoint of a route a state, an activity and a mute. There are two
  tables, one of the interface and one of the router thread; `Sync` takes mutes one way and states and activity
  the other, guided by two dirty marks. Correct when neither direction ever loses a change.
* **Controller** (`daemon/RouterController.cpp`). The configuration, the ids its routes were given by the
  last start, the table, the router thread. `PrepareForRouting`, `Start`, `Stop`, `Sync`, mutes, enables; driven
  by HTTP requests and a timer. Correct when mutes silence what they name, and browsers see present states.
* **Configuration file** (`ConfigFile.cpp`). Parsing, diagnosing, truncating and rewriting in place. Correct when
  what was saved comes back, as far as it was written, and what is diagnosed is what runs.
* **HTTP server and web page** (`daemon/HttpServer.cpp`, `daemon/web/app.js`). Requests in parts, answers, event
  streams with the log's history, a page that edits a copy of the routes. Correct when a request is answered as
  the whole it was sent as, no log line is lost or repeated, and a click means the route it was made on.
* **Desktop application** (`MainWindow.cpp`). Rows, their ids in the table, the file. Correct when mutes reach
  the route of the row and nothing applied is lost unsaid, but for a file that could not be written whole.
* **Routing table** (`Router.cpp` `BuildRoutes`, `ProcessRecvPacket`, `AddRoutingDestinations`). Nested maps by
  port, sender and path, looked up a handful of times per packet. Correct when a packet goes exactly once to each
  route it is for.
* **Conversions** (`MakeOSCPacket`, `MakeSendPath`, `ApplyTransform`). Correct when a path has every number
  replaced, a value keeps its limits, and a destination shows activity when something was sent.
* **Worker threads, TCP** (`Router.cpp` 645-1064, 2885-2904 and `MainLoop`). Sockets pass from the server thread
  to the router thread to a connection thread. Correct when each has one owner, nothing leaks, no frame is lost or
  reordered by the hand-overs, and stopping terminates.
* **Worker threads, UDP** (`Router.cpp` 97-643 and `MainLoop`). Queues that refuse packets while a socket is
  down; threads started on demand, reconnecting, deleted once ended. Correct when packets keep their order, are
  sent at most once, and what was accepted is not lost without cause.
* **sACN reception** (`StreamClient.cpp`, `Router.cpp` 3502-4135). Sources come and go by timers; priorities
  per universe and per channel; a merge that decides who controls each channel. Correct when the merge is
  highest-takes-precedence and follows every change, and a lost source is forgotten.
* **sACN output** (`SendsACN`, `StreamServer.cpp`). Universes created, ended and created anew, sent by a timer.
  Correct when each handle names a stream of its universe, none is sent twice, and a receiver follows.
* **sACN sockets** (`Network_Common/AsyncSocket`). Sockets, subscriptions and buffers over several interfaces,
  with calls that fail. Correct when what is opened, joined, counted and allocated is what is in use, and nobody
  is called back after the shutdown.
* **ArtNet** (`Router.cpp` 1508-1620, 2504-2715; `artnet/`). A node per universe that merges two senders; levels
  sent when they change and repeated. Correct when what is shown is what was sent, merged, and outputs follow inputs.
* **PSN** (`RecvPacketPSN`, `psn/`). Frames in several packets. Correct when a tracker is shown again soon after a loss.
* **OTP** (`SendOTP`, `RecvOTP`, `otp/`). Points sent to those that ask, in datagrams; expiries, resends. Correct
  when a resend repairs what was lost, and a point passes routers unchanged.
* **MIDI** (`BuildMIDI`, `SendMIDI`, `RecvMIDI`, `rtmidi/`). Seven backends, a ring without a lock. Correct when a
  message goes in and out whole, once and in order, or somebody is told, and what a port acquires is released.
* **Third party**: `EosSyncLib` (sockets, OSC framing) is a submodule that is not in the repository.

### The hard behaviours

Packets that are between two locks when a timer fires; a thread that ends while it is visited; a connection that
replaces another; a queue that outlives its socket; two dirty marks that are cleared by three operations; ids that
outlive the configuration they were handed out for; a frame whose last packet never comes; a socket that fails
after others were made. `PROJECT.json` lists them by line (`hazards`) with the properties that watch them.

## 2. Modules and the code

| module | models | state ↔ code |
|---|---|---|
| `SacnUniverse` | the data of a universe and the four merge branches of `RecvsACN` | pure operators; `Universe` is `RouterThread::Universe`, without the history used for `levelChangesOnly` |
| `SacnMerge` | the merge loop as a state machine, one step per source | `source` is the map the loop walks, `merged` its accumulator with whatever an earlier call left in it |
| `SacnReceive` | one universe from packets to routed levels, with two threads | `client` = `m_multiverse`, `net` = a socket thread between `ReleaseLock` and `UniverseData`, `lost`/`pcpLost` = the caches of `FindExpiredSources`, `source`/`dirty`/`merged` = `m_sACNRecv` |
| `SacnOutput` | `SendsACN`, `CStreamServer` and its `Tick`, with a receiver that applies `ParsePacket`'s test of sequence numbers | `streams` = `m_multiverse`, `seqs` = `m_seqmap`, `output` = `sACN::output`, `at` = the stream `Tick` is at |
| `Listening` | abstract: what the router expects of its sACN client | `asked`, `heard`, `stage` |
| `SacnSockets` | `CAsyncSocketServ` in the select and the Windows form, the client's and server's sockets, start and shutdown; implements `Listening` | `sockmap`, `subs` (`m_subs`), `overlaps` (Windows' reads), `pnotify`, `router` = the place in start and shutdown |
| `SocketBuffers` | Windows' `WorkThread`, `CMemPool`, `CXReadWriteLock` | `bufOver` = the overlapped structures, `bufHead`/`bufNext` = the pool's list, `bufOwner`/`bufReaders` = the lock |
| `TcpConnections` | TCP server, TCP connection threads, and the router thread's side of them up to the end of its shutdown | `thread[n]` is an `EosTcpClientThread`, `main.pc` the place in `MainLoop`, `clientAt` = `TCP_CLIENT_THREADS` |
| `PacketPath` | abstract: what the router promises of UDP packets, without threads or queues | `from`, `wire` |
| `UdpThreads` | UDP input and output threads and the router thread's visits; implements `PacketPath` | `in` = `UDP_IN_THREADS`, `out` = `UDP_OUT_THREADS`, `shown` = what `SetItemState` was last told |
| `RouteTable` | building the tables and looking a packet up | the five tables and their nested maps are one function `index` of a key |
| `Conversions` | one message for one destination: scripts, paths, limits | `sendPath`, `cvAt`, `digitCount` = the locals of `MakeSendPath` |
| `ArtNet` | nodes with `handle_dmx`, `RecvArtNet`, `SendArtNet`, `FlushArtNet` | `nodes` = `ArtNet::inputs`, `artOutput` = `ArtNet::output`, `artPhase` = the place in a turn |
| `Psn` | encoder, network, decoder, `RecvPacketPSN` | `psnDecoder` = `psn_decoder`, `psnFrame` = `m_PSNFrame` |
| `Otp` | producers and a consumer, adverts of modules, expiries, resends, `RecvOTP` | `otpPoints` = `props_.data`, `otpSystems` = `systems_`, `otpConsumers` = `consumers_` |
| `OtpRelay` | the bytes of the datagrams, and a point through a row of routers | `relaySet` = the points of `SendOTP`, `relayPackets` = those of `RecvOTP` |
| `OtpAdverts` | adverts of names and systems, and who answers whom | `advPeers` = `producers_`, `advWire` = datagrams under way |
| `MidiFifo`, `MidiQueue` | abstract fifo, and the ring that implements it, step by step in both threads | `front`, `back`, `ring` of `MidiQueue` |
| `MidiIn` | the callbacks of seven backends, `BuildMIDI`'s filter, `RecvMIDI` | `sysex`, `bytes` = `continueSysex`, `message.bytes` |
| `MidiOut` | `sendMessage` of seven backends and `SendMIDI`, with failing calls and drains | `outJob` = how far a message is, `outCoder` = ALSA's encoder, `outPending` = what is not drained |
| `MidiPorts` | constructors, `connect`, `openPort`, `closePort` and destructors, call by call, with calls that fail, are ignored, skipped or doomed | `portHeld` = what the object has acquired, `portLost`, `portFreed` = what it has leaked or released without holding it |
| `MidiShow` | show control commands between OSC and MIDI | `showMidi` = the bytes |
| `ItemStates` | `ItemStateTable`, every operation | pure operators on a table |
| `Controller` | `RouterController`, the requests of `HttpServer` that change state, and the router thread as the one who reports states and activity | `contents` = `m_Contents`, `ids` = `m_RouteStateIds`, `router.table` = the thread's copy, `shown` = what a browser was sent last |
| `ConfigFile` | the text of the file: write, read, validate, diagnose | pure operators on sequences of tokens |
| `ConfigStore` | the requests that load, change and save, the start of the process, saves that a crash or a failing write cuts short | `stored` = `m_Contents`, `file`, `engine` = what the router thread was given |
| `HttpConnections` | requests in parts, answers, closing | `httpBuffer`, `httpHeaders` = `Connection` |
| `EventStream` | log lines, their history, browsers that reconnect, restarts | `logHistory` = `m_LogHistory`, `pane` = the log in the page |
| `WebClient` | pages of `app.js`, with requests and answers in any order | `copy` = `config.routes`, `dirty`, `flight` |
| `Desktop` | rows, apply, start, stop, open, save, close, reopen | `rows`, `itemTable` = `m_ItemStateTable`, `fileContents` = `m_FileContents`, `disk` = what the files load as, `persistent` = the file written on exit |
| `MC...` | constants for TLC | |
| `..._proofs` | TLAPS proofs | |

How they compose. `SacnMerge` and `SacnReceive` share `SacnUniverse`; `SacnReceive` uses the merge as one step
(`MergeAll`), which `SacnMerge` opens up. `Controller` uses `ItemStates`; `ConfigStore` uses `ConfigFile`.
`OtpRelay` extends `Otp` with the bytes, `OtpAdverts` extends that. `UdpThreads`, `MidiQueue` and `SacnSockets`
instantiate the abstract `PacketPath`, `MidiFifo` and `Listening` with a refinement mapping.
The other modules meet at the router thread. The order of `MainLoop` is kept within each, and they share no state
but `m_Mutex`, which protects single calls, and the routing table, which does not change while the thread runs.
`MCNetwork`, `MCLive`, `MCThreads`, `MCRouting`, `MCDevices` and `MCHost` therefore join parts as alternatives: a
behaviour chooses one at the start, and the others stay in a fixed state. No interleaving is lost by that, and
every step of every part is explored.

What is abstracted:

* The content of a packet is a number (its order of arrival), and a DMX universe has one or two slots; all slots
  are treated alike. Addresses, ports and paths are members of small sets. Where bytes or characters matter
  (`OtpRelay`, `MidiShow`, `ConfigFile`, `Conversions`) they are there.
* A timer is a flag that an action may raise at any time (`DataTimer`, `PriorityTimer`, `Tick`, the expiries of
  `Otp` and `ArtNet`), a wait for a reconnection may end at any time, and a call to the system may fail or succeed.
* Steps that touch disjoint state are joined where no other thread can tell: `Mute`, `Flush` and `GetState` of a
  visit are one step (`VisitIn`); the check whether a thread is running, which comes before, is another.
* Locks: every access under one lock is one step. Data that is shared without a lock (`m_Run`, `m_Mute`, `running`,
  `m_pnotify`, the indices of `MidiQueue`) is read and written in steps of their own, in the order of the program.

History variables (never read by a guard): `orphans`, `ghosts` and their `pcp` twins, `silent` in `SacnReceive`;
`gotBy`, `routed`, `wire`, `dropped`, `deleted` in `TcpConnections`; `from`, `wire`, `accepted`, `unopened` in
`UdpThreads`; `busy`, `cleared`, `applied` in `Controller`; `artHistory`, `psnHistory`, `otpHistory`,
`midiHistory`; `outSilent`, `portLost` and `portFreed` in the MIDI modules; those so named in `ConfigStore`, `WebClient`, `Desktop` and `SacnSockets`. Bounds on counters
(`MaxFrames`, `MaxSends`, `MaxOut`, `faults` and the like) are constants that guard the step they count.

Every definition's source lines are in the `map` of `PROJECT.json`. Definitions whose comment starts with
"Mutant:" are variants with a plausible bug, used to show that the properties notice; nothing else refers to them.

## 3. Runs

| run | parts and bounds | shows |
|---|---|---|
| `routing` | merge: 3 sources, 2 channels, 3 priorities, left-overs of an earlier call. Table: all pairs of routes over 2 protocols, 2 ports, 2 senders, 2 paths (one a wildcard) and none, disabled, mutes; all packets. TCP: 2 addresses, a client that reconnects, 1 accepted connection, 2 frames | `HighestPriorityWins`: every channel goes to the source with the highest effective priority, ties to the smaller CID, but where only sources bid 0 and one of them asks to be ignored. `RoutedUnderAController`: the address the result is routed under belongs to a source that controls a channel. `RoutedExactlyOnce`, `ServedInOrder`. `SoleOwner`: every accepted socket has one owner until it is deleted once, nothing is left after the shutdown. `FramesFollow`: frames are routed once and in order although threads end, and sent in the order of routing across reconnections |
| `network` | sACN: 2 sources, one with priorities, 1 socket thread. Sockets: 2 universes on one interface, one on two, "any", on three platforms. Buffers: 2 workers, 2 sockets, 3 buffers | `CleanMerged`: a universe that is not dirty is merged from the present sources. `DataOnlyByRace`: the router has data and priorities only of sources the client tracks or is about to report, except through one race, which the history variables name. `SocketsSound`: universes, memberships, counts and reads match; where a read has failed, the socket is deaf and the universe still shown, and what is left of it is said. `BuffersSound`: a buffer has one holder, and a socket outlives its reads |
| `live` | TCP: 2 accepted connections, a client that reconnects, no frames. sACN: 1 source with levels and another start code, 2 sequence numbers, `levelChangesOnly`, the mute changing | `ThreadsAreReaped`: ended threads are deleted, and a stop ends. `RoutedCurrent`: what was routed last is what is merged, unless a mute discarded it. `SilentForgottenOrGhost`: a silent source is forgotten for good, unless the race brings it back. |
| `threads` | UDP: 1 port, 1 destination known or on demand, 2 packets, with and without reconnection, the mute changing. sACN output: 2 universes of 2 slots, 3 packets, sequence numbers modulo 6. Sockets: 1 and 2 universes, select and Windows | `InOrder`: refinement of `PacketPath`. `AcceptedIsKept`, `MuteTakesHold` (one packet at most is routed after a mute), `EndedIsShown`, `QueuesEmpty`. `HandlesAreStreams`: no universe is sent twice; `ReceiverFollows`: a receiver has what was sent, or is known to be behind; `StreamsSettle`: it catches up, and ended streams are freed. `KeepsPromise`: refinement of `Listening` |
| `devices` | ArtNet: 3 senders, 2 slots, 4 frames. PSN: 3 trackers, ids modulo 3, 7 frames, 3 faults. OTP: 2 producers, 2 points, 2 sets; every pair of the module types through 2 routers; 2 hosts with points, a reader with and without a producer. MIDI: ring of 3, 3 messages of 2 parts, 7 backends, packets of 2; ports with up to 3 failures, ignored ones included; show control with every command and 3 texts or numbers. Conversions: 11 paths, 6 limits, scripts, 4 kinds of destination | `ArtNetSound`: see the comments at its parts. `PointsFollow`: a resend repairs the first point of a system, and modules follow who asks. `ThirdFrameShown`: lost and doubled packets cost a tracker two whole frames at most. `RingIsFifo`: refinement of `MidiFifo`. `MidiDelivered`: a message in parts is routed whole and in its turn, unless what spoils it is known. `PortsSound`: what a port acquires is released and nothing else, but for what `KnownLost` and `KnownFreed` name. `MidiOutSound`: a message goes out in its turn and whole, or as one event where Windows cuts it, or somebody is told. `MeaningKept`: points survive other routers, conversions follow the route, a show control command and a tracker arrive as they were meant |
| `host` | daemon: 2 configurations (a muted route with a repeated and an invalid connection; nothing that can run), 2 states, all requests. File: two configurations, one with every text that is escaped and a number of seven digits, one with a destination written in two ways; hand-written text; crashes and failing writes at two places. HTTP: 2 connections, 5 requests cut anywhere. Log: history of 2, 4 lines, 2 processes. Page: 2 routes, 2 requests under way. Desktop: 2 destinations, 2 edits, 1 file | `MutesTakeEffect`, `StatesAreShown`, `FileKeeps` (what a file keeps of a configuration comes back; after a crash or a write that fails all routes but the last lines), `RunnableRuns` (an enabled route without a diagnosis is in the engine), `BrowserFollows` (answers, log and clicks), `DesktopKeeps` (mutes of started rows, and nothing applied is lost without a word but what a file that was not written whole has lost) |
| `sacn_receive_ghost`, `sacn_shutdown`, `controller_put`, `otp_points`, `conversions`, `desktop_mutes` | the smallest instance of one part | violations: see 6 |

The names of compound properties (`SocketsSound`, `ArtNetSound`, ...) stand for named conjuncts in the modules of
the parts, each with a comment of its own; the type invariants of the parts are `HostTypeOK` and `DevicesTypeOK`.

Why the bounds are enough.

* In the merge a step compares one source with the accumulator, so three sources cover every chain of a win, a
  tie and a loss with both kinds of priority; the theorems cover any number. In `SacnReceive` sources only meet in
  the merge and in the cache of lost ones, and each race is between one packet and one expiry: `RacesOfFirst` lets only
  that source leave something behind that has both start codes. (`OldDataOnlyByRace` is proved without that bound.)
* In `TcpConnections` one client that reconnects has all its orders with an accepted connection that replaces it
  (`routing`), and two accepted connections are the smallest number with which one can replace the other before,
  while and after it runs (`live`). In `UdpThreads` ports share no state and destinations share no state, so one of
  each has all interleavings of a path; two packets can be swapped, repeated, lost or split by a failed start.
* `SacnOutput`: two numbers are needed for places to be freed and reused; a window of 2 in 6 sequence numbers stands
  for 20 in 256. `SacnSockets`: a socket takes one membership (`Room`), so that two universes need a second one.
  `SocketBuffers`: one buffer is kept in reserve, and with three the pool grows, empties and fills.
* `ArtNet`: the third sender is the smallest number that finds both slots taken. `Psn`: ids wrap at 3 instead of
  256, so that a frame whose id comes again is reached; the largest frame has three packets. `OtpRelay` has every
  pair of module types, since the skip between two modules depends on the length of the first.
* MIDI: with a packet or coder smaller than a message the loops over pieces are run; the ring holds two. Failures
  are bounded by 2 or 3 in a row; each is independent of the ones before but for what it leaves behind.
* In `ConfigStore` a save is cut at two places amid the routes; of the
  numbers of more than six digits (`LongNumbers`) one is enough, as each is written alone. In `Desktop` a cut file
  loads as any number of its first rows, of which the last can have lost its mute.
* In `Controller` each hazard is about one id and one order of requests; the configuration can be exchanged any
  number of times. In `EventStream` the history is shorter than the log.
  In `WebClient` two requests of a page under
  way are the smallest number that can be reordered; its routes are symmetric, since nothing but their identity tells
  them apart, and `host` has no liveness property that symmetry could spoil.

`CHECK_DEADLOCK FALSE` is stated where the bounds on packets or sources, the end of the shutdown or the end of a
build let the system stop. `host` goes on for ever.

## 4. Fairness

`sacn_receive_ghost`, `live` and `threads` assume weak fairness of every thread, each behaviour of a composition that of
the part it has chosen: a thread is an operating system
thread whose loop sleeps for a bounded time and blocks on nothing but a lock that is held briefly, or on the end of a
thread (which is a guard in the model). The network, the user and `Initialize` have no fairness: packets need not
arrive, a socket may fail to open for ever, the router need not be stopped. Beyond that:

* `SacnReceive` with a source that goes silent assumes that its timer expires, that a callback ends, and (`Prompt`) that
  a callback does not take longer than the expiry interval. `StartLoopWithPoll`, the turn of the loop in which
  `CStreamClient::Poll` is due, is strongly fair: the poll is due after a time, and other turns come between. The
  violation of `sacn_receive_ghost` is found in spite of all that.
* `SacnOutput`: the send interval of each stream expires again and again, of the turns in which `Tick` comes to it
  (strong fairness of `Tick(TRUE)` for each).
* `SacnSockets`: a shutdown that waits for the write lock gets it, since readers leave it again and again
  (strong fairness of the two shutdowns); the reader, each socket's thread and each worker go on.

## 5. Proofs

A theorem holds for all values of the constants. Those in bold state a property that a run checks on a small instance.

| module | theorems | about |
|---|---|---|
| `Routing_proofs` | **`MergeIsCorrect`**, **`MergedAddressIsCorrect`** | the merge, for any number of sources and channels |
| | `RouteTableTypes`, **`PacketsRoutedOnce`**, **`RoutesServedInOrder`** | the routing table, for any list of routes |
| `SacnReceive_proofs` | **`ReceiveTypes`**, **`OldDataOnlyByRace`**, **`NoUpdateForgotten`**, **`MergedIsRouted`** | one universe, for any number of sources, channels, start codes and socket threads: data of a lost source comes only of the one race, a universe that is not dirty is merged from the present sources, whatever an earlier merge has left, and what was routed last is what is merged unless a mute discarded it |
| | **`BuffersAreSound`** | the buffers of the Windows build, for any number of workers, sockets and buffers |
| | **`SocketsAreSound`**, `SocketsKeepPromise` | the sockets on all platforms, for any universes and interfaces; each step of them is one of `Listening` or leaves it unchanged (the safety part of `KeepsPromise`) |
| `UdpThreads_proofs` | **`TypeInvariant`**, **`MuteHolds`**, **`AcceptedKept`**, **`EndedShown`**, **`PacketsInOrder`** | the UDP threads, for any ports, destinations, routes and packets; the last is the refinement of `PacketPath` |
| | `SacnOutputTypes`, **`HandlesNameStreams`** | the streams of the sACN output, for any universes and packets |
| `TcpConnections_proofs` | **`ConnectionsOwnedOnce`**, **`FramesFollowEachOther`** | connections and their frames, for any addresses, accepted connections and frames |
| `Controller_proofs` | `ControllerTypes`, **`MutesReachTheRouter`**, **`StatesReachTheBrowsers`** | the daemon's controller, for any configurations |
| | **`BrowsersFollow`** | answers, log panes and clicks, for any requests divided in any way, any history, browsers, processes, pages and routes |
| | `DesktopTypes`, **`AppliedAndMutesAreKept`** | the desktop application, for any rows and files |
| `ArtNet_proofs` | `ArtTypesHold`, **`ArtNetIsSound`** | ArtNet, for any routes, senders, sizes and settings |
| `Devices_proofs` | `RingTypes`, **`RingImplementsFifo`** | the MIDI ring, for every size: the refinement of `MidiFifo` |
| | `MidiTypes`, **`MidiIsDelivered`** | the MIDI input with the callback of every backend, for messages of any number of parts |
| | `MidiOutTypes`, **`MidiGoesOut`** | the MIDI output with the call of every backend, for any messages, sizes of packets and buffers, and failures |
| | **`PortsAreSound`** | the MIDI ports of every backend, for any number of failures |
| | `PsnTypes`, **`ThirdFrameIsShown`** | PSN, for any trackers, any ways to split a frame, any number of frame ids from two on and any faults |
| | `OtpTypesKept`, **`PointsAreFollowed`** | OTP, for any producers, consumers, systems, points and losses |

`Induction` holds what the others share: induction over numbers up to a bound, what a recursive function over
a sequence computes, and what is in a sequence that is appended to or read from.

Assumptions are those the modules name (`MergeAssumption`, `ReceiveAssumption`, `NoneAssumption`, `RouteAssumption`,
`BufAssumption`, `SocketsAssumption`, `UdpAssumption`, `SacnOutputAssumption`, `TcpAssumption`, the two
`GoneAssumption`s, `ControllerAssumption`, `StatesAssumption`, `HttpAssumption`, `EventAssumption`,
`FlightAssumption`, `DeskAssumption`, `ArtNetAssumption`, `RingAssumption`, `MidiAssumption`, `OutAssumption`,
`PortAssumption`, `PsnAssumption`, `OtpAssumption`): types of the constants, that bounds are numbers, and that a model value that stands
for "nothing" is none of the things it stands beside. Beyond that, `HttpAssumption` says that a request has one head and as
many bytes after it as its head says, and `PsnAssumption` that a frame has a packet (`encode_data` makes none of
no trackers) and that there are two frame ids; `OtpAssumption` says that the systems are finitely many (a system is a byte)
and that no point is without modules. TLC evaluates each in a run.

How the arguments go:

* *Merge.* After sources 1 to i-1 the accumulator holds, per channel, the effective priority and the level of the
  source that controls it among those seen. `MergeStep` is what one branch does to a channel (keep, or take where
  the new priority is strictly higher); each of the four branches is shown to be one, and `ControlAfterJoin` that
  such a step keeps control with the best source. The invariant needs the accumulator's kind of priority
  (`pcp`) as well: a basic accumulator's `channelPriority` is stale, and the branches read it only when it is not.
* *Reception.* `DataOnlyByRace` is not inductive: that a source is tracked has to be known of it from the moment
  a notification is under way, so `NotificationsTracked` says what each place of a notification (in the socket
  thread, in the caches) implies of the client's record and of the history variables. `CleanMerged` rests on
  `MergeForgetsEarlier`: the loop `MergeAll`, with whatever accumulator it starts, ends with the same levels and priorities,
  because its first source overwrites what the others read; by induction over the sources. `RoutedCurrent` needs
  `PreviousRouted`: what `levelChangesOnly` compares with has been routed, or discarded.
* *Buffers.* `BufInv` says who holds the lock and in which mode (`LockIs`), what each worker holds in its hands at each of
  its places (`HoldIs`: in particular no two workers are at one socket, and a socket that is owned or read has its
  entry in the map), and that the list of free buffers reaches each free buffer once (`PoolIs`).
* *Sockets.* `SockInv` has one part per relation between pieces of state: ids are handed out upwards, so that a new
  socket is in nobody's records; what is joined was asked for, and counted with its socket; threads serve sockets in
  the map, and have ended or failed where a universe is shown without being read; entries queued for removal were left; what a thread has in its hands at each of its places; and how far the
  router's start and stop have come. Each action has a lemma. The refinement mapping reads `asked`, `heard` and
  `stage` of `Listening` off them.
* *Routing table.* `EntriesAreRoutes` (entry j of a key is an enabled route with this key) and `RoutesHaveEntries`
  (every enabled route up to i has exactly one entry) are kept by `AddRoute`; `LookUpFinds` shows that the key of a
  route is among those looked up for a packet if and only if the route is for it, and in one pass only: the
  cardinality is then 1 or 0.
* *UDP threads.* `MainOK` says where the router thread can be: what it has still to visit, and what it is at, exists.
  A mute holds because the visit that tells of it also empties the queue. `AcceptedIsKept` says nothing of which
  threads can be deleted; `KeptInv` adds it: a thread that nobody has stopped stays in its inner loop once it has
  opened, so what is deleted before `Stop` has never opened and was writing nothing. `EndedIsShown` needs the
  order of the visit (`isRunning` before `GetState`) against the order of `run()` (the state before the end):
  `ShownInv` says, for each place of the visit, what a negative answer of `isRunning` still implies there. For
  `InOrder`, `OrderInv` lines up the places of a packet (the input's queue, the router's hands, the output's
  queue, the thread's hands, the wire): numbers grow along each and towards the wire they fall.
* *sACN output.* `SacnOutputInv`: a universe and start code has one place; every handle names a live stream of its
  universe that was not ended (`HandlesOK`), every live stream that was not ended is named (`NoneLeft`), and the
  sequence numbers of a universe are kept while a stream of it lives (`Referred`). A place is taken again when its stream
  is gone, and only all of these together tell that no handle was left to it.
* *TCP.* An accepted connection is in exactly one place (the server's queue, the router's, a thread's hand, or
  deleted): `Owned`, with `MapOK` (the map from addresses names live threads), `ThreadsOK` and `Room` (there is always a free
  thread number). For the frames, `FramesInv` relates what was received, what waits and what was routed, across the
  replacement of a thread whose queue is handed over.
* *Controller.* `PrepareForRouting` goes through the configuration with a recursive function; `Good` says of its
  accumulator that the ids it has handed out name items with the right ends and mutes, and is proved by induction over
  the routes. Then `MutesApplied` and `TablesFit` say, of the two tables and the marks, which side has the last word on mutes
  and which on states.
* *Browsers.* `HttpInv`: until a request is answered, the buffer is the part of it that has been read, and the parsed head
  is that of this part (`Collects`); so an answer is to the whole, whatever the parts. `EventInv` looks at the lines in a
  pane and those on the way as one sequence (`LogRight`): from one line to the next nothing is missing but what the history
  has dropped or an earlier process took with it, and a connected browser's sequence ends with the last line. `WebInv`: a page
  that is not marked has the daemon's routes, and so have the fresh answers under way (`PageRight`); hence a mute
  asked for by such a page has the place and the identity of one route.
* *Desktop.* Rows that were kept since a start have the ids that the start gave them, wherever the table is;
  `IdsTaken` and `StartedAs` tell the table and the running router apart, which is the mistake behind `desktop_mutes`.
  `FilesRemembered` and `LeftIsKept` are what "nothing applied is lost" needs; both are said of the files that are not
  `spoiled`, the history of those whose last write failed without anybody noticing.
* *ArtNet.* `InputsHold` (a slot of a port has what its source sent last, a port with two sources shows both, and a
  source that is alone shares with nobody), `PrevNoted` (what `levelChangesOnly` compares with is what the port shows,
  unless it is dirty), `OutputsHold` (an output has what was noted last of its input), and `UnsentIsDirty`.
* *Ring.* The messages between the two indices are the abstract queue; each step of either thread moves one index
  past one slot or none, and the slot it writes is outside.
* *MIDI input.* `AssemblyInv`: of a message that is not known to be spoilt, the parts sent up to now are the bytes
  collected, and `continueSysex` says so. `OrderInv` orders the whole messages over what is routed, what is queued and
  what is being collected. `KeptInv`: while nothing is spoilt, each message that has ended is routed, queued, refused by a full
  queue or muted. None of them is inductive alone: the bytes left by an interrupted message are harmless only
  because the device then sends another number (`DeviceInv`), and a port that closes leaves none (`ClosedInv`).
* *PSN.* Between two packets the decoder is at the start of a frame or amid one (`Amid`). `Numbered` says, after k packets of
  the first, second or third whole frame in a row, which ids the decoder and the frame in hand have and how many packets are
  counted: the first frame only gives the decoder its id, the second ends what was begun before, and the third is counted
  from nothing and has an id that is new. `Filled` adds its trackers. That one id follows another is where two
  ids are needed.
* *MIDI output.* The pieces on the wire and those not yet drained are looked at as one sequence. `Reached`: how far the
  message in hand can be, for each backend. `LastOnes`: its pieces are the last of the sequence, and reach from its first
  byte as far as `outJob` says unless somebody was told or Windows has cut it. `Sequential`: messages do not mix. So a message whose call
  returns at its last byte is whole, and stays so.
* *OTP.* `RepairedKept`: when a system is repaired, every datagram of it that still waits is the one that a resend would
  send now. So what the next turn routes for the first point is what was routed, or another producer's, which the
  property excludes. A turn reads its datagrams with a recursive function; by induction over them, what it routes for a frame comes
  of one of them, and for the first frame of the last of the last (`TickReads`). That `Resent` is the same after another system's
  point is set is extensionality (`DatagramSame`).
* *Ports.* What a class has acquired at call n is what its calls before n acquire, less what was ignored; the classes
  are data, so that each is checked by evaluation of `ClassFacts`: what a failure at call n leaves is released
  by the destructor or known to be lost, what it releases was acquired or is known to be released unasked, and no call
  acquires what is held but a ring. `PortHasClient` adds that JACK registers no port without a client.

What stays with TLC, and why:

* Liveness: `QueuesEmpty`, `StreamsSettle`, `ThreadsAreReaped`, `SilentForgottenOrGhost`, the fairness of `KeepsPromise`.
* `ReceiverFollows`. A terminated stream sends three packets that nobody needs and that
  count; how far its number drifts from a receiver that hears none of them depends on the time between two
  packets, which the model leaves open, so that only `MaxSends` bounds it. For all sizes it is false of the model.
* `FileKeeps`, `RunnableRuns` and `MeaningKept`: their operators are `SelectSeq`, `SortSeq` or folds over texts and bytes,
  which the installed provers cannot expand. (Where a loop of the code is a recursive function it can be proved about by
  `Induction`, as the merge, `PrepareForRouting` and `TickTransform` are.)
* `HostTypeOK` and `DevicesTypeOK` join the type invariants of parts. Those of the parts with theorems are proved one by one; a
  composition adds only the choice of a part.

## 6. Where code and documentation disagree

With a run that shows it:

* `sacn_receive_ghost` (`StreamClient.cpp:426`). `ParsePacket` releases the lock before it notifies. A priority
  packet does not restart the data timer, so `FindExpiredSources` can erase the source and report it lost in
  between; the notification then inserts it in `m_sACNRecv.sources` again, and nobody removes it.
* `sacn_shutdown` (`StreamClient.cpp:429`). `m_pnotify` is tested and then called through without the lock under
  which nothing sets it to null, and the socket threads are joined only later.
* `controller_put` (`RouterController.cpp:432`). After `PUT /api/config` with more routes, and before it is
  applied, `POST /api/routes/<n>/mute` indexes `m_RouteStateIds` past its end.
* `desktop_mutes` (`MainWindow.cpp:2170`). A row that was loaded after a start has an id of another table; its
  mute button mutes another route, or none.
* `otp_points` (`otp.cpp`, `FromDatagramTransform`). The loop over the modules of the first point takes the second
  point for a module and skips it: a datagram of two points updates one.
* `conversions` (`Router.cpp:3086`). Replacing a number of a path by a shorter text skips what follows it, another
  number included.

Met while modelling, without a run of their own. Of the configuration and the daemon:

* `RouterController.cpp:254`: routes with the same destination share an item, registered with the mute of the
  first; a muted second one sends, and `app.js:554` shows it as muted.
* `Router.cpp:1204`: one listener serves a port with the address of its first route; a later route without
  incoming IP is not listened for everywhere, as `ConfigFile.cpp:516` expects.
* `RouterController.cpp:312`: a start that finds no route to run clears the table without telling the browsers,
  which keep the old states. (`ShownUnlessCleared` names this case with `cleared`.)
* `RouterController.cpp:226` and `Router.cpp:1178`: a route with an invalid outgoing port runs, with the
  incoming one; `ConfigFile.cpp:473` says it will not run. With every route disabled routing starts;
  `ConfigFile.cpp:524` says it will not. A disabled route hides an enabled one with the same ends behind it, of which
  nothing is diagnosed. (`RunnableRuns` is about enabled routes, and names the hidden ones.)
* `ConfigFile.cpp:48`: in "$$desk" only "$desk" is a reference; what it becomes, "$10.0.0.1", has a reference again, "$10", so that
  `RouterController.cpp:231` drops a route that `Diagnose` finds nothing wrong with. (`StrayDollar`)
* Nothing asks whether a write has failed (`ConfigFile.cpp:711-714`, `RouterController.cpp:180-184`): on a full disk the file is
  cut short and the save reported as done. Transforms are written with six digits (`ConfigFile.cpp:148`): 1234567 comes back
  as 1234570. (`FileKeeps` is about what a file keeps, `Kept`, and about what is left of one that is cut.)
* The file loses a backslash before an `n`, a carriage return, spaces around unquoted text, and rows labelled
  "Settings", "Mute" or "Variable". (`CleanText` and `CleanLabel` exclude them from `FileKeeps`.) Of a route line
  cut by a crash, five fields with a number load as a TCP connection, and more than ten as an enabled, unmuted
  OSC route. Mute-all is never saved; mutes and enables ignore errors of the save; the memory is replaced before
  a save that fails.
* `main_daemon.cpp:46-75` writes to the end of the pipe that is read: SIGTERM and SIGINT are swallowed.
* The page: "Reloaded from disk" after Discard reads memory; edits made while a save is under way are dropped;
  item states are by index while routes have moved. An HTTP error leaves the buffer, so that a refusal can be
  repeated while the connection closes; a header that contains "content-length:" is taken for it, and a negative
  length at face value.

Of sACN and its sockets:

* `Router.cpp:3547`: levels sent with a per-channel priority of 0 are merged and routed if nobody outbids them;
  `StreamACNCliInterface.h:84` says 0 means "ignore my values on this channel". (`SacnUniverse` has this behaviour;
  `HighestPriorityWins` excepts the channels where it matters, `Contested`.)
* `Router.h:662`: universes are merged and routed during their sampling period; `StreamACNCliInterface.h:47` asks
  not to. (`SacnReceive` has the period and the merge ignores it.)
* An `sACNIP` that matches no interface listens on all of them; with any interface errors of a subscription are
  ignored and the universe is shown as connected; a failed join stays counted in `sublist`.
* A `recvfrom` that fails on an open socket ends the reading of it (`OSXStreamClient.cpp:121`, `WinStreamClient.cpp:113`), and so
  does a read that Windows cannot start again (`AsyncSocketServ.cpp:80-96`, `789-794`): the entry stays in the map, and the
  universe is shown as connected though nothing comes any more. (`ShownIsJoined` and `ReadsHaveEntries` name these sockets.)
* Windows: a failed `CreateUnicastSocket` leaves an entry that is shut down in the map; when `Alloc` fails in
  `WorkThread` the socket stays deaf and its overlapped structure is leaked.

Of the devices:

* OTP: `MergeTransform` calls back with a point that a higher priority has just beaten, and a point whose values do
  not change keeps its old time, so that a producer that goes on sending expires. Datagrams where the skip ends
  within six bytes of the end are dropped whole (five points with `posVelAccel` only, for one). `SendOTP` makes a
  point of each module, so of two datagrams that one tick reads the first is lost, and it reads three arguments
  without counting them. A name is written with a length before it, 43 bytes an item (`otp.cpp:1011`), and read without, 39 bytes
  (`otp.cpp:629-640`): an answer with names cannot be read, so that nobody learns a name. Answers of names are not marked as
  such: two producers without a point answer each other for ever once one of their hosts has asked (`AnswersEnd`
  leaves them out, and bounds the others).
* ArtNet: the node of universe 16 is given port 16 and no subnet, and the library takes the low four bits: it listens to
  universe 0 (`Router.cpp:1531`);
  `FlushArtNet` clears the mark of what could not be sent.
* MIDI: a constructor of ALSA that throws leaks what it has made, Windows the buffers of an input that fails behind them,
  and an output of JACK a ring with every attempt to get a client but the last (`KnownLost`). ALSA frees a queue that it did
  not get (`RtMidi.cpp:2020`) and a subscription that could not be made (`2512`), Windows a mutex that was not initialised (`2806`), and
  CoreMIDI may a port that has no value yet (`KnownFreed`). An input of Windows whose buffer cannot be unprepared throws out of
  its destructor (`2925-2935`), which ends the program (`DestroyThrows`). Of a short message with two events Windows sends the
  first (`RtMidi.cpp:3199`), and a drain of ALSA that fails (`2630`) leaves the message for the next one: nobody is told of either; events with a realtime byte between the parts of a system exclusive message spoil it;
  the filter is set after the port is open; a mute leaves a backlog; warnings count as activity; JACK ignores a
  failed connection, drops what is too long without a word, and spins in `closePort` if the server is gone; ALSA notes a new
  buffer size before the resize that fails, and leaves events before a failing one for the next drain. A show control
  command without data is not routed on (`Router.cpp:3746`). The example of the help (`MainWindow.cpp:2669`) sends device 2,
  format 1 as 4 and 5.
* Conversions: a text that replaces a shorter number is scanned again; a number at the very start of a path is
  not replaced; levels for a TCP connection show activity but send nothing (`Router.cpp:1868`); a script that leaves
  no path still frames an empty packet for TCP; limits drop all arguments but the first, and do nothing for sACN and
  ArtNet paths without "="; globals persist between scripts.

Of the desktop: `SaveToDevice` reports success whatever became of its writes (`MainWindow.cpp:3103-3114`), and on exit nobody
asks whether the file could be written at all (`3385`), so that a full disk loses what was applied without a word
(`AppliedReturns` excepts the files in `spoiled`); that the file on exit could be removed is not asked either; a save without TCP rows resets their ids, so that their states freeze until the next start;
`TcpWidget::UpdateItemState` returns at the first row that is not dirty; rows without a valid port vanish at a
start; unapplied edits are not asked about; the path is taken before a load or save succeeds.

## 7. What is not modelled

* `EosSyncLib` (sockets, OSC packets and their framing), a submodule that is not in the repository: external, as
  `Router.cpp` uses it.
* What a script computes (Qt's JavaScript engine), the rounding of computed values, formatting of logs.
* The layout and drawing of the window and of the page, dialogs, the log pane of the desktop.
* Of the sACN library: the kqueue build and `CObjectSync`, which are not compiled or used by nothing; the reuse of
  file descriptors, the 500 ms limit of Windows' shutdown, `SocketBad`; parsing of addresses and CIDs.
* Of `artnet`: poll, address, RDM and firmware packets, which the router's nodes do not act on. Of `rtmidi`: the
  enumeration of ports, virtual ports and the C interface. Of `psn`: names.
* Memory, except where it is what a property is about (`SocketBuffers`, `MidiPorts`); that `new` throws, or a ring of JACK finds no room.
* The handling of signals, which has no effect (6). The end of the process by a kill or a crash is modelled.

## 8. Plan

The modules of the original plan are there, and every invariant that a run checks of the threads, the sACN library, the table,
the controller, the browsers, the desktop, ArtNet, PSN, OTP and MIDI is proved. What is worth proving next, in this order:

1. `OtpAdverts`: who asks for systems is told them.
2. The safety part of `StreamsSettle` and `QueuesEmpty`: what a state that has settled looks like, as an invariant.
