# OpenAY Mic: specifications

TLA+ modules, TLC runs and TLAPS proofs for OpenAY Mic, which makes an Android
phone a microphone of a desktop. The phone captures audio and sends it over
UDP, TCP or Bluetooth; the receiver (`desktop/crates/openay-server`) classifies
and decodes the packets, queues the samples in a lock-free ring
(`openay-jitter`) and plays them from a real-time audio callback. A command
line and a desktop console drive the receiver; two tools test its transports.
The specifications cover all of this where threads, tasks, processes and an
unreliable network meet, and leave out what is signal processing, drawing or
the Android framework's lifecycle.

All source paths below are relative to `src/`; `openay-*` crates are in
`src/desktop/crates/`. `PROJECT.json` maps every definition to its lines.

## Inventory

| part | state it keeps | operations | what is hard | what makes it correct |
|---|---|---|---|---|
| jitter ring (`openay-jitter/src/lib.rs`) | cells, `head`, `tail`, `overruns`, `underruns` | `push`, `pop`, `available` | two threads share the storage through raw slices; a third reads the fill | no aliasing, order, no silent loss, true fill |
| prebuffer latch (`process_callback` in `pw.rs`, `fill_blocks` in `audio.rs`) | `streaming`, `dry_quanta` | one callback per quantum | reads a target another task moves | no endless silence, no endless concealment |
| depth controller (`depth.rs`, `spawn_depth_controller`) | target, decay window, `peer_stale` | a tick every 200 ms | late ticks, pauses, underruns inside a window | depth in its band, decay only when earned, latency comes back |
| engine (`engine_main`, `start_pipeline`, `stop_pipeline`) | the `Pipeline`, the shared `EngineState` | Start, Stop, reaping tick, end of channel | five threads and tasks per run share a quit flag; awaits between steps | nothing of an old run acts on a new one; dead runs are torn down and explained; clients see the contract they rely on |
| command-line receiver (`openay-server/src/main.rs`) | one handle | Start, wait, Stop, wait, stats line | polls an engine that stops in its own time | the stats line is that of the run it stopped |
| stream accept loop (`tcp_loop`, `bt_loop`, `stream_accept_loop`) | `busy`, `active`, `device_slot` | register, accept, evict, serve, stop | ending tasks write the loop's cells; `abort` is asynchronous | one sender, the newest; final counters; it stops |
| serve task (`serve_packet_stream`) | reply channel | read, reply, ping, end | its writer is a detached task | both tasks end with the connection or the run |
| UDP loop (`udp_loop`) | pinned peer, `peer_last_rx`, `last_ping` | receive, ping, reply, takeover | loss, duplication, reordering; roaming phone; second sender | one peer at a time, nobody locked out, nobody else answered |
| ingest and sequence tracker (`ingest.rs`, `openay-transport/src/seq.rs`) | `expected`, `last`, counters | `ingest_packet`, `update`, `reset_seq` | 16-bit wrap | losses counted exactly where the network only loses |
| status (`EngineHandle::status`) | none | reads all of the above | unsynchronised reads | LIVE means audio |
| TCP framing (`openay-transport/src/tcp.rs`, `openay-protocol`) | `pending` | `next_packet`, `resync` | reads that end anywhere, noise, magic bytes in payloads | what was sent comes out, in order, and nothing else |
| proxy (`openay-proxy`) | channel, delay queue, armed sleep | receive, decide, delay, release, exit | a sleep that every other event disarms | nothing overdue, order of deadlines, true counters |
| loopback tool (`openay-loopback`) | verifier, tracker | send, recv, bench over UDP and TCP | its verdict is about a lossy path | passes exactly when everything came through |
| desktop console (`openay-gui`) | form, config, last status, tray, tasks | edit, save, ON AIR, tray, tick, quit, crash and relaunch | tasks in no order beside the GUI thread; a cached status; a file written in two steps | console, engine and file agree once nothing is under way; a quit exits |
| phone: pipeline, byte ring, transports (`android/native/src`) | ring, stop flags, sequence number, `pend_` | callback, network loop, poll for control packets, Start, Stop with drain and bye | real-time callback, blocking sends, polls that end inside a packet | no torn frame, drain before bye, Stop returns |
| phone: service (`MicCaptureService.kt`, `BluetoothLink.kt`) | session, jobs, link | start, stop, Bluetooth start coroutine | blocking connect raced by Stop | the last command wins (not modelled) |
| phone: UI, voice cleaner, Opus, Oboe; codecs | presentation and signal processing | | | (not modelled) |

How they interact: the network task (UDP loop or the serve tasks) calls
`Ingest::ingest_packet`, which pushes into the ring; the audio callback pops,
gated by the latch and the target; the depth controller reads the underrun
counter the callback bumps and the packet counters ingest bumps, and stores the
target; the engine starts and stops all of them through one `quit` flag per
run; the GUI and the command line send commands over a channel and poll
`status()`. On the phone a real-time callback fills a byte ring that the network
thread empties into a socket, polling the same socket for control packets.
`PROJECT.json` lists the hazards of this structure, each at its line with the
properties that cover it.

## Modules

| module | models | composed of |
|---|---|---|
| `SampleFifo` | what the ring promises: a bounded queue of samples | |
| `JitterBuffer` | `push` and `pop`, one step per load, cell and store | refines `SampleFifo` |
| `JitterFill` | `available()` from three threads, among the ring's steps | extends `JitterBuffer` |
| `JitterBufferProofs` | theorems about `JitterBuffer` and `JitterFill` | extends `JitterFill` |
| `Playout` | latch, dry count, underruns, depth controller, stale watch | the ring as its fill |
| `PlayoutProofs` | theorems about `Playout` | extends it |
| `EngineContract` | what the engine promises whoever holds its handle | |
| `Engine` | lifecycle of runs and of what they spawn | |
| `Receiver`, `MCReceiver` | the engine with any client, or with the command line | extends `Engine`, refines `EngineContract` |
| `ReceiverProofs` | theorems about `Receiver` and the `Engine` under it | extends it |
| `Gui` | the desktop console, its tray, tasks and file | extends `EngineContract`: the engine is any that keeps it |
| `GuiProofs` | theorems about `Gui` | extends it |
| `StreamAccept` | registration, accept loop and serve tasks | |
| `StreamAcceptProofs` | theorems about `StreamAccept` | extends it |
| `SeqTracker` | `SeqTracker::update`, modulo `Word` | |
| `UdpLoop` | peer latch, pings, replies, ingest, behind a lossy network | extends `SeqTracker` |
| `UdpLoopProofs` | theorems about `UdpLoop` | extends it |
| `CaptureRing` | the phone's byte ring | |
| `Session`, `MCSession` | a stream session, both ends of it | extends `CaptureRing`, `SeqTracker` |
| `SessionProofs` | theorems about `Session` and its `CaptureRing` | extends it |
| `Wire` | packets, header, encode and decode, in cells | |
| `Framing` | `next_packet` and `resync` over any byte stream | extends `Wire` |
| `Proxy` | reader, delay queue, profiles, re-armed sleep, exit | |
| `Loopback`, `MCLoopback` | send, recv and bench | extends `Framing` and `Proxy`, instantiates `SeqTracker` |
| `LoopbackProofs` | theorems about `Loopback`, and the `Proxy` and the `Framing` under it | extends it |

**`JitterBuffer`.** `push` is `PushFull` (no room) or `PushBegin` (load `tail`,
decide how much fits), then one `PushCell` per cell, then `PushPublish` (the
store of `head`); `pop` likewise. Steps of the two threads interleave as if
memory were sequentially consistent: each index is stored with Release by its
only writer and loaded with Acquire by the other side, and the cells are written
before and read after such a pair, so no other order can be observed. A sample
is its position in the stream offered, and `written` and `delivered` are
histories. `PushPanic` is the length mismatch of the second `copy_from_slice`.

**`JitterFill`.** `available()` is two steps. The network task and the callback
call it between their own calls; the status thread calls it any time.

**`Playout`.** Time is ticks of the controller, and a tick may come up to
`MaxLate` ticks late; durations of the code are numbers of ticks. The backend is
chosen in `Init`: PipeWire conceals `DRY_RESET_QUANTA - 1` dry quanta, cpal
none. `credit` counts clean flowing time that has not been spent on decay.

**`EngineContract`.** One command at a time; a Start stops what runs first. A
Start is refused (`Refuses`), or gets past its checks and clears what is left of
the run before (`Begins`), and then fails to bind (`Fails`) or serves. A run takes
packets (`Serves`) before its counters can be read (`Publishes`), and these before
it shows as running (`Runs`); in a stop the counters go first (`Hides`), `running`
falls last (`Stopped`). An error and a stats line are kept until a Start gets past
its checks. It is written without runs, threads or quit flags: what a client could
know. It is what the code does; where the docs promise more, see
`FailedStartShowsNoLine` below.

**`Engine`, `Receiver`.** `engine_main` handles one event at a time, so its
program counter is a variable, and the awaits of `stop_pipeline` and the bind in
`start_pipeline` are separate steps between which every thread moves. So are the
stores that another thread can see in between: `start_pipeline` spawns the network
task (`Serve`, `lib.rs:1167`), publishes its counters (`Publish`, 1191-1200) and
sets `running` (`MarkRunning`, 1201) in three steps, `stop_pipeline` stores the
line and drops the counters (`StopClears`) before `running` falls (`StopDone`).
Setting a
device up is one step with the outcomes its stages allow: no wait in it looks at
quit. What belongs to a run is known by the run's
number, so "the error of another run" is a comparison. A Start may ask for a
refused configuration, an IP transport or one that fails at once, with PipeWire,
cpal or no output, and with or without the LISTEN monitor. `Receiver` puts a
client in front: either any sequence of commands, or `main` with its channel,
its 100 ms poll and its five-second wait. `Contract` maps the engine's program
counter to the contract's phases and run numbers to configurations.

**`Gui`.** One message at a time on the GUI thread; a save, a button press and a
tray request each append a task, a list of file operations and sends, and the
tasks advance in any order. `status()` is two reads (`Poll`, `PollEnds`) with the
engine moving in between. A packet can come from the moment the network task is
spawned, before the run shows as running. `fs::write` is a truncation and a write, and a kill
may fall between them. The histories `calm`, `wanted` and `fell` say what the
user asked for and whether they waited. `Windows` picks the tray menu: the
Windows one always offers both commands, the StatusNotifier one what its icon
allows.

**`StreamAccept`.** `bt_loop` first registers a profile, which may fail;
`tcp_loop` is handed its listener. A serve task is being polled, parked at an
await, draining its writer, or in the two pieces of code after the stream, which
have no await; `abort` marks it, and it is dropped only at an await. Storing the
handle is a step after spawning the task, as in the code.

**`UdpLoop`.** One phone that may roam to a new address and keeps counting, one
other host, and a set of datagrams in flight from which any may be delivered,
lost, or delivered and kept. `told` is the last address written to.

**`CaptureRing`, `Session`.** A push and a pop on the phone's ring are three
steps each: load, copy, publish. `Session` is `CapturePipeline`'s callback,
network loop and Stop at one end, `serve_packet_stream`'s read task and detached
writer at the other, and a link in between that may break. Towards the receiver
a packet is whole, because `Framing` has that direction; towards the phone it is
cells, because the phone polls with a timeout of 0 and may find any part of one.
`Received` is `Recv` with its `ReadExact`, `RetainPartial` and `Resync`. A send
blocks while the stream is full. On the Bluetooth pipe it is given up after 2 s
(`SendTimesOut`: `SO_SNDTIMEO` in `FdBytePipe`), with nothing or a part of the
packet written; its number is spent and the loop goes on. A packet cut short is
`torn`: the receiver takes what follows for the rest of it, drops any number of
packets until it finds a header again, and may ingest it under any number, or ends
the connection (`ReadTorn`, `ReadEnd`). That a resync may take payload bytes for a
header of its own is left out, as it is for `Framing`'s noise.

**`Framing`, `Wire`.** A writer of whole packets that may put noise between
them; a reader that is handed any prefix of what is there. A cell is a byte, but
for the two-byte fields, which are one cell each; a payload cell may equal the
magic byte.

**`Proxy`, `Loopback`.** Draws of the random generator are choices. The proxy ends
on a signal, or where a `send_to` fails (`SendFails`), with what it had sent so
far. A datagram
waits in the kernel, the bounded channel, the delay queue, and the receiver's
socket, which may overflow. The loopback tool's `verifier` is computed as in the
code, from the tracker and the filler, and its verdict compared with the
packets themselves.

## Runs

Eight runs hold, four refute a sentence of the source's own comments.

| run | question | result |
|---|---|---|
| `jitter_ring` | does the ring implement the bounded queue, and can its owners trust the fill? | holds |
| `playout` | does playout keep going, and latency come back? | holds |
| `engine` | does the engine keep its contract, does anything of a run outlive it, is every dead run reaped, does the command line print the right line? | holds |
| `stream_accept` | is the newest connection the one served, and does stopping end with final counters? | holds |
| `udp` | one phone at a time, no lock-out, exact losses? | holds |
| `session` | is recorded audio kept whole and counted, and do both ends end? | holds |
| `tools` | is framing exact, the proxy punctual, the verdict sound? | holds |
| `desktop` | do console, engine and file agree once nothing is under way, is LIVE true, does a quit exit? | holds |
| `push_panic` | does `push` return for every block? | refuted |
| `leaked_output` | is a Start that fails to bind cleaned up? | refuted |
| `cli_hang` | does the command line's wait end with its run? | refuted |
| `phone_poll` | does the phone's poll resume inside a packet? | refuted |

### What the refuting runs show

- `push_panic`: `push` shadows `n` with what fits and then copies
  `&samples[first..]` into a slice of `n - first` cells. A block that fits in
  part only *and* wraps panics the network task.
- `leaked_output`: the output threads are spawned before the socket is bound,
  and the `?` of the bind leaves them running without an owner.
- `cli_hang`: the LISTEN thread is given the run's own quit flag, which its
  stream error callback sets. Its error is only logged, so the run ends with
  `last_error` empty, and `main` waits for an engine that is not running *and*
  an error.
- `phone_poll`: a header that was read is dropped when the payload has not
  arrived; only the partial read of the current piece is retained.

### Documented, and not kept, without a run of its own

Each of these is a behaviour the models contain; the named ones are stated in
their module, and TLC refutes them there.

- `JitterFill.FillWithinCapacity` from the status thread: `available()` loads
  `head`, then `tail`; a push and a pop in between make the subtraction wrap.
  The two owners of the indices are not exposed (`OwnersSeeTrueFill`).
- `Playout.DryQuantaAreConsecutive`: a quantum that is filled in part neither
  counts nor clears the dry count, so separated dry quanta add up.
- A LISTEN failure stops the run (`openay-server/src/lib.rs:1046`), where the
  comment at 1037-1038 says "stops the MONITOR only, never the run". This is
  what `cli_hang` meets.
- `StreamAccept.SendersDoNotInterleave` (the comment at `lib.rs:1709-1710`):
  `abort()` is not awaited; a task being polled on another worker ingests what
  it has buffered after its successor started.
- `UdpLoop.TakeoverLosesNothing`: the fresh tracker expects 0, and a phone that
  roamed is not at 0.
- `Receiver.FailedStartShowsNoLine`: the doc of `take_stats_line`
  (`lib.rs:631-634`) says that the line is "cleared at the beginning of every
  `Start`, so a failed start never surfaces a stale line from an earlier run", and
  that of `start_pipeline` (962-967) repeats it. A Start that `validated()` or the
  build refuses returns at 969-975, before the two clears at 976-977: the line of
  the previous run is still there to take, and its error stands beside it. TLC
  refutes the property with two Starts and a Stop in between. `EngineContract`
  lets a refused Start keep the line, as the code does, so `ImplementsContract`
  does not catch this; it does catch a line that survives a Start which gets past
  its checks.
- An unconditional `LossOnlyAtReconnect` is false over Bluetooth: a send given up
  after 2 s has spent its number, so the receiver counts losses on a live
  connection, and may end it over the torn packet. The comment at the timeout
  (`fd_transport.cpp:32-34`) wants "a reportable send error", which it is; the
  property therefore speaks of connections on which no send timed out.
- `Gui.ConsoleShowsWhatRuns`: a Save decides by the last poll whether to restart
  (`openay-gui/src/app.rs:562`), so one that overtakes a Start still in flight
  leaves the old configuration running under the new one shown.
  `CalmConsoleAgrees` says what does hold: a user who waits until nothing is
  under way never sees this.

Seen while modelling, with no document that says otherwise:

- `openay-transport/src/tcp.rs:57-60`: a bad header is dropped as a whole, with
  a magic byte that may be in it, so up to one good packet more than necessary
  is lost after noise shorter than a header (`Skippable` in `Framing`).
- The bench counts a packet of another size as one that took no time.
- `openay-proxy/src/main.rs:77-103`: where SIGTERM cannot be registered, the
  proxy takes that for a signal and quits at once.
- TCP sends on the phone have no timeout; a Stop waits for the receiver to read
  on or to close. The Bluetooth pipe's have one, of 2 s.
- Packets that come between the spawn of the network task (`lib.rs:1167`) and the
  store of `running` (1201) are counted before any tick can read them, and are
  news to the first that does: LIVE may come on in a tick although no packet came
  since the tick just before began. `StreamingIsReal` therefore measures from the
  last tick before that read `running` as true began, or from the spawn.
- `bt_loop` looks at no quit while it registers its profile: a Stop in that
  moment takes as long as BlueZ does.
- `CaptureEngine` declares its source so that it is destroyed before the
  pipeline that uses it; it is safe because Stop comes first.

### Bounds

- `jitter_ring`: capacity 4, blocks up to 3, 8 samples offered: two laps of the
  ring, short, full and wrapped writes, and quanta that end anywhere. The word
  of the subtraction only has to be larger than any index. `push_panic` is the
  ring alone with 12 samples.
- `playout`: capacity equals the ceiling (the tightest ring that works), base 2,
  ceiling 6, rise 2, decay 1 per 2 ticks, stale after 3 ticks, 3 dry quanta,
  blocks and quanta of 1 and 2, ticks up to two late. Two rises reach the
  ceiling; a late tick spans a whole window. Histories are capped where the
  properties tell no larger values apart, so time is unbounded.
- `engine`: two Starts out of four requests (refused; IP with PipeWire and
  monitor; IP with cpal; a failing transport with cpal and monitor), in either
  order. What an old run can do to a new one needs two runs; a third would only
  repeat the second. The refuting runs need one.
- `stream_accept`: three connections of two devices, three packets: an evicted
  one, its successor and the successor's successor, with a reconnect of the
  same device.
- `udp`: numbers modulo 4, so five datagrams wrap; one foreign datagram, two in
  flight, one copy. Quiet after 2 ticks, ping after 1.
- `session`: a ring of 4 bytes and frames of 2, numbers modulo 4, a stream that
  holds one packet, one reply, polls of two packets. A behaviour draws one of
  five budgets, each rich in one dimension: three callbacks of any size; every
  fault but one (a failed Start, a broken link, the end of the run); two pings that
  may arrive in any pieces; sends that time out; a second connection. The dimensions
  meet in pairs where a property needs them.
- `tools`: 3 or 5 packets with numbers modulo 4, payloads of 0, 2 and 3 cells
  (the length field holds less than 3, so 3 overflows it), reads of up to 2
  cells, a scan of 4, four kinds of noise, a channel of 2, delays up to 2 of 3
  ticks, one stray datagram.
- `desktop`: two configurations, three presses of any kind, one packet, one
  failing file operation, one relaunch, a channel of 2 (a save's restart fills
  it). The tray menu is the Windows one, which offers whatever the other does.

Deadlock is checked in `jitter_ring`, `playout` and `push_panic`. In the others
the system may stop: the engine when every handle is dropped, the accept loop
when it has ended, a session or a tool when its work is done, the console when
it has exited for the last time, the UDP loop's model when its timer's step
changes nothing and every datagram is used up.

Each component has one type invariant. `JitterFill` and `Playout` check theirs
in their runs because their proofs rest on it; those of `Engine`,
`StreamAccept`, `UdpLoop`, `Session`, `Gui` and `Loopback` hold on the same
instances and are kept as the start of an inductive invariant.

### Fairness

- `JitterFill`: the audio server calls the callback every quantum, and a call
  once begun ends. Strong fairness for the two threads' ring steps, because they
  are disabled while the same thread is inside `available()`, each time briefly.
  The network owes no push.
- `Playout`: weak fairness of the callback and of the controller's tick. The
  phone owes nothing; `SilenceEnds` assumes, in its statement, that it keeps
  sending.
- `Engine`: weak fairness of the engine's own steps, its tick, the tokio tasks
  that poll `quit`, and (`ThreadFairness`) of the threads on devices. The last
  is an assumption about device calls, whose setup waits have deadlines:
  `reap_output_thread` joins after its three seconds, so a device call that
  never returns blocks the engine. `CliFairness` adds that `main` keeps polling;
  Ctrl-C is nobody's duty.
- `EngineContract`: no command keeps the engine for ever. `Receiver` shows that
  `Engine` provides this, and `Gui` assumes no more.
- `StreamAccept`: BlueZ answers the registration, the loop wakes every 200 ms,
  and each task's own steps are taken; data from a peer is not fair.
- `Gui`: the ticks come, the executor runs the tasks, the engine advances.
  Strong fairness of the exit message, because the GUI thread is in and out of
  its tick while the message waits its turn.
- `Session`: threads and tasks run, and a Stop once begun goes on. Nothing
  obliges the user to stop, the source to deliver, or the clock to tick.
- `UdpLoop`, `Loopback`, `Framing` and `Proxy` have safety properties only. That
  the proxy's sleep is never late is a safety property of its clock.

## Proofs

Every safety property of a passing run is also a theorem of the specification,
for all values of the constants that the named assumptions of the modules admit;
nothing else is assumed. (`VerdictIsSound` is proved for what `Plain` says of the
writer, see below.) Each argument is one inductive invariant. Before it was proved
TLC checked it as an invariant on the constants of the run.

| module | specification | invariant | distinct states TLC checked it in |
|---|---|---|---|
| `JitterBufferProofs` | `Spec`, `FillSpec` | `RingInv`, `FillInv` | 54 836 |
| `PlayoutProofs` | `Spec` | `PlayoutInv` | those of `playout` |
| `ReceiverProofs` | `ReceiverSpec` | `ReceiverInv` | 299 364 |
| `StreamAcceptProofs` | `Spec` | `AcceptInv` | 208 660 |
| `UdpLoopProofs` | `Spec` | `UdpInv` | 3 883 574 |
| `SessionProofs` | `Spec` | `SessionInv` | 413 312 |
| `GuiProofs` | `GuiSpec` | `GuiInv` | 426 203 |
| `LoopbackProofs` | `Spec` | `ProxyInv` | 3 480 062 |
| | | `FramingInv` (also with a length field that wraps, `LenWord = 4`) | 3 483 140 |
| | | `PathInv /\ ReceiptInv` | 3 480 062 |

**`JitterBufferProofs`**: for every `Capacity`, `MaxBlock` and `MaxOffered`.

| theorem | property |
|---|---|
| `TypeCorrect` | `TypeOK`: head and tail within a capacity, copies within their grants |
| `NoAliasing` | `WindowsDisjoint`: the cells being written and those being read are disjoint |
| `FifoOrder` | `DeliveredInOrder`: what is popped is what was pushed, in order |
| `NoSilentLoss` | `LossIsCounted`: nothing is lost while no overrun is counted |
| `RingIsAQueue` | `ImplementsFifo`: the ring implements `SampleFifo` |
| `FillIsTrueForOwners` | `OwnersSeeTrueFill`, for `FillSpec`: `available()` never misleads the two owners |

None of the properties is inductive by itself: order needs the cells between
`tail` and `head` to hold what was published (`Waiting`), which a push keeps only
because what it copies lies past `head` (`Copied`) and inside the free space it
saw (`Grants`), and because two indices less than a capacity apart have different
slots (`SlotsDiffer`, from division with remainder). A pop in progress has read a
prefix of it (`Heard`). The free space seen by `push` may be stale, but a pop
only makes it larger; the same holds for what `pop` sees. The simulation goes
step by step: `PushPublish` and `PushFull` are
the queue's put, `PopPublish` is its take, every other step is a stutter. For
`available()` the invariant adds what a thread inside it has loaded
(`SeenHead`); `FillSpec` implements `Spec`, so `RingInv` is inherited.

**`PlayoutProofs`**: for every ring, depth band, step, window, block and quantum
sizes, and lateness of ticks.

| theorem | property |
|---|---|
| `TypeCorrect` | `TypeOK`: target between base and ceiling, dry count below its limit |
| `DecayEarned` | `DecayIsEarned`: no decay that clean, flowing time did not pay for |
| `ConcealmentEnds` | `DryIsNotConcealedLong` |
| `EpisodesAreHeard` | `EpisodeIsHeard`, an action property |
| `TalkerIsNotStale` | `StaleOnlyWhenQuiet`, an action property |

`PlayoutInv` has a part for each: the dry run is covered by
`dry_quanta` (`DryInv`, which needs that an empty ring cannot open the latch:
the base depth is positive); an open episode has its base depth heard or still
in the ring (`SoundInv`); the controller's view of the phone is no older than
the last packet unless an unseen one is waiting in the counter (`QuietInv`); and
the window's age is backed by credit (`CreditInv`). The last is the one that
takes work: a late tick of `d` ticks earns `(age + d) div Window` steps and
leaves the remainder, whose backing is either what is left of the credit or,
when the credit was at its cap, the time of this tick alone (`DecayIsBacked`).

**`ReceiverProofs`**: for every number of runs and set of configurations, with
any client or with the command line.

| theorem | property |
|---|---|
| `TypeCorrect` | `TypeOK`: what is published is the pipeline held, or nothing |
| `RunsEndWhole` | `StaleRunsAreGone` |
| `DepthIsOwn` | `DepthIsOfThisRun` |
| `NoUnexplainedEnd` | `SelfQuitIsExplained` |
| `CliPrintsItsRun` | `StatsLineIsPrinted` |
| `KeepsContract` | the safety part of `ImplementsContract` |

`EngineInv` is about the engine alone: what it holds at each program counter
(`Lifecycle`), that a run not begun has nothing (`Untouched`), that each await of
`stop_pipeline` leaves one arm of the run behind it (`Unwound`), whose controller
lives (`Controlled`), and that whoever told the current run to quit left a trace,
recorded or still in a broken thread (`Explained`). `CliInv` adds what the command
line has sent and, once it saw a run, what is left of that run until its line is
printed. `KeepsContract` shows the initial states and every step to be the
contract's, or none; the contract's fairness is TLC's.

**`StreamAcceptProofs`**: for any number of connections, devices and packets.

| theorem | property |
|---|---|
| `TypeCorrect` | `TypeOK` |
| `NewestWins` | `OldConnectionsAreEvicted` |
| `SlotIsTrue` | `ShownDeviceIsConnected` |
| `StatsAreFinal` | `CountersAreFinal`, an action property |

`busy`, `active`, the abort marks and the slot are written by the loop and by
tasks that end, under no common lock. `AcceptInv` says for each step of the loop
whose handle it holds (`HeldHandle`), who has been told to go (`ToldToGo`) and
what the slot may show (`Shown`).

**`UdpLoopProofs`**: for every even word, both timeouts and
any number of datagrams.

| theorem | property |
|---|---|
| `TypeCorrect` | `TypeOK` |
| `LossCount` | `LossIsExact` |
| `NoEcho` | `NoImmediateEcho` |
| `OnePhone` | `OnePhoneAtATime`, an action property |

First the arithmetic of `SeqTracker`: the wrapped distance of two numbers less
than half a word apart is their difference, whatever wraps lie between. Then
`UdpInv`: the tracker stands behind the last accepted packet (`Tracked`), copies
of that packet in flight come from the peer (`Pinned`), and what was counted has
left the wire (`Accounted`).

**`SessionProofs`**: for every ring of at least two frames, window, reply queue
and word.

| theorem | property |
|---|---|
| `TypeCorrect` | `TypeOK` |
| `RingHoldsWholeBlocks` | `RingIsAQueue` |
| `StopLosesNothing` | `DrainedBeforeBye` |
| `NoFalseLoss` | `LossOnlyAtReconnect`, an action property |

The phone's ring has an invariant like the receiver's (`CaptureInv`). That
nothing is left behind needs the order of Stop (`Stopping`): no callback once the
source is stopped, and no leaving the drain with a whole frame in the ring. No
false loss needs that the numbers on a stream follow each other and the next one
follows the last (`Consecutive`), which holds of a connection on which no send
timed out, and that no packet on such a connection is torn (`Untorn`). The type of the partial packet the phone keeps
needs that of a message whose first cell is unread all cells are there
(`MessagesWhole`): a half-read message is never taken for the next one.

**`GuiProofs`**: for any settings, configurations and channel capacity.

| theorem | property |
|---|---|
| `TypeCorrect` | `GuiTypeOK` |
| `ConsoleAgrees` | `CalmConsoleAgrees` |
| `LiveIsReal` | `StreamingIsReal`, an action property |

The engine in it is any that keeps `EngineContract`, which `KeepsContract` proves
of the one in `Engine`. `OnePress` carries the argument: a user who pressed only
when nothing was under way has caused one of six activities (settled, saving,
restarting, a start, a stop or a quit on its way), each with what the tasks, the
channel, the engine and the files may be in its midst. `LiveIsReal` needs
that all a run has counted is already known to the console, or news of this very
tick, unless a packet came lately (`Counted`).

**`LoopbackProofs`**: the interop tool, for every count and size, every delay
bound and channel capacity of the proxy, every scan limit, read size and noise of
the framing, and every width of the sequence number and the length field.

| theorem | property |
|---|---|
| `ReleasedInOrder` | `DelayedLeaveInOrder` |
| `SleepIsInTime` | `NothingIsOverdue`, an action property |
| `FramingIsExact` | `FramesAreExact` |
| `VerdictIsHonest` | `VerdictIsSound`, while `Plain` |

The order over the whole life of the proxy needs that an entry's place of
insertion agrees with its datagram's number, and that both are below those of all
datagrams still to come (`FeedInOrder`, `QueueInOrder`); then what has left is
before all that is queued (`OutInOrder`). `InOrder`, the heap's order, is defined
by how many entries come before one; `InOrderIs` proves that each place is taken
once, by counting. That nothing is overdue needs the armed sleep to be the
head's deadline (`Armed`) and the head to be the earliest.

`FramingInv` remembers all that was written as one sequence `w`, together with the
places where its packets end and the packet that the noise follows (`Laid`). The
framer is through with the first `c` cells; what is pending and what is still in
the stream are the cells of `w` behind them (`Unread`), however the reads cut it.
`Stands` says where `c` may be: between two packets, before or behind the noise,
behind a header, or inside the noise, where `scanned` is the distance from the
header that was dropped. A header that is no packet's therefore lies wholly in the
noise, and a magic byte found by the scan is the first cell of a packet.

`Plain` is the hypothesis of `FramesAreExact` as a definition of its own: payloads
that fit the length field, and noise that the scan can skip. `VerdictIsHonest`
needs it as well, since noise that spells a whole packet is taken for one. The
verdict compares counters with a history it never sees. `PathInv` follows each
datagram over socket, channel and queue to the wire: it is the packet of its
number, and only `jitter30` copies it or lets another overtake it. `ArrivedInv`
gives each packet that arrived its place there (with UDP) or among the packets
of the framer (with TCP), places in increasing order. `CountInv` reads the counters
backwards: the tracker has counted no event exactly when the wrapped numbers 0, 1,
2, ... arrived (`CheckedIs`: every other number costs a `lost`, a `duplicate` or an
`out_of_order`). `NothingIsMissing` concludes that `count` such packets are all of
them: with jitter because no number wraps within `Legal`'s count, without it because
`count` different numbers below `count`, in increasing order, leave no choice.

Only model-checked, and why:

- Liveness: `AcceptedIsDelivered`, `SilentPeerIsReported`, `SilenceEnds`,
  `DepthReturnsToBase`, `DeadRunsAreReaped`, `GoneWhenTold`, `QuitExits`,
  `StopEnds`, `ServeEnds`, and the fairness in `ImplementsContract`. Progress
  under fairness and ENABLED are outside what the provers do.
- `VerdictIsSound` where the writer is not `Plain`: the run also has two noises
  that the scan cannot skip, `<<5>>` and `<<7, 4>>`, which spoil the packet behind
  them, so that the receiver fails as it should. For noise at large the property
  is not true: noise may spell a packet.

## Not modelled, and why

- Contents: samples, gain, level meter, codecs, JSON, log lines, message
  wording, widgets and drawing. The voice cleaner, Opus and Oboe are signal
  processing behind function calls; a failing encoder is an action of `Session`.
- The Android service (`MicCaptureService.kt`, `BluetoothLink.kt`,
  `MainActivity.kt`): its races are with the Android framework's lifecycle and
  coroutine scopes, which the repository does not contain, and modelling them
  would mean inventing their rules. The hazards are listed.
- On the phone: the restart after a device error, `CaptureEngine`'s lock and the
  numbers it reports, the UDP sink (whose sends do not block and whose loss
  `UdpLoop` has), and the role of a TCP server.
- BlueZ itself, behind `RfcommServer`: it answers or fails, and connections
  come.
- `reset()` of the ring (called by a unit test only), `usize` overflow of the
  indices (2^64 samples).
- The proxy's probabilities: `Decisions` is what may happen, not how often.

`SilenceEnds` needs a ring that can hold the ceiling of the target.
`--capacity-ms` is not validated against `MAX_PREBUFFER_MS`; with a smaller ring
the latch may never open again after the target has risen.

Comments that are out of date, noticed in passing: the doc of
`EngineStatus` (`openay-server/src/lib.rs:429-430`, which also has other step
sizes) and `depth.rs:31` speak of a 60 s decay window, the default is 30 s; the doc of
`ingest_packet` (`ingest.rs:160`) says a block that does not fit is dropped
whole, while `push` keeps what fits.

## Plan

Modelled: ring, playout, engine with its contract and both clients, accept loop,
tracker, UDP loop, stream session with the phone's pipeline, framing, tools.
Proved: the safety properties of all of them. What proofs could add next:

1. Of the liveness properties, the part that is safety: that a Stop, a quit or a
   teardown, once begun, only goes forward, as action theorems over the stages
   that `SessionInv`, `GuiInv` and `AcceptInv` name. Fairness stays with TLC.
2. `LossIsExact` beyond networks that only lose: by how much the tracker may
   over-count for a given number of late packets.

## Running

    tlc -config JitterFill.cfg JitterFill
    tlc -config MCReceiver.cfg MCReceiver
    tlapm JitterBufferProofs.tla

The other proof modules are checked in the same way; `SessionProofs`,
`GuiProofs` and `LoopbackProofs` take a few minutes each.

| run | module | configuration |
|---|---|---|
| `jitter_ring` | `JitterFill` | `JitterFill.cfg` |
| `playout` | `Playout` | `Playout.cfg` |
| `engine` | `MCReceiver` | `MCReceiver.cfg` |
| `stream_accept` | `StreamAccept` | `StreamAccept.cfg` |
| `udp` | `UdpLoop` | `UdpLoop.cfg` |
| `session` | `MCSession` | `MCSession.cfg` |
| `tools` | `MCLoopback` | `MCLoopback.cfg` |
| `desktop` | `Gui` | `Gui.cfg` |
| `push_panic` | `JitterBuffer` | `JitterPanic.cfg` |
| `leaked_output` | `MCReceiver` | `EngineLeak.cfg` |
| `cli_hang` | `MCReceiver` | `ReceiverHang.cfg` |
| `phone_poll` | `MCSession` | `PhonePoll.cfg` |
