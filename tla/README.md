# Verification of cAER

cAER is a framework for event-based neuromorphic sensors: a mainloop executes a
graph of modules, input modules read event packets from devices, files and the
network, output modules write them, and a configuration server lets clients change
everything while it runs. This directory holds TLA+ modules about it, TLC
configurations that check them on small instances, and TLAPS proofs. Paths below are
relative to `src/`. `PROJECT.json` maps every definition to the lines it models, and
lists the runs, the mutants that show each property to be sensitive to the code, the
hazards and the theorems.

To run a check: `tlc -config MCMainloop.cfg MCMainloop`; to check a proof:
`tlapm MainloopProofs.tla`.

## 1. The system

### Components and their state

| component | source | state | operations |
|---|---|---|---|
| Mainloop | `base/mainloop.cpp` | flags `systemRunning`, `running`; `dataAvailable`; modules, streams, `globalExecution` | start, build the graph, pass over the modules, stop, destroy |
| Module life cycle | `base/module.cpp` | `moduleStatus`, `running`, `configUpdate`, `doReset`, listeners | initialise, state machine, destroy |
| Module graph | `base/mainloop.cpp:354-1430` | active streams, dependency trees, execution order | check definitions, build and merge trees, order |
| Input pipeline | `modules/misc/in/*` | two ring-buffers, reader state, two counters, buffers | read, parse, assemble, consume, exit |
| Input assembler | `modules/misc/in/input_common.c:1272-1642` | merged packets, limits, clock | merge, slice, commit, reset |
| AEDAT reader | `modules/misc/in/input_common.c:55-1190` | data buffer, header, partial packet | parse header and packets across buffers, decompress |
| Output pipeline | `modules/misc/out/output_common.c`, `out/file.c` | two ring-buffers, source ID, failure flag | copy, order, compress, write, exit |
| Network output | `output_common.c`, `ext/libuv.h`, `out/net_*.c`, `out/unix_*.c` | libuv handles, clients, reference-counted buffers | connect, write to all, shut down |
| Configuration tree | `ext/sshs/*` | nodes, attributes, listeners, locks | create, put, get, listen, remove, transaction |
| Configuration server | `base/config_server.cpp`, `utils/caerctl` | one client connection | get, put, describe, add and remove modules |
| Configuration file | `base/config.cpp` | XML file | load at start, write back at exit |
| Devices | `modules/ini/davis_common.c`, `dvs128.c`, `edvs.c` | device handle, settings | open, configure, deliver, shut down, open again |
| Spike generator | `modules/ini/gen_spikes.c`, `dynapse_common.c` | commands and stimulation parameters, the selected chip | command, stimulate, stop |
| Visualizer | `modules/visualizer/visualizer.cpp` | rendering thread, ring-buffer, window | update, draw, exit |
| Processors | the other `modules/*` | settings in use, filter memory | read settings, run on a container, reset |

### How they interact

* The mainloop thread calls each module's init, run, config, reset and exit through
  `caerModuleSM`, in the order of the module graph.
* An input module owns a Reader and an Assembler thread; packets go from one to the
  other, and containers on to the mainloop, over single-producer single-consumer
  ring-buffers whose put fails when full and whose get fails when empty. The global
  `dataAvailable` tells the mainloop that a pass is worth while.
* An output module owns a Compressor and an Output thread, again behind ring-buffers; a
  network output's Output thread is a libuv loop. A visualizer owns a rendering thread.
* A device module is called back by libcaer's thread, which announces data and the loss
  of the device; the Dynap-SE module has a stimulation thread that polls flags.
* The configuration server's thread carries out client requests. A put stores the value
  and calls the attribute's listeners under the node's lock: listeners write atomics
  that other threads load. A module's own threads use the same way to stop their module.
* The signal handler stores FALSE to both running flags.

### What is hard

Concurrency with atomics and without locks (flags, counters, ring-buffers); shutdown
that must get through blocked producers, joins and retries; listeners that point to
module data; ordering and loss of packets over several stages; timestamps that reset
and wrap; a configuration that changes at every moment. `PROJECT.json` has the full list
of hazards, each with its line and the properties that cover it.

### What makes each component correct

* Mainloop: a stop or a signal ends it, whatever it is doing; modules are stopped before
  their data is freed; listeners and nodes it uses are alive.
* Input: packets arrive in order, at most once, and with `keepPackets` all of them; the
  counters neither hide data nor outlive it; end of input stops the module; exit returns.
* Assembler: slices keep events, their order, the time slice and the size limit, and the
  commit loop ends.
* Output: time order per epoch, resets between epochs, no loss with `keepPackets`; failed
  writers stop the module; run and exit return.
* Module graph: every active module once, after all modules it takes data from; a packet
  is copied whenever two modules would otherwise write to it.
* Network output: a buffer lives as long as the writes that use it; a slow client harms
  others only where the code says so; the loop ends once it is told to.
* Configuration: what was put is kept, across restarts of modules and of the program;
  requests do not keep the program from ending.
* Devices, processors, visualizer: a setting that is put gets to where it is used,
  whenever it is put; nothing is sent to a device that is closed; commands find their
  parameters; nothing of one timeline is used in the next.

## 2. What is modelled

### Mainloop

`Mainloop.tla` is the thread of `caerMainloopRun` and `caerMainloopRunner`, from the
installation of the handler to the return. `pc` is the place in the code; one action per
stretch of code between two places where another actor can interfere. A put to an
attribute and its listeners are one step, as the node's lock is held. The other actors
are the signal handler (two stores, two steps), clients (put of `/caer/running`,
`/running` and a module's `running`; ADD_MODULE; REMOVE_MODULE), the modules' own threads,
which publish data and stop their module, and `autoRestart`. The order of
`globalExecution` is left open: `todo` holds the modules a phase has not handled yet. A
start that fails forgets its modules (`AbandonRun`, the code's `cleanupGlobals`): their
data stays allocated (`leaked`) and their listeners registered (`orphans`) until somebody
removes the node. A use of a removed node leads to `pc = "undefined"`, from which nothing
follows.

### Input pipeline

`InputPipeline.tla` has the Reader, the Assembler and the mainloop as three program
counters. Packets are numbers in the order of the source, so order, loss and repetition
are visible; a container is a sequence of packets. Puts, gets and each atomic operation
are steps of their own: the put of a container, the two increments after it, the take and
the two decrements. An Init that cannot create the Reader frees the rings, stops the
Assembler and joins it, in this order; an Assembler that takes from a freed ring leads to
`undefined`. `PacketStream.tla` is the abstract specification: a stream of which
the oldest packets are delivered, and from which packets are dropped only while loss is
allowed. `ImplementsPacketStream` is the refinement, with `Inside` (everything between
source and mainloop, from both rings and both threads) as the abstract queue.

### Input assembler

`InputAssembler.tla` opens up the step InputPipeline leaves abstract: which events a
container takes. An event is its 64 bit timestamp, a packet a sequence of them in one
overflow epoch. Actions follow `inputAssemblerThread`: a packet or a reset is accepted,
what is held is flushed at a reset or overflow, the packet is merged, and
`commitPacketContainer` is repeated (its `goto redo`) until neither limit is reached.
`timeSlice` and `sizeSlice` are atomics clients change: every load yields any value.

### AEDAT reader

`PacketCodec.tla` is the pure part: what `compressEventPacket` makes of a packet in its own
memory, what `decompressEventPacket` makes of that, and the conversion of AEDAT 3.0
frames. Memory is a sequence of cells (a data or timestamp word of an event, a row of
pixels, a cell of a PNG block); every move of the code is a move of cells, so a move that
overwrites what is still needed shows. libpng is external: a block has any size, or fails.
`AedatReader.tla` is the parser around it. Its stream is made by `Compress`, its buffers
have any of the configured sizes at every read, and each call of `aedat3GetPacket` is one
action, named for how the call ends (`SkipBuffer`, `SplitHeader`, `SkipPacket`,
`MoreData`, `LastData`). What comes out is compared with what went into `Compress`;
`PacketsAreRestored` is the same comparison without the parser.

### Output pipeline

`OutputPipeline.tla` has the mainloop (`caerOutputCommonRun`, `Reset`, `Exit`), the
Compressor and the Output thread. A packet is its container, its index, its first
timestamp and, as history, the number of resets before it. A container in the ring is a
set; ordering and sending it amounts to taking its least packet again and again. History:
`copied` and `kept`, and `unput`, the packets the Compressor and what feeds it still had
when the Output thread ended.

### Network output

`NetworkOutput.tla` is the Output thread of a network output. libuv runs one callback
after another, so a callback is a step; only the callback that shuts down first drains
the ring-buffer packet by packet. A handle is `none`, `connecting`, `open` or `closing`,
the writes that have not ended are its `queue`, and `refs` are the reference counts of the
packets' buffers. The network may end a write at any time, fail it, or take no more.
`missed` and `fullSlots` are history: who was not written to, and whose queue was full at
the packet at hand. A handle closed twice leads to `aborted`, handles freed without a loop
to `undefined`.

### Module graph

`ModuleGraph.tla` is what `caerMainloopRunner` does with the definitions: checks of what
libraries declare, active streams and their users, a dependency tree per stream, one tree
merged from them, execution by levels, slots, and then one pass with packets. Trees are
relations (`tree` gives the link above each link), so that the moves and re-links of the
code are updates of a function. Slots are given out module by module, in the order of
execution (`ConnectModule`, `nextFreeSlot`). The code's hash maps have no
order: where the result depends on it, the model takes any. Each packet carries the set of
modules that have modified it (`writers`): it is what `DataAsDeclared` compares with the
declared inputs.

### Configuration tree, server and file

`ConfigTree.tla` follows several program runs: the file is loaded, attributes are loose
and not exported until the mainloop or a module creates them again, requests change them,
exit writes the exported ones back, a kill may come in between. A call into sshs is one
step, as it holds the node's lock. Requests of several calls (ADD_MODULE, GET_ATTRIBUTES,
REMOVE_MODULE, the update of the modules' information) are several steps, and the locks
held over them are variables that name their owner. `last`, `configured` and `promised`
are history: what was put last, which modules got to create their setting, and what the
file therefore has to hold.

### Devices

`Device.tla` is one camera module of three drivers. A setting is its node and its name;
each node has one setting for each way its listener treats settings, which includes those
it converts, merges or does not know. Clients touch a few of them ("watched"), chosen in
the initial state: settings are independent but for those the code relates. Init sends
settings one by one and then adds one listener after another; libcaer's thread delivers,
adjusts the exposure (a nested put through the listener), and reports a device that was
pulled, upon which the module stops and, with autoRestart, is tried again in every pass.
History: `late` (puts between a setting's send and its listener), `drifted`, `overruled`.

### Spike generator

`SpikeGenerator.tla` has the mainloop, the listener and the SpikeGenThread with nothing
but single atomic stores between them, each a step. Init reads and stores one attribute
after another (`InitOrder`), the chip only when it has started the thread. `board` is the
chip the device has selected and what it is sent; selecting and sending are two transfers.

### Processors

`Processor.tla` is a source and one filter behind it, in the order of the mainloop's pass.
A table holds, for eleven filters, which settings are copied when, which are commands and
with which parameters (some of them only while another setting is on), whether Init waits
for `sourceInfo/`, what is remembered and whether Reset clears it. The mainloop's steps
are those of `caerModuleSM`: the load of `configUpdate`, each read, Run, Reset; the
listener only raises the flag. The memory is `empty`, of the `current` timeline, of an
`old` one, or of a `foreign` source. History:
`missed` (puts during Init), `since` (a put since the last read).

### Visualizer

`Visualizer.tla` has the mainloop and the rendering thread, whose order of places is a
sequence each, the flags between them, the ring-buffer, and a window that its user moves
and its window manager resizes. Both threads read settings one by one
(`updateDisplaySize`, `updateDisplayLocation`). History: `missed` (puts while Init runs),
`moved` (by the user), `lastPlace` and `touched` (across a restart), and `lost`, the
containers that Run drops at a full ring-buffer or Exit frees undrawn.

## 3. The runs

| run | question | bounds |
|---|---|---|
| `Mainloop` | listeners live as long as their data, which starts that succeed free and starts that fail keep; shutdown stops every module and ends; a module told to stop stops | one INPUT module with autoRestart, every outside event at any moment, one skipped pass |
| `InputPipeline` | counters, what the end of the input delivers, refinement of `PacketStream`; exit and end of input | 3 packets, an Init that fails half-way, ring-buffers of 1, all client choices |
| `InputAssembler` | slicing keeps events, order, slice and size; the commit loop ends in the first epoch | 2 kinds, packets of up to 3 events, 2 epochs of 4 instants, both limits 1 or 2 |
| `AedatReader` | what is read is what was written, and only a tail shorter than a header is lost | headers of up to 4 lines (5 for 3.X), packets of up to 6 events or 2 frames, up to 3 short packets of 2 sources, buffers of 8, 9, 11 cells with headers of 4 |
| `OutputPipeline` | time order, epochs, loss; failure stops the module | ring-buffers of 1, 3 containers of up to 2 packets, 2 timestamps |
| `NetworkOutput` | buffers live as long as their writes; whom a slow client harms; Exit ends, or is in one of the three ways not to that it names | server, client and UDP; 3 connections for 2 slots, 2 packets, ring-buffer and queues of 1 |
| `ModuleGraph` | modules get the packets they declared, with the changes they come after, and no others; what processors do reaches an output | an input, two processors, a writer, and a second input that the writer takes or a second writer: all their configurations over two streams of the input and one of a processor, in every order |
| `ConfigTree` | settings survive restarts; requests do not prevent the end | 2 modules, one that creates its setting early and one that does so in Init, 3 requests, 2 program runs |
| `Device` | settings are applied; exposure is coherent; the device comes back | each driver with one setting, or a group of a DAVIS that belongs together; 3 puts, pulled twice |
| `SpikeGenerator` | stop is prompt, biases get to their chip, exit ends | 2 chips, 2 commands, durations none or some, 2 puts, 2 starts |
| `Processor` | settings, commands and parameters, memory and resets; settings arrive | eleven filters with up to a few watched settings, 3 puts, 2 switches, the source starts twice |
| `Visualizer` | settings reach the window; the newest container that is not dropped is drawn; the window comes back where it was | pairs of settings that share a flag or do not, data with its rate; ring-buffer of 2, 3 containers, 2 puts, 2 actions on the window, 2 starts |

The bounds: ring-buffers of one element make full and empty the usual case, and every
retry, drop and drain happens; three packets are the least with which one can be lost,
overtaken or repeated between two that arrive. The mainloop handles modules of a phase one
by one without relating them, so one module shows what the phases do; the proofs cover any
number. Two kinds of packets are what it takes for slices to be out of order, and two
instants per slice, four per epoch, put events before, at and after every limit. Six
events make two runs long enough to be serialized, or one before and one after events that
are not; three buffer sizes that share no divisor end headers, data and skips at, before
and after the end of a buffer (the code's buffers are larger against its 28 byte headers,
which only makes splits rarer). Four modules are the least with which a stream is merged
into a tree that another stream has made and a node moves more than one level; the fifth
gives the writer a stream of another source, and graphs that run although an OUTPUT lost
its place in the order. Three
connections for two slots refuse one and reuse a slot. One put may fall before, in or
after any window; the second and third change it back or change what goes with it.
Counters (`sleepCount`, packets, containers, puts) are bounded by the constants named in
the modules.

### Where code and comments, or code and its purpose, disagree

All runs pass; where the code does not do what it seems meant to, the model does what the
code does, and the properties are stated so that they hold, with the exception named.
These were found with the modules, by stating the stronger property. In brackets the
lines of the code and of the statement it contradicts.

Mainloop (`base/`):

* "Module state has already been destroyed" (`module.cpp:177`): a client that sets a
  module's `running` between the shutdown's put of FALSE (`mainloop.cpp:2010`) and the
  last pass has its data freed while it runs.
* "Modules can only be deleted while the mainloop is not running"
  (`config_server.cpp:826-828`): the attribute `/running` is FALSE while passes still go
  on; the model's `undefined`.
* "Simply set all the running flags to false" (`mainloop.cpp:2208`): a signal between the
  installation of the handler (264) and the stores of TRUE (302, 310) is overwritten. A
  client that puts `running` TRUE after a shutdown keeps the mainloop alive.
* "TODO: better cleanup on failure here" (1958, 1974): a start that fails while it
  initialises the modules forgets those that are initialised already, with their threads;
  data and listeners stay, and the next start adds its own to the same nodes
  (`ListenersPointToLiveData` names it).
* A client's put of a module's `running` between the module's own put and its
  AddListener (`module.cpp:162-166`) is lost, and so is one of `/running`
  (`mainloop.cpp:313-315`); a start that then fails is repeated for ever.

Module graph (`base/mainloop.cpp`):

* "we must move this node down by N levels ... dependency then holds again" (1042): a node
  that moves by more than one level is linked to itself (1079, 1082) and, depending on the
  order of a hash map, is not in the execution order at all. A graph can run with an OUTPUT
  that was lost so: `ProcessorsReachOutputs` states that processors reach an output for
  the graphs in which every module has its place, and for all that none has two.
* A false "dependency cycle" is reported for graphs that have none (1014-1030), while a
  cycle of "after" within one stream is not found (839-845) and ends in the exception that
  "should never happen".

Input (`modules/misc/in/input_common.c`):

* "we must have already seen that one too" (1691): a last put and the end of the file may
  fall between the failed get and this check; these packets are lost, as
  `EndOfInputDelivers` says.
* "Stop assembler thread (started just above) and wait on it" (1932), when the Reader cannot
  be created: both ring-buffers are freed before (1928), while the Assembler uses them.
  `ExitTerminates` names it (`undefined`).
* "no loss of data" (`input_common.h:134`): what the Assembler holds when the file ends is
  freed, not committed (1806).
* "exhaust all possible ... commits" (1532): after 2^31 us, or with any first packet of a
  later epoch, a reached size limit is never taken, as INT32_MAX stands for none (1522,
  1913): the loop does not end. `CommitEndsInFirstEpoch` is the part that holds.
* "so we need to reassemble!" (645): a header split before a last buffer shorter than a
  header overwrites itself (668); the last packet is lost.
* "AEDAT 3.0 and 3.1 are supported" (372): the conversion of 3.0 frames asks for
  `dvsSizeY` (831), which no input module creates: sshs calls `exit()`.
* `aedat30ChangeOrigin` does not "invert position of entire rows" (850) but copies half of
  each row of the lower half over its opposite, and gives `memcpy` a number of pixels.
  `decompressFramePNG` starts its loop at `eventNumber` (1029), one past the last frame.
* A silent network peer blocks the Reader, and Exit in the join (1223).

Output (`modules/misc/out/output_common.c`):

* The Compressor would "forever block" only if the Output thread failed (454): one that
  ended normally blocks it as well (453), and the mainloop in the join.
* "Ensure all packets are kept" (1398): what the Compressor puts after the Output thread's
  last look stays in a ring-buffer that nobody reads, which "should never happen" (1526),
  and Exit frees it. `NothingLost` says that these packets and no others are lost.
* A module stopped before the Output thread has looked at `sourceID` discards what was
  copied (864); a network output then never runs its loop, and handles that are part of
  another structure are freed (869-876, `ext/libuv.h:299`).
* A client whose queue is full ends the loop over the clients (1143-1146): those in later
  slots miss the packet, and the buffer keeps the references of all that were skipped.
* A write that fails while the loop shuts down, or a UDP close with sends pending, closes
  a handle twice (983, 1006, 1028): with the loop that never runs and the Compressor nobody
  takes from, these are the ways in which Exit does not end; `ExitEnds` names all three
  and holds of every other execution. A peer that never reads makes Exit wait.

Configuration (`ext/sshs/`, `base/`):

* The update of the modules' information takes the lock of `/caer/modules/` and then
  `modulePathsMutex`, when a client asks for it (`sshs_node.c:800-806`, `module.cpp:340`),
  and in the other order when the mainloop starts (`module.cpp:349, 393`): each then waits
  for the other, and no signal ends the program (`OnlyUpdatesHang` names it).
* "Ensure configuration is written back at shutdown" (`config.cpp:105`): attributes loaded
  from the file are not exported before a module creates them, so an early exit writes a
  file without them; a kill between opening and writing leaves an empty one (159).
* "Safe because attributes are never deleted" (`sshs_node.c:1541`): they are, by Exit and
  REMOVE_MODULE, so that GET_ATTRIBUTES uses freed keys; a GET of an attribute of
  `sourceInfo/` that races with Exit ends the program. `PutAttribute` reads the flags of an
  attribute after it has released the lock (810).
* ADD_MODULE while `/caer/modules/` is rebuilt asks a cleared node for "type" and ends the
  program; a start that overtakes it sees a module without `moduleInput` and fails.

Devices (`modules/ini/`):

* Settings the listeners never hear: the bias SSN of a DAVIS240 (`davis_common.c:1226`
  compares with "SSP" twice), `DetectRisingEdges2` (2490 has a typo). Settings read from
  the wrong member of the union: `TransferTime` (2204-2206), `SampleRateDivider`
  (2325-2327).
* Puts between Init's send and AddListener are lost, as is a client's Exposure between
  the listener's removal and `updateExposureValue`, and an adjustment between the two
  calls of 367-369. With autoRestart a client's stop is undone. TRUE put after the
  shutdown callback's FALSE (921) leaves a module running on a dead device.
* Dynap-SE: Exit closes the device before the stimulation thread ends
  (`dynapse_common.c:1237`); a listener is removed from another node than it was added to
  (1159); a DataStart that fails leaves thread and listeners behind; a stimulation without
  `repeat` never starts the first time, and one of duration 0 that repeats never ends
  (`gen_spikes.c:440`), against "Shut down stimulation thread and wait on it to finish."
  (156). `ExitTerminates` names these two as all that can keep Exit from its end: such a
  stimulation (`Spins`), and a thread that gets to use the closed device
  (`UsesStaleHandle`), after which anything may happen. A thread that could not be created
  is joined all the same (1248), which it leaves out as well.

Processors (`modules/`):

* Commands that return to TRUE between two looks are lost; commands that are TRUE at Init
  are never executed; puts between Init's reads and AddListener are lost.
* The source's state is cached and used after the source has stopped (`fpgaspikegen.c:115`
  and 136ff; `poissonspikegen.c:90`; `monitorneufilter.c:79`; `synapsereconfig.c:148,
  169`); maps keep the size of a source that came back with another (the background
  activity filter then writes out of bounds).
* "Wait for input to be ready. All inputs, once they are up and running, will have a valid
  sourceInfo node" (`backgroundactivityfilter.c:49`): the node appears before it is
  complete, and reads of what is not there yet (67) end the program; `meanratefilter`
  always does (107).
* Trackers and the image generator keep their memory over resets; a second source's reset
  in one pass overwrites the first's ID.

Visualizer (`modules/visualizer/visualizer.cpp`):

* A put between Init's reads and AddListener (208) is lost. A position a client puts
  shortly before a stop is overwritten by `saveDisplayLocation` (559); a window partly off
  the screen is not saved, as its range starts at 0 (120); a client that sets one
  coordinate moves the window back along the other.
* A rendering thread that fails (796-819) leaves a module that runs with a full
  ring-buffer. A container dropped at 288 is newer than those that wait, and what waits when
  the thread is stopped is freed undrawn (244): `NewestIsShown` speaks of all others.
* The statistics strings are read by the rendering thread while the mainloop writes them.
* `Neuron_Monitor` scales by the zoom factor where it should divide, when that is below 1
  (`visualizer_handlers.cpp:40-43`), and uses the state of a source that may have stopped.

### Fairness

Clients, signals, the end of a file and failures are never fair. `Mainloop`: weak fairness
of the mainloop thread, which runs or sleeps for a bounded time, and of the second store
of a handler that made the first. Pipelines: weak fairness of each thread as a whole,
that is, the operating system schedules it. `WF_vars(Reader)` assumes that reads return,
which a silent network peer can refute: Exit then does hang in the join. Writes are
assumed to return or fail. Puts that are retried are enabled only when there is room, so
weak fairness promises nothing about them by itself. The Assembler's thread is fair in
its own steps; the arrival of packets is not. `AedatReader`: weak fairness of the thread; a
file that is read has an end. `NetworkOutput`: the loop runs, and every write or close ends
some time (a peer that stops reading for good is excluded by this). `Device`: the mainloop,
listeners that have begun, and libcaer's notice of a lost device. `ConfigTree`: both
threads, each module's reaction to a stop. `Processor`, `SpikeGenerator`, `Visualizer`: the
threads of the module and the mainloop. "Lasting" conditions (`<>[]`) appear where
clients could undo every stop for ever.

## 4. What is proved

For all values of the constants (any modules, ring sizes, lengths), from the named
assumptions on the constants: `MainloopAssumption`, `InputPipelineAssumption` and so on;
`NoneAssumption` (`None` is no connection), `NamesAssumption` (the flags of the commands
are settings of their own), and `FiltersAssumption` about the table of filters, which TLC
evaluates in full. Types (`TypeCorrect`, `DeviceTypeCorrect`, `TreeTypeCorrect`,
`GraphTypesCorrect`) are proved of eleven modules. Three modules of proofs are about more
than one component (`MainloopProofs`: `Mainloop` and `ModuleGraph`; `InputProofs`:
`InputPipeline`, `Device` and `AedatReader`; `SettingsProofs`: `Processor` and
`ConfigTree`), which is why names in four of these say whose they are (`GraphSpec`,
`DeviceSpec`, `ParserSpec`, `ConfigSpec`); the components share no variable and no
constant:

* `MainloopProofs`: the invariant says which phases have which modules allocated,
  registered and left to do, and that the shutdown sequence splits the execution into
  stopped, overridden and unhandled modules; the listeners a failed start leaves
  behind are of data it has left as well. It is needed because `StopReachesModules`
  speaks of the last pass only, and is true because of what `stopping` established. From
  it: types, `ListenersPointToLiveData`, `StopReachesModules`.
* `MainloopProofs` proves `DataAsDeclared` and `ProcessorsReachOutputs` of `ModuleGraph`
  from `GraphInv`, for any libraries, configurations and orders of the hash maps. The first
  compares the packets of a pass with the declarations, and needs the path from one to the
  other: `InputsInv` (definitions are of streams that exist, no module takes its own),
  `OrderInv` (the order is one of modules that are defined, each once), `TableInv` (all
  data in the table of slots has a slot, and was made by a module that is connected),
  `OutSlotsInv` and `InSlotsInv` (what each connected module puts out or takes is where the
  table says; a copy goes where nothing was before), and `ShareInv`, the heart of it: two
  kinds of data share a slot only if one replaces the other (`Replaced`), that is, the
  first is not taken any more once the module that makes the second has run. `PassInv`
  then says that all data which is made and still taken is in its slot with the changes of
  its chain, and that later slots are empty. `Chain`, the modules that come before along
  "after", is the least set closed under that link, and `ChainStep` and `ChainEarlier` are
  all the proof uses of it. `ProcessorsReachOutputs` follows from `ProcessorsInv` (what
  `CheckProcessors` has checked of every processor still holds, so that each has a consumer
  later in the order, `ProcessorsHaveConsumers`): of the processors outside the set take
  the last, by a well-founded minimum; its consumer is then inside, and so is it.
  `HistoryInv` and `StageInv` complete the types. That new data gets the next slots, each
  its own, is shown by cardinality (`NewSlotsFollow`).
* `InputProofs`: of `InputPipeline`, `LifeInv` relates the threads' places to the
  mainloop's, `DataInv` states that each counter equals the containers in the ring plus
  what either side is in the middle of announcing or taking. From it: types,
  `CountersMatchData` (`AnnouncedDataIsSeen` and `NothingLeftBehind`),
  `ConsumedBeforeStop`, and `EndOfInputDelivers` with two more parts: while nothing may be
  dropped, what was delivered and what is inside are all that was read (`NoGapInv`, which
  needs the refinement's view of what is inside, below), and what the Reader puts after
  the Assembler's last look is newer than `lastPut` (`LookInv`).
* `InputProofs` also proves the refinement, `ImplementsStream`: every execution of
  the three threads is one of `PacketStream`, with the stream being what is on its way (the
  container that is run, those in the ring, the one being put together, the packets the
  Reader handed over and the one it holds). `StreamInv` says which of these are empty where:
  the Reader only holds a packet, and the Assembler a container, while it puts one; a
  stopped module has nothing on its way; and losses are ruled out only while `keepPackets`
  is set. `ReadBuffer` then is a read of the stream, a put that gives up and a container
  that is dropped or drained lose a part of what is inside, `ModuleRun` delivers its head,
  `ModuleInit` and `FreeState` start anew, `ModuleExit` and `SetKeepPackets` allow or forbid
  losses; every other step only moves packets between stages and leaves the stream alone.
  The concatenation of the ring is unique, which is proved with the least length at which
  two concatenations differ: a well-founded minimum stands for the induction over data
  that the provers cannot do.
* `InputProofs` proves the properties of `Device` from `DeviceInv`. `SettingsAreApplied`
  speaks of a module that runs, and is true because of what Init did before: `SentInv` says
  of the send phase that every setting that is not left to be sent has its value of the
  tree, or was put after it was sent (`late`); `AppliedInv` carries that over the phase in
  which listeners are added one by one, where a put is heard or late, to the running
  module. Both need `PlacesInv` (which listeners there are at which place of Init and Exit,
  and that the data thread, and with it automatic exposure, only runs between) and
  `ServerInv` (the server is in the listener of `aps/` only while there is one). What a
  listener makes of a put is a lemma, `ListenerSends`, about every setting of every driver:
  it sends values of the tree, but for settings in `Misheard`, and the one that was put.
  `CoherentInv` says of `ExposureIsCoherent` what has been read before it is put.
* `InputProofs` proves of `AedatReader` that reassembly works (`PacketsReadAreWritten`) and
  what it may lose (`OnlyAShortTailIsLost`), for any stream, buffers and size of a header,
  from the promise of the codec: `PacketsAreRestored` is the hypothesis of the theorems. It
  is a conjunct of `PacketsReadAreWritten` as well, so that TLC checks it in the run, and it
  has nothing to do with buffers. `ParserInv` knows four places of the reader: between two
  packets, with the rest of one still to be skipped (`Between`); in a header that is split
  (`Split`); in a packet's data, of which the memory has as much as was read (`Fills`); and
  behind a last packet whose header overwrote itself (`Lost`). `BufferInv` says that a
  buffer shorter than a header is the last, which is why nothing else can be lost, and
  `ListInv` that what is in the list is restored, in order, with nothing left out before
  it. `StreamIs` gives the cells of the stream by packet: the concatenation of the packets
  is characterised with a well-founded minimum.
* `InputAssemblerProofs`: `EventsAreKept` (the events handed to the mainloop and those
  still held are the ones taken from packets), `ContainersInTimeOrder` and
  `SlicesKeepLimits`. The slice's end is the least position past a limit, again a
  minimum. `EpochInv` and `OrderInv` say that packets which are held are of one epoch and
  sorted, and that the next limit is past all that was sent; `SliceInv` relates the place
  inside a slice to its limits. The types say besides that merged packets and containers
  are of a single epoch too (`WholeInv`).
* `OutputPipelineProofs`: every stage holds packets that come before those of the stages
  behind it (`OrderInv`), bounded by the newest packet copied (`BoundInv`), with
  containers of a single epoch (`UniformInv`) and conservation under `keepPackets`
  (`KeepInv`; once the Output thread has ended, of what is written and `unput`, as nobody
  takes anything out of its ring from then on). From it: types, `TimeOrder`, `NothingLost`.
  `ResetsSeparateEpochs` needs
  `SeparateInv`: as long as writing goes on, the reset of every past epoch is on its way
  or written.
* `NetworkOutputProofs`: a buffer has at least as many references as there are clients with
  it in their queue, and just as many as long as nobody was skipped (`ReferencesMatchWrites`):
  `ClientsInv` says that a client is in one slot, connected and counted, `HandlesInv` that a
  handle which is not in use has nothing to write and missed nothing, and `NumbersInv` that
  packets are taken in the order of their numbers, so that a new one is in no queue and none
  is in a queue twice; `ShuttingInv` says that clients only go with the loop. From it also
  types and `SlowClientsHarmLaterSlots` (a client that is slow only costs those behind it in
  the table).
* `SettingsProofs`: three arguments about one filter of `Processor`. `SettingsAreInUse`
  holds because a put while the filter listens raises the flag, and because Config lowers
  it before its first read; in Init, before it listens, `InitInv` says the same of what
  has been read. `CommandsUseTheirParameters` needs `SeenInv` (a command that has been
  read differs from the remembered one only until Config has dealt with it) and
  `ParametersInv` (once it counts, its parameters are copied, still to be copied, or put
  since). `EpochInv` ties memory of an old epoch to `doReset`, the source's container and
  the place of the pass. The table enters through `FiltersAssumption` only; another filter
  that satisfies it may be added. The types need which settings each place may read
  (`SetsType`).
* `SettingsProofs` proves `SettingsSurvive` of `ConfigTree` from `TreeInv`. The property
  looks at the moment after loading, but is decided in the run before: `LastInv` says that
  the history of puts is what the tree holds, `CreatedInv` that a setting a module created
  has a value and stays exported until the module is removed, and `FileInv` that a file
  which is not being written keeps its promise. `CreatedInv` depends on which nodes exist:
  `RequestInv` says that the node ADD_MODULE found missing is still missing when it makes
  it, and there until the request is done; `HandledInv` that every module the mainloop
  handles has a node, unless the program has run into undefined behaviour; `OffInv` that
  a program that does not run handles nothing. `TreeSteps` says, once for all of these,
  in which six ways a step can change the tree. The types need that there always is a free
  ID (`FreeIdExists`): no more IDs are in use than there are modules, by cardinality, and
  the least free one exists by well-foundedness.
* `SpikeGeneratorProofs`: `StopIsPrompt` from where the thread is after a late spike
  (`PromptInv`, with the order in which Init reads, `InitOrder`, for the types);
  `QuietBiasGetsToItsChip` from what Exit has left to store while a bias is
  on its way (`BiasInv`): nobody but Exit can put then, and Exit never enables. Types, from
  what a listener has left to store: it is never without stores, and a command that is
  looked at is one of those there are.
* `VisualizerProofs`: `NewestIsShown` holds as every container that was copied and not
  lost is rendered, held or still in the ring-buffer (`ShownByPlaces`), which `DataInv`
  keeps in order;
  `PositionIsKept` with what each thread has copied of the position (`PlacesInv`). The
  types add that what is in the ring-buffer, held or drawn has been numbered before
  (`RingType`), and that the order of places is never left (`AfterStays`).

Only model-checked:

* all liveness: `ShutdownCompletes`, `StoppedModuleStops`, `ExitTerminates`,
  `EndOfInputStops`, `CommitEndsInFirstEpoch`, `SettingsArrive`, `OnlyUpdatesHang`,
  `FailureStopsModule`, `DeviceComesBack`, `ExitEnds`, `WindowFollowsSettings`. TLAPS has
  no rule for what follows from fairness, which speaks of ENABLED;
* the promise of the codec, `PacketsAreRestored`: that `Decompress` undoes `Compress` for
  every packet is an induction over the packet's events, which are folded, and out of the
  provers' reach. TLC compares them for all packets of up to six events or two frames.

The type invariant of `AedatReader`, `ParserTypeOK`, is a definition for the reader; what
the proofs need of it is part of `ParserInv`. The proofs let clients set `running` at any
moment; the runs of the pipelines let them start a module again only once it stopped, for
otherwise a start right after a thread's own stop leaves a RUNNING module with dead
threads, and liveness fails with it.

## 5. What is not modelled

* Mainloop: exceptions thrown by a pass (the TODO at `mainloop.cpp:2001`), out-of-memory
  paths. Graph, life cycle and packets' way are modules of their own, not composed into
  one state machine.
* Input: `validOnly` leaving an
  empty packet, memory failures, sleeping for `PacketContainerDelay`.
* Reader: the sizes and the string in a source line, header lines that run past the first
  buffer (the code reads on in memory), lines that are no lines in the middle of a 3.0
  header, memory failures, the reader's stop (`InputPipeline` has it).
* Output: packets of other sources, the effect of compression on the network, failing
  calls of libuv other than writes, the opening of sockets.
* Graph: the parsing of `moduleInput` and `moduleOutput`.
* Configuration: the wire protocol, `caerctl`, XML, the command line; transactions and
  node listeners, which nothing uses; a put that overtakes a removal.
* Devices: settings that are treated like one in the model, the arithmetic of biases, what
  `sourceInfo/` says. Dynap-SE: ETF stimulation, single patterns of teaching and
  inhibition, default biases, its other listeners (they are like Device's).
* Processors: what they compute. `poissonspikegen`, `monitorneufilter`, `reservoir` and
  `statistics` are not in the table. Vision modules are wrappers of OpenCV and Caffe.
* Visualizer: what is drawn, statistics, event handlers, the build for Windows (where the
  rendering thread handles the events), a rendering thread that cannot be created.
* Vendored code (fonts, stb, tinydir, linenoise, uthash) is not modelled.

## 6. Plan

Done: mainloop, graph, input, assembler, reader, output, network output, configuration
tree, devices, spike generator, processors, visualizer. Next:

1. Composition: `caerModuleSM` of `Mainloop` with the pass of `ModuleGraph`.
2. The handlers of the visualizer and the rest of the Dynap-SE listeners.
