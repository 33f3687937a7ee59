--------------------------- MODULE InputPipeline ---------------------------
(***************************************************************************)
(* The threads behind an input module (modules/misc/in/input_common.c):    *)
(* the Reader, which reads and parses packets; the Assembler, which groups *)
(* them into containers; and the mainloop, which initialises the module,   *)
(* consumes one container per pass and tears everything down again. They   *)
(* share two ring-buffers, a flag, and two counters of available data.     *)
(*                                                                         *)
(* A packet is its number in the stream; a container is a sequence of      *)
(* packets. Which part of the accumulated packets a container takes, and   *)
(* what the Assembler discards as malformed, is InputAssembler's subject.  *)
(* The attribute "running" and the flag its listener stores are one        *)
(* variable, as the module is initialised and not destroyed here           *)
(* (Mainloop models both ends).                                            *)
(***************************************************************************)
EXTENDS Integers, Sequences, SequencesExt

CONSTANTS
  NumPackets,   \* packets one run of the source holds
  RingSize,     \* "ringBufferSize" of both ring-buffers (8 .. 1024)
  Environment   \* what clients may change: see ClientChoices

\* "start" happens at any time, "restart" only once the module has stopped.
ClientChoices == {"stop", "start", "restart", "pause", "keepPackets"}

ASSUME InputPipelineAssumption ==
  /\ NumPackets \in Nat
  /\ RingSize \in Nat \ {0}
  /\ Environment \subseteq ClientChoices

VARIABLES
  \* the Reader thread
  readerPc,             \* "none", "read", "put" or "exited"
  parsed,               \* packets read so far in this run
  buffered,             \* packets of the data buffer not put yet
  \* the Assembler thread
  assemblerPc,          \* see AssemblerPlaces
  accumulated,          \* state->packetContainer.eventPackets
  container,            \* the container it is about to put
  force,                \* whether that put retries for ever
  \* the mainloop thread
  mainPc,               \* see MainPlaces
  status,               \* moduleStatus
  \* shared
  running,              \* state->running
  readerState,          \* state->inputReaderThreadState
  packetRing,           \* state->transferRingPackets
  containerRing,        \* state->transferRingPacketContainers
  dataAvailableModule,  \* state->dataAvailableModule
  dataAvailable,        \* glMainloopData.dataAvailable
  flag,                 \* moduleData->running
  pause,                \* state->pause
  keepPackets,          \* state->keepPackets
  \* history
  delivered,            \* packets the mainloop took in this run
  kept,                 \* keepPackets was TRUE throughout this run
  lastPut               \* the last packet that had been put when the
                        \* Assembler found the ring-buffer empty

readerVars    == <<readerPc, parsed, buffered>>
assemblerVars == <<assemblerPc, accumulated, container, force>>
mainVars      == <<mainPc, status>>
counters      == <<dataAvailableModule, dataAvailable>>
clientVars    == <<flag, pause, keepPackets>>
historyVars   == <<kept, lastPut>>
vars == <<readerVars, assemblerVars, mainVars, running, readerState,
          packetRing, containerRing, counters, clientVars, delivered, historyVars>>

AssemblerPlaces ==
  {"none", "get", "checkReader", "commit", "put", "countModule",
   "notifyMainloop", "waitConsumed", "stopParent", "exited", "undefined"}
MainPlaces ==
  {"pass", "notifyMainloop", "countModule", "joinReader", "joinAssembler",
   "cleanUp", "ringsFreed", "joinAlone", "undefined"}
ReaderErrors == {"EOF_REACHED", "ERROR_READ", "ERROR_HEADER", "ERROR_DATA"}

\* A ring-buffer's Put fails while it is full, its Get while it is empty.
Full(ring) == Len(ring) >= RingSize

SequencesOK ==
  /\ buffered \in Seq(1 .. NumPackets)
  /\ accumulated \in Seq(1 .. NumPackets)
  /\ container \in Seq(1 .. NumPackets)
  /\ packetRing \in Seq(1 .. NumPackets) /\ Len(packetRing) <= RingSize
  /\ containerRing \in Seq(Seq(1 .. NumPackets))
  /\ Len(containerRing) <= RingSize
  /\ delivered \in Seq(1 .. NumPackets)

PlacesOK ==
  /\ readerPc \in {"none", "read", "put", "exited"}
  /\ assemblerPc \in AssemblerPlaces
  /\ mainPc \in MainPlaces /\ status \in {"STOPPED", "RUNNING"}
  /\ readerState \in {"READER_OK"} \cup ReaderErrors

NumbersOK ==
  /\ parsed \in 0 .. NumPackets /\ lastPut \in Int
  /\ dataAvailableModule \in Int /\ dataAvailable \in Int

FlagsOK ==
  /\ force \in BOOLEAN /\ running \in BOOLEAN /\ flag \in BOOLEAN
  /\ pause \in BOOLEAN /\ keepPackets \in BOOLEAN /\ kept \in BOOLEAN

TypeOK == SequencesOK /\ PlacesOK /\ NumbersOK /\ FlagsOK

Init ==
  /\ readerPc = "none" /\ parsed = 0 /\ buffered = <<>>
  /\ assemblerPc = "none" /\ accumulated = <<>> /\ container = <<>>
  /\ force = FALSE
  /\ mainPc = "pass" /\ status = "STOPPED" /\ running = FALSE
  /\ readerState = "READER_OK"
  /\ packetRing = <<>> /\ containerRing = <<>>
  /\ dataAvailableModule = 0 /\ dataAvailable = 0
  /\ flag = TRUE /\ pause = FALSE /\ keepPackets \in BOOLEAN
  /\ delivered = <<>> /\ kept = FALSE /\ lastPut = 0

-----------------------------------------------------------------------------
(* Reader: inputReaderThread and parseData.                                *)

\* A buffer with n complete packets.
ReadBuffer ==
  /\ readerPc = "read" /\ running
  /\ \E n \in 1 .. NumPackets - parsed :
       /\ buffered' = [i \in 1 .. n |-> parsed + i]
       /\ parsed' = parsed + n
  /\ readerPc' = "put"
  /\ UNCHANGED <<assemblerVars, mainVars, running, readerState, packetRing,
                 containerRing, counters, clientVars, delivered, historyVars>>

\* End of file, a read error, or a header that cannot be parsed.
ReadFails ==
  /\ readerPc = "read" /\ running
  /\ \E e \in ReaderErrors \ {"ERROR_DATA"} : readerState' = e
  /\ readerPc' = "exited"
  /\ UNCHANGED <<parsed, buffered, assemblerVars, mainVars, running,
                 packetRing, containerRing, counters, clientVars, delivered,
                 historyVars>>

ReaderStops ==
  /\ readerPc = "read" /\ ~running
  /\ readerPc' = "exited"
  /\ UNCHANGED <<parsed, buffered, assemblerVars, mainVars, running,
                 readerState, packetRing, containerRing, counters,
                 clientVars, delivered, historyVars>>

\* The put is retried while the ring-buffer is full ...
PutPacket ==
  /\ readerPc = "put" /\ buffered # <<>>
  /\ ~Full(packetRing)
  /\ packetRing' = Append(packetRing, Head(buffered))
  /\ buffered' = Tail(buffered)
  /\ UNCHANGED <<readerPc, parsed, assemblerVars, mainVars, running,
                 readerState, containerRing, counters, clientVars, delivered,
                 historyVars>>

\* ... unless the module has been told to stop: the rest is not sent.
PutPacketGivesUp ==
  /\ readerPc = "put" /\ buffered # <<>>
  /\ Full(packetRing) /\ ~running
  /\ buffered' = <<>>
  /\ readerPc' = "read"
  /\ UNCHANGED <<parsed, assemblerVars, mainVars, running, readerState,
                 packetRing, containerRing, counters, clientVars, delivered,
                 historyVars>>

\* The buffer is used up, or what follows in it cannot be parsed.
EndBuffer ==
  /\ readerPc = "put" /\ buffered = <<>>
  /\ \/ readerPc' = "read" /\ UNCHANGED readerState
     \/ readerPc' = "exited" /\ readerState' = "ERROR_DATA"
  /\ UNCHANGED <<parsed, buffered, assemblerVars, mainVars, running,
                 packetRing, containerRing, counters, clientVars, delivered,
                 historyVars>>

-----------------------------------------------------------------------------
(* Assembler: inputAssemblerThread. The loads of running and pause at the  *)
(* head of its loop are merged with the Get that follows them, which does  *)
(* not depend on either.                                                   *)

AssemblerStops ==
  /\ assemblerPc = "get" /\ ~running
  /\ assemblerPc' = "exited"
  /\ UNCHANGED <<readerVars, accumulated, container, force, mainVars,
                 running, readerState, packetRing, containerRing, counters,
                 clientVars, delivered, historyVars>>

GetPacket ==
  /\ assemblerPc = "get" /\ running /\ ~pause
  /\ packetRing # <<>>
  /\ accumulated' = Append(accumulated, Head(packetRing))
  /\ packetRing' = Tail(packetRing)
  /\ assemblerPc' = "commit"
  /\ UNCHANGED <<readerVars, container, force, mainVars, running,
                 readerState, containerRing, counters, clientVars, delivered,
                 historyVars>>

\* Mutant: the Reader's state is looked at before the ring-buffer.
LookAtReaderFirst ==
  /\ assemblerPc = "get" /\ running /\ ~pause
  /\ packetRing = <<>> \/ readerState # "READER_OK"
  /\ lastPut' = parsed - Len(buffered)
  /\ assemblerPc' = "checkReader"
  /\ UNCHANGED <<readerVars, accumulated, container, force, mainVars,
                 running, readerState, packetRing, containerRing, counters,
                 clientVars, delivered, kept>>

GetNothing ==
  /\ assemblerPc = "get" /\ running /\ ~pause
  /\ packetRing = <<>>
  /\ lastPut' = parsed - Len(buffered)
  /\ assemblerPc' = "checkReader"
  /\ UNCHANGED <<readerVars, accumulated, container, force, mainVars,
                 running, readerState, packetRing, containerRing, counters,
                 clientVars, delivered, kept>>

\* The Get of a ring-buffer that Init has freed, after the loads of running
\* and pause; it may as well find the old memory, empty as it was.
GetFromFreedRing ==
  /\ assemblerPc = "get" /\ mainPc \in {"ringsFreed", "joinAlone"} /\ ~pause
  /\ assemblerPc' = "undefined" /\ mainPc' = "undefined"
  /\ UNCHANGED <<readerVars, accumulated, container, force, status, running,
                 readerState, packetRing, containerRing, counters,
                 clientVars, delivered, historyVars>>

\* Mutant: only the end of the file ends the Assembler.
CheckEndOfFile ==
  /\ assemblerPc = "checkReader"
  /\ assemblerPc' = IF readerState # "EOF_REACHED" THEN "get"
                    ELSE IF running THEN "waitConsumed" ELSE "exited"
  /\ UNCHANGED <<readerVars, accumulated, container, force, mainVars,
                 running, readerState, packetRing, containerRing, counters,
                 clientVars, delivered, historyVars>>

\* The Reader's state is only looked at after the Get has failed; in
\* between, the Reader may put its last packets and end.
CheckReader ==
  /\ assemblerPc = "checkReader"
  /\ assemblerPc' = IF readerState = "READER_OK" THEN "get"
                    ELSE IF running THEN "waitConsumed" ELSE "exited"
  /\ UNCHANGED <<readerVars, accumulated, container, force, mainVars,
                 running, readerState, packetRing, containerRing, counters,
                 clientVars, delivered, historyVars>>

\* commitPacketContainer: the limits are reached and a container with the
\* oldest packets is generated, any number of times.
GenerateContainer ==
  /\ assemblerPc = "commit"
  /\ \E k \in 1 .. Len(accumulated) :
       /\ container' = SubSeq(accumulated, 1, k)
       /\ accumulated' = SubSeq(accumulated, k + 1, Len(accumulated))
  /\ force' = keepPackets
  /\ assemblerPc' = "put"
  /\ UNCHANGED <<readerVars, mainVars, running, readerState, packetRing,
                 containerRing, counters, clientVars, delivered, historyVars>>

EndCommit ==
  /\ assemblerPc = "commit"
  /\ assemblerPc' = "get"
  /\ UNCHANGED <<readerVars, accumulated, container, force, mainVars,
                 running, readerState, packetRing, containerRing, counters,
                 clientVars, delivered, historyVars>>

\* doPacketContainerCommit: put, then count.
PutContainer ==
  /\ assemblerPc = "put" /\ ~Full(containerRing)
  /\ containerRing' = Append(containerRing, container)
  /\ container' = <<>>
  /\ assemblerPc' = "countModule"
  /\ UNCHANGED <<readerVars, accumulated, force, mainVars, running,
                 readerState, packetRing, counters, clientVars, delivered,
                 historyVars>>

\* Mutant: a put that should be retried drops the container as well.
DropAnyContainer ==
  /\ assemblerPc = "put" /\ Full(containerRing)
  /\ container' = <<>>
  /\ assemblerPc' = "commit"
  /\ UNCHANGED <<readerVars, accumulated, force, mainVars, running,
                 readerState, packetRing, containerRing, counters,
                 clientVars, delivered, historyVars>>

\* Mutant: a put that is retried does not look at the running flag.
DropUnforcedContainer ==
  /\ assemblerPc = "put" /\ Full(containerRing)
  /\ ~force
  /\ container' = <<>>
  /\ assemblerPc' = "commit"
  /\ UNCHANGED <<readerVars, accumulated, force, mainVars, running,
                 readerState, packetRing, containerRing, counters,
                 clientVars, delivered, historyVars>>

DropContainer ==
  /\ assemblerPc = "put" /\ Full(containerRing)
  /\ ~(force /\ running)
  /\ container' = <<>>
  /\ assemblerPc' = "commit"
  /\ UNCHANGED <<readerVars, accumulated, force, mainVars, running,
                 readerState, packetRing, containerRing, counters,
                 clientVars, delivered, historyVars>>

CountModule ==
  /\ assemblerPc = "countModule"
  /\ dataAvailableModule' = dataAvailableModule + 1
  /\ assemblerPc' = "notifyMainloop"
  /\ UNCHANGED <<readerVars, accumulated, container, force, mainVars,
                 running, readerState, packetRing, containerRing,
                 dataAvailable, clientVars, delivered, historyVars>>

NotifyMainloop ==
  /\ assemblerPc = "notifyMainloop"
  /\ dataAvailable' = dataAvailable + 1
  /\ assemblerPc' = "commit"
  /\ UNCHANGED <<readerVars, accumulated, container, force, mainVars,
                 running, readerState, packetRing, containerRing,
                 dataAvailableModule, clientVars, delivered, historyVars>>

\* Mutant: the mainloop may still have containers to consume.
NeverConsumed ==
  /\ assemblerPc = "waitConsumed"
  /\ assemblerPc' = "stopParent"
  /\ UNCHANGED <<readerVars, accumulated, container, force, mainVars,
                 running, readerState, packetRing, containerRing, counters,
                 clientVars, delivered, historyVars>>

\* After an error or the end of the file.
Consumed ==
  /\ assemblerPc = "waitConsumed"
  /\ ~running \/ dataAvailableModule = 0
  /\ assemblerPc' = "stopParent"
  /\ UNCHANGED <<readerVars, accumulated, container, force, mainVars,
                 running, readerState, packetRing, containerRing, counters,
                 clientVars, delivered, historyVars>>

StopParent ==
  /\ assemblerPc = "stopParent"
  /\ flag' = FALSE
  /\ assemblerPc' = "exited"
  /\ UNCHANGED <<readerVars, accumulated, container, force, mainVars,
                 running, readerState, packetRing, containerRing, counters,
                 pause, keepPackets, delivered, historyVars>>

-----------------------------------------------------------------------------
(* The mainloop: caerInputCommonInit, Run and Exit, called by caerModuleSM. *)

\* Both threads start. An Init that fails before the Assembler starts leaves
\* everything as it was.
ModuleInit ==
  /\ mainPc = "pass" /\ status = "STOPPED" /\ flag
  /\ status' = "RUNNING"
  /\ running' = TRUE
  /\ readerPc' = "read" /\ assemblerPc' = "get"
  /\ delivered' = <<>> /\ kept' = keepPackets
  /\ UNCHANGED <<parsed, buffered, accumulated, container, force, mainPc,
                 readerState, packetRing, containerRing, counters,
                 clientVars, lastPut>>

\* The Assembler has started, the Reader cannot be created: Init frees both
\* ring-buffers and only then tells the Assembler to stop, and joins it.
\* caerModuleSM frees the state and tries again in the next pass.
ReaderNotCreated ==
  /\ mainPc = "pass" /\ status = "STOPPED" /\ flag
  /\ running' = TRUE
  /\ assemblerPc' = "get"
  /\ delivered' = <<>> /\ kept' = keepPackets
  /\ mainPc' = "ringsFreed"
  /\ UNCHANGED <<readerVars, accumulated, container, force, status,
                 readerState, packetRing, containerRing, counters,
                 clientVars, lastPut>>

StopAssembler ==
  /\ mainPc = "ringsFreed"
  /\ running' = FALSE
  /\ mainPc' = "joinAlone"
  /\ UNCHANGED <<readerVars, assemblerVars, status, readerState, packetRing,
                 containerRing, counters, clientVars, delivered, historyVars>>

JoinAssemblerAlone ==
  /\ mainPc = "joinAlone" /\ assemblerPc = "exited"
  /\ assemblerPc' = "none" /\ lastPut' = 0
  /\ mainPc' = "pass"
  /\ UNCHANGED <<readerVars, accumulated, container, force, status, running,
                 readerState, packetRing, containerRing, counters,
                 clientVars, delivered, kept>>

ModuleRun ==
  /\ mainPc = "pass" /\ status = "RUNNING" /\ flag
  /\ containerRing # <<>>
  /\ delivered' = delivered \o Head(containerRing)
  /\ containerRing' = Tail(containerRing)
  /\ mainPc' = "notifyMainloop"
  /\ UNCHANGED <<readerVars, assemblerVars, status, running, readerState,
                 packetRing, counters, clientVars, historyVars>>

RunNotifiesMainloop ==
  /\ mainPc = "notifyMainloop"
  /\ dataAvailable' = dataAvailable - 1
  /\ mainPc' = "countModule"
  /\ UNCHANGED <<readerVars, assemblerVars, status, running, readerState,
                 packetRing, containerRing, dataAvailableModule, clientVars,
                 delivered, historyVars>>

RunCountsModule ==
  /\ mainPc = "countModule"
  /\ dataAvailableModule' = dataAvailableModule - 1
  /\ mainPc' = "pass"
  /\ UNCHANGED <<readerVars, assemblerVars, status, running, readerState,
                 packetRing, containerRing, dataAvailable, clientVars,
                 delivered, historyVars>>

ModuleExit ==
  /\ mainPc = "pass" /\ status = "RUNNING" /\ ~flag
  /\ status' = "STOPPED"
  /\ running' = FALSE
  /\ mainPc' = "joinReader"
  /\ UNCHANGED <<readerVars, assemblerVars, readerState, packetRing,
                 containerRing, counters, clientVars, delivered, historyVars>>

JoinReader ==
  /\ mainPc = "joinReader" /\ readerPc = "exited"
  /\ mainPc' = "joinAssembler"
  /\ UNCHANGED <<readerVars, assemblerVars, status, running, readerState,
                 packetRing, containerRing, counters, clientVars, delivered,
                 historyVars>>

JoinAssembler ==
  /\ mainPc = "joinAssembler" /\ assemblerPc = "exited"
  /\ mainPc' = "cleanUp"
  /\ UNCHANGED <<readerVars, assemblerVars, status, running, readerState,
                 packetRing, containerRing, counters, clientVars, delivered,
                 historyVars>>

\* Mutant: draining the ring-buffer leaves the mainloop's counter alone.
DrainLocally ==
  /\ mainPc = "cleanUp" /\ containerRing # <<>>
  /\ containerRing' = Tail(containerRing)
  /\ dataAvailableModule' = dataAvailableModule - 1
  /\ UNCHANGED <<readerVars, assemblerVars, mainVars, running, readerState,
                 packetRing, dataAvailable, clientVars, delivered, historyVars>>

DrainContainer ==
  /\ mainPc = "cleanUp" /\ containerRing # <<>>
  /\ containerRing' = Tail(containerRing)
  /\ dataAvailable' = dataAvailable - 1
  /\ dataAvailableModule' = dataAvailableModule - 1
  /\ UNCHANGED <<readerVars, assemblerVars, mainVars, running, readerState,
                 packetRing, clientVars, delivered, historyVars>>

\* Everything else is freed, and the state itself by caerModuleSM; a new one
\* starts from zeroes. "autoRestart" is the client's choice.
FreeState ==
  /\ mainPc = "cleanUp" /\ containerRing = <<>>
  /\ packetRing' = <<>> /\ accumulated' = <<>> /\ container' = <<>>
  /\ buffered' = <<>> /\ parsed' = 0
  /\ readerPc' = "none" /\ assemblerPc' = "none" /\ force' = FALSE
  /\ readerState' = "READER_OK"
  /\ dataAvailableModule' = 0
  /\ delivered' = <<>> /\ lastPut' = 0
  /\ \E autoRestart \in BOOLEAN : flag' = (flag \/ autoRestart)
  /\ mainPc' = "pass"
  /\ UNCHANGED <<status, running, containerRing, dataAvailable, pause,
                 keepPackets, kept>>

-----------------------------------------------------------------------------
(* Clients. A change of "pause" or "keepPackets" while no listener is      *)
(* registered takes effect at the next Init, which reads the attribute;    *)
(* an Init that fails has none.                                            *)

Listens == mainPc \notin {"ringsFreed", "joinAlone"}

StopOrStart(b) ==
  /\ \/ ~b /\ "stop" \in Environment
     \/ b /\ "start" \in Environment
     \/ b /\ "restart" \in Environment /\ mainPc = "pass" /\ status = "STOPPED"
  /\ flag' = b
  /\ UNCHANGED <<readerVars, assemblerVars, mainVars, running, readerState,
                 packetRing, containerRing, counters, pause, keepPackets,
                 delivered, historyVars>>

SetPause(b) ==
  /\ "pause" \in Environment /\ Listens
  /\ pause' = b
  /\ UNCHANGED <<readerVars, assemblerVars, mainVars, running, readerState,
                 packetRing, containerRing, counters, flag, keepPackets,
                 delivered, historyVars>>

SetKeepPackets(b) ==
  /\ "keepPackets" \in Environment /\ Listens
  /\ keepPackets' = b
  /\ kept' = (kept /\ b)
  /\ UNCHANGED <<readerVars, assemblerVars, mainVars, running, readerState,
                 packetRing, containerRing, counters, flag, pause, delivered,
                 lastPut>>

-----------------------------------------------------------------------------
Reader ==
  \/ ReadBuffer \/ ReadFails \/ ReaderStops
  \/ PutPacket \/ PutPacketGivesUp \/ EndBuffer

Assembler ==
  \/ AssemblerStops \/ GetPacket \/ GetNothing \/ GetFromFreedRing
  \/ CheckReader
  \/ GenerateContainer \/ EndCommit \/ PutContainer \/ DropContainer
  \/ CountModule \/ NotifyMainloop \/ Consumed \/ StopParent

MainThread ==
  \/ ModuleInit \/ ModuleRun \/ RunNotifiesMainloop \/ RunCountsModule
  \/ ModuleExit \/ JoinReader \/ JoinAssembler \/ DrainContainer \/ FreeState
  \/ ReaderNotCreated \/ StopAssembler \/ JoinAssemblerAlone

Clients ==
  \E b \in BOOLEAN : StopOrStart(b) \/ SetPause(b) \/ SetKeepPackets(b)

Next == Reader \/ Assembler \/ MainThread \/ Clients

\* The threads are scheduled, and the mainloop makes a pass at least once a
\* second (Mainloop!LoopPass). WF_vars(Reader) assumes besides that no read
\* blocks for ever: a file's never does, a silent network peer's may.
Fairness == WF_vars(Reader) /\ WF_vars(Assembler) /\ WF_vars(MainThread)

Spec == Init /\ [][Next]_vars
FairSpec == Spec /\ Fairness

-----------------------------------------------------------------------------
(* Safety                                                                  *)

\* What was read and has not been delivered, oldest first.
Inside ==
  FlattenSeq(containerRing) \o container \o accumulated \o packetRing
    \o buffered

Stream == INSTANCE PacketStream
            WITH read <- parsed, inside <- Inside, lossless <- kept /\ running

\* The pipeline keeps the order of the packets, delivers none twice, and
\* loses none while "keepPackets" is set and the module is not stopped.
ImplementsPacketStream == Stream!StreamSpec

\* The mainloop's counter never hides a container: one that was put and
\* announced keeps dataAvailable above zero until it is taken.
AnnouncedDataIsSeen ==
  containerRing # <<>> /\ assemblerPc \notin {"countModule", "notifyMainloop"}
    => dataAvailable > 0

\* input_common.c:1974-1979: once a stopped module's ring-buffer has been
\* drained, neither counter still claims data, so that the mainloop does not
\* spin for a module that is gone.
NothingLeftBehind ==
  mainPc = "cleanUp" /\ containerRing = <<>>
    => dataAvailableModule = 0 /\ dataAvailable = 0

\* The two counters go with the ring-buffer, whatever its three users do.
CountersMatchData == AnnouncedDataIsSeen /\ NothingLeftBehind

\* When its source ends or fails, a module with "keepPackets" has delivered
\* all that was handed over before its Assembler's last look at the
\* ring-buffer, but for what the Assembler holds (and frees, as no limit was
\* reached). Packets that were put between that look and the one at the
\* Reader's state are lost, whatever the comment at 1690-1693 says.
EndOfInputDelivers ==
  assemblerPc = "stopParent" /\ running /\ kept
    => /\ delivered \o accumulated \o packetRing
            = [packet \in 1 .. parsed |-> packet]
       /\ \A i \in 1 .. Len(packetRing) : packetRing[i] > lastPut

\* input_common.c:1812-1813: at the end of the file the module only stops
\* itself once the mainloop has consumed every container.
ConsumedBeforeStop ==
  assemblerPc = "stopParent" /\ running => containerRing = <<>>

-----------------------------------------------------------------------------
(* Liveness                                                                *)

\* Exit returns: neither a full ring-buffer nor "keepPackets" nor a pause
\* keeps a thread that it joins from ending. So does an Init that could not
\* create the Reader, if the Assembler does not use what Init has freed.
ExitTerminates ==
  /\ mainPc = "joinReader" ~> mainPc = "pass"
  /\ mainPc = "ringsFreed" ~> mainPc \in {"pass", "undefined"}

\* A source that ended or failed takes its module down, unless a pause
\* holds the Assembler for ever.
EndOfInputStops ==
  <>[](~pause) => (readerState # "READER_OK" ~> readerState = "READER_OK")
=============================================================================
