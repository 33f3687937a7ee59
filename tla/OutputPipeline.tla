--------------------------- MODULE OutputPipeline ---------------------------
(***************************************************************************)
(* The threads behind an output module (modules/misc/out/output_common.c)  *)
(* that writes to a file descriptor: the mainloop, which copies the        *)
(* packets of each container it is given; the Compressor, which orders the *)
(* packets of a container by their first timestamp; and the Output thread, *)
(* which writes them. Two ring-buffers connect them.                       *)
(*                                                                         *)
(* A packet is known by its container and its index in there, and has the  *)
(* timestamp of its first event. A container in a ring-buffer is a set of  *)
(* packets: qsort and the loop over its result amount to sending the least *)
(* packet of the set again and again. "epoch" is history: it counts the    *)
(* timestamp resets a packet comes after.                                  *)
(*                                                                         *)
(* Not here: packets of other sources and empty ones, which copying skips; *)
(* compression; the libuv loop that takes the Output thread's place for    *)
(* network outputs.                                                        *)
(***************************************************************************)
EXTENDS Naturals, Sequences, Functions

CONSTANTS
  RingSize,       \* "ringBufferSize" of both ring-buffers (8 .. 4096)
  MaxContainers,  \* containers and resets one run is given
  MaxPackets,     \* packets in a container
  MaxTime,        \* largest timestamp of an event; INT32_MAX comes after it
  Environment     \* what clients may change: see ClientChoices

\* "start" happens at any time, "restart" only once the module has stopped.
ClientChoices == {"stop", "start", "restart", "keepPackets"}

ASSUME OutputPipelineAssumption ==
  /\ RingSize \in Nat \ {0}
  /\ MaxContainers \in Nat /\ MaxPackets \in Nat /\ MaxTime \in Nat
  /\ Environment \subseteq ClientChoices

VARIABLES
  \* the mainloop thread
  mainPc,          \* see MainPlaces
  status,          \* moduleStatus
  lastTimestamp,   \* state->lastTimestamp
  outgoing,        \* the container it is about to put
  \* the Compressor thread
  compressorPc,    \* "none", "get", "drain" or "exited"
  sending,         \* packets of its container it has not sent yet
  \* the Output thread
  outputPc,        \* see OutputPlaces
  headerSent,      \* local of outputThread
  \* shared
  running,         \* state->running
  sourceKnown,     \* state->sourceID # -1
  failure,         \* state->outputThreadFailure
  compressorRing,  \* state->compressorRing
  outputRing,      \* state->outputRing
  flag,            \* moduleData->running
  keepPackets,     \* state->keepPackets
  \* history
  containers,      \* containers and resets of this run so far
  epoch,           \* resets of this run so far
  copied,          \* packets copied for output in this run
  written,         \* packets written in this run, oldest first
  kept,            \* keepPackets was TRUE throughout this run
  unput            \* packets the Compressor had not put yet when the Output
                   \* thread ended

mainVars       == <<mainPc, status, lastTimestamp, outgoing>>
compressorVars == <<compressorPc, sending>>
outputVars     == <<outputPc, headerSent, unput>>
clientVars     == <<flag, keepPackets>>
copyHistory    == <<containers, epoch, copied>>
vars == <<mainVars, compressorVars, outputVars, running, sourceKnown,
          failure, compressorRing, outputRing, clientVars, copyHistory,
          written, kept>>

MainPlaces ==
  {"pass", "put", "ran", "putReset", "joinCompressor", "joinOutput",
   "cleanUp"}
OutputPlaces ==
  {"none", "waitSource", "write", "drain", "discard", "putStop", "exited"}

Packets ==
  [container : 1 .. MaxContainers, index : 0 .. MaxPackets,
   epoch : 0 .. MaxContainers, first : 0 .. MaxTime + 1]

Full(ring) == Len(ring) >= RingSize

TypeOK ==
  /\ mainPc \in MainPlaces /\ status \in {"STOPPED", "RUNNING"}
  /\ lastTimestamp \in 0 .. MaxTime + 1
  /\ outgoing \subseteq Packets
  /\ compressorPc \in {"none", "get", "drain", "exited"}
  /\ sending \subseteq Packets
  /\ outputPc \in OutputPlaces /\ headerSent \in BOOLEAN
  /\ running \in BOOLEAN /\ sourceKnown \in BOOLEAN /\ failure \in BOOLEAN
  /\ compressorRing \in Seq(SUBSET Packets) /\ Len(compressorRing) <= RingSize
  /\ outputRing \in Seq(Packets) /\ Len(outputRing) <= RingSize
  /\ flag \in BOOLEAN /\ keepPackets \in BOOLEAN
  /\ containers \in 0 .. MaxContainers /\ epoch \in 0 .. containers
  /\ copied \subseteq Packets /\ written \in Seq(Packets)
  /\ kept \in BOOLEAN /\ unput \subseteq Packets

Init ==
  /\ mainPc = "pass" /\ status = "STOPPED" /\ lastTimestamp = 0
  /\ outgoing = {}
  /\ compressorPc = "none" /\ sending = {}
  /\ outputPc = "none" /\ headerSent = FALSE
  /\ running = FALSE /\ sourceKnown = FALSE /\ failure = FALSE
  /\ compressorRing = <<>> /\ outputRing = <<>>
  /\ flag = TRUE /\ keepPackets \in BOOLEAN
  /\ containers = 0 /\ epoch = 0 /\ copied = {} /\ written = <<>>
  /\ kept = FALSE /\ unput = {}

-----------------------------------------------------------------------------
(* The mainloop: caerOutputCommonInit, Run, Reset and Exit, called by      *)
(* caerModuleSM.                                                           *)

\* A failed Init leaves everything as it was.
ModuleInit ==
  /\ mainPc = "pass" /\ status = "STOPPED" /\ flag
  /\ status' = "RUNNING" /\ running' = TRUE
  /\ compressorPc' = "get" /\ outputPc' = "waitSource"
  /\ kept' = keepPackets
  /\ UNCHANGED <<mainPc, lastTimestamp, outgoing, sending, headerSent,
                 unput, sourceKnown, failure, compressorRing, outputRing,
                 clientVars, copyHistory, written>>

\* c holds the first timestamps of the packets of container number k. Those
\* that do not go back in time are copied, as far as memory and "validOnly"
\* allow; the last timestamp of one is any that is not below its first.
OnTime(c) == {i \in DOMAIN c : c[i] >= lastTimestamp}
Copy(c, k, I) ==
  {[container |-> k, index |-> i, epoch |-> epoch, first |-> c[i]] : i \in I}
Highest(c) == {t \in 0 .. MaxTime : \A i \in OnTime(c) : c[i] <= t}

CopyPackets ==
  /\ mainPc = "pass" /\ status = "RUNNING" /\ flag
  /\ containers < MaxContainers
  /\ containers' = containers + 1
  /\ sourceKnown' = TRUE
  /\ \E n \in 1 .. MaxPackets : \E c \in [1 .. n -> 0 .. MaxTime] :
     \E I \in SUBSET OnTime(c) :
       IF I = {}
       THEN /\ mainPc' = "ran"
            /\ UNCHANGED <<lastTimestamp, outgoing, copied>>
       ELSE /\ mainPc' = "put"
            /\ outgoing' = Copy(c, containers', I)
            /\ copied' = copied \cup outgoing'
            /\ lastTimestamp' \in Highest(c)
  /\ UNCHANGED <<status, compressorVars, outputVars, running, failure,
                 compressorRing, outputRing, clientVars, epoch, written,
                 kept>>

PutContainer ==
  /\ mainPc = "put" /\ ~Full(compressorRing)
  /\ compressorRing' = Append(compressorRing, outgoing)
  /\ outgoing' = {}
  /\ mainPc' = "ran"
  /\ UNCHANGED <<status, lastTimestamp, compressorVars, outputVars, running,
                 sourceKnown, failure, outputRing, clientVars, copyHistory,
                 written, kept>>

\* Mutant: a container is dropped even when packets are to be kept.
DropAnyContainer ==
  /\ mainPc = "put" /\ Full(compressorRing)
  /\ outgoing' = {}
  /\ mainPc' = "ran"
  /\ UNCHANGED <<status, lastTimestamp, compressorVars, outputVars, running,
                 sourceKnown, failure, compressorRing, outputRing,
                 clientVars, copyHistory, written, kept>>

\* A full ring-buffer: with "keepPackets" the put is retried for ever.
DropContainer ==
  /\ mainPc = "put" /\ Full(compressorRing) /\ ~keepPackets
  /\ outgoing' = {}
  /\ mainPc' = "ran"
  /\ UNCHANGED <<status, lastTimestamp, compressorVars, outputVars, running,
                 sourceKnown, failure, compressorRing, outputRing,
                 clientVars, copyHistory, written, kept>>

\* caerModuleSM after moduleRun: no reset is due, or none of this source.
NoReset ==
  /\ mainPc = "ran"
  /\ mainPc' = "pass"
  /\ UNCHANGED <<status, lastTimestamp, outgoing, compressorVars, outputVars,
                 running, sourceKnown, failure, compressorRing, outputRing,
                 clientVars, copyHistory, written, kept>>

StartReset ==
  /\ mainPc = "ran" /\ containers < MaxContainers
  /\ containers' = containers + 1
  /\ outgoing' = {[container |-> containers', index |-> 0, epoch |-> epoch,
                   first |-> MaxTime + 1]}
  /\ copied' = copied \cup outgoing'
  /\ mainPc' = "putReset"
  /\ UNCHANGED <<status, lastTimestamp, compressorVars, outputVars, running,
                 sourceKnown, failure, compressorRing, outputRing,
                 clientVars, epoch, written, kept>>

\* Mutant: a reset is dropped like a container when there is no room.
PutResetOnce ==
  /\ mainPc = "putReset"
  /\ compressorRing' = IF Full(compressorRing) THEN compressorRing
                       ELSE Append(compressorRing, outgoing)
  /\ outgoing' = {}
  /\ lastTimestamp' = 0 /\ epoch' = epoch + 1
  /\ mainPc' = "pass"
  /\ UNCHANGED <<status, compressorVars, outputVars, running, sourceKnown,
                 failure, outputRing, clientVars, containers, copied,
                 written, kept>>

PutReset ==
  /\ mainPc = "putReset" /\ ~Full(compressorRing)
  /\ compressorRing' = Append(compressorRing, outgoing)
  /\ outgoing' = {}
  /\ lastTimestamp' = 0 /\ epoch' = epoch + 1
  /\ mainPc' = "pass"
  /\ UNCHANGED <<status, compressorVars, outputVars, running, sourceKnown,
                 failure, outputRing, clientVars, containers, copied,
                 written, kept>>

ModuleExit ==
  /\ mainPc = "pass" /\ status = "RUNNING" /\ ~flag
  /\ status' = "STOPPED" /\ running' = FALSE
  /\ mainPc' = "joinCompressor"
  /\ UNCHANGED <<lastTimestamp, outgoing, compressorVars, outputVars,
                 sourceKnown, failure, compressorRing, outputRing,
                 clientVars, copyHistory, written, kept>>

JoinCompressor ==
  /\ mainPc = "joinCompressor" /\ compressorPc = "exited"
  /\ mainPc' = "joinOutput"
  /\ UNCHANGED <<status, lastTimestamp, outgoing, compressorVars, outputVars,
                 running, sourceKnown, failure, compressorRing, outputRing,
                 clientVars, copyHistory, written, kept>>

JoinOutput ==
  /\ mainPc = "joinOutput" /\ outputPc = "exited"
  /\ mainPc' = "cleanUp"
  /\ UNCHANGED <<status, lastTimestamp, outgoing, compressorVars, outputVars,
                 running, sourceKnown, failure, compressorRing, outputRing,
                 clientVars, copyHistory, written, kept>>

\* Whatever is left in the ring-buffers is freed, and the state as well.
FreeState ==
  /\ mainPc = "cleanUp"
  /\ compressorRing' = <<>> /\ outputRing' = <<>>
  /\ compressorPc' = "none" /\ outputPc' = "none" /\ headerSent' = FALSE
  /\ lastTimestamp' = 0 /\ sourceKnown' = FALSE /\ failure' = FALSE
  /\ containers' = 0 /\ epoch' = 0 /\ copied' = {} /\ written' = <<>>
  /\ kept' = FALSE /\ unput' = {}
  /\ mainPc' = "pass"
  /\ UNCHANGED <<status, outgoing, sending, running, clientVars>>

-----------------------------------------------------------------------------
(* Compressor: compressorThread, orderAndSendEventPackets, sendEventPacket. *)

GetContainer ==
  /\ compressorPc = "drain" \/ (compressorPc = "get" /\ running)
  /\ sending = {} /\ compressorRing # <<>>
  /\ sending' = Head(compressorRing)
  /\ compressorRing' = Tail(compressorRing)
  /\ UNCHANGED <<mainVars, compressorPc, outputVars, running, sourceKnown,
                 failure, outputRing, clientVars, copyHistory, written, kept>>

\* packetsFirstTimestampThenTypeCmp; equal timestamps keep the order of the
\* container, which is that of the types.
Precedes(p, q) ==
  p.first < q.first \/ (p.first = q.first /\ p.index <= q.index)
IsNext(p) == \A q \in sending : Precedes(p, q)

\* Mutant: the packets are sent in the order they have in their container.
SendUnordered(p) ==
  /\ p \in sending /\ \A q \in sending : p.index <= q.index
  /\ ~Full(outputRing)
  /\ outputRing' = Append(outputRing, p)
  /\ sending' = sending \ {p}
  /\ UNCHANGED <<mainVars, compressorPc, outputVars, running, sourceKnown,
                 failure, compressorRing, clientVars, copyHistory, written,
                 kept>>

SendPacket(p) ==
  /\ p \in sending /\ IsNext(p)
  /\ ~Full(outputRing)
  /\ outputRing' = Append(outputRing, p)
  /\ sending' = sending \ {p}
  /\ UNCHANGED <<mainVars, compressorPc, outputVars, running, sourceKnown,
                 failure, compressorRing, clientVars, copyHistory, written,
                 kept>>

\* The put is retried while the ring-buffer is full, unless the Output
\* thread has failed.
DiscardPacket(p) ==
  /\ p \in sending /\ IsNext(p)
  /\ Full(outputRing) /\ failure
  /\ sending' = sending \ {p}
  /\ UNCHANGED <<mainVars, compressorPc, outputVars, running, sourceKnown,
                 failure, compressorRing, outputRing, clientVars,
                 copyHistory, written, kept>>

CompressorStops ==
  /\ compressorPc = "get" /\ sending = {} /\ ~running
  /\ compressorPc' = "drain"
  /\ UNCHANGED <<mainVars, sending, outputVars, running, sourceKnown,
                 failure, compressorRing, outputRing, clientVars,
                 copyHistory, written, kept>>

CompressorExits ==
  /\ compressorPc = "drain" /\ sending = {} /\ compressorRing = <<>>
  /\ compressorPc' = "exited"
  /\ UNCHANGED <<mainVars, sending, outputVars, running, sourceKnown,
                 failure, compressorRing, outputRing, clientVars,
                 copyHistory, written, kept>>

-----------------------------------------------------------------------------
(* Output: outputThread writing to a file descriptor.                      *)

SendHeader ==
  /\ outputPc = "waitSource" /\ running /\ sourceKnown
  /\ headerSent' = TRUE
  /\ outputPc' = "write"
  /\ UNCHANGED <<mainVars, compressorVars, unput, running, sourceKnown,
                 failure, compressorRing, outputRing, clientVars,
                 copyHistory, written, kept>>

\* Stopped before a source was seen: what the ring-buffer holds is freed.
SendNoHeader ==
  /\ outputPc = "waitSource" /\ ~running
  /\ outputPc' = "discard"
  /\ UNCHANGED <<mainVars, compressorVars, headerSent, unput, running,
                 sourceKnown, failure, compressorRing, outputRing, clientVars,
                 copyHistory, written, kept>>

FreePacket ==
  /\ outputPc = "discard" /\ outputRing # <<>>
  /\ outputRing' = Tail(outputRing)
  /\ UNCHANGED <<mainVars, compressorVars, outputVars, running, sourceKnown,
                 failure, compressorRing, clientVars, copyHistory, written,
                 kept>>

Writing == outputPc = "drain" \/ (outputPc = "write" /\ running)

\* A Get and the write it leads to; the write may take any time.
WritePacket ==
  /\ Writing /\ outputRing # <<>>
  /\ written' = Append(written, Head(outputRing))
  /\ outputRing' = Tail(outputRing)
  /\ UNCHANGED <<mainVars, compressorVars, outputVars, running, sourceKnown,
                 failure, compressorRing, clientVars, copyHistory, kept>>

\* errorExit: the Compressor is told first, then the module is stopped.
WriteFails ==
  /\ Writing /\ outputRing # <<>>
  /\ outputRing' = Tail(outputRing)
  /\ failure' = TRUE
  /\ outputPc' = "putStop"
  /\ UNCHANGED <<mainVars, compressorVars, headerSent, unput, running,
                 sourceKnown, compressorRing, clientVars, copyHistory, written, kept>>

\* Mutant: the failed thread ends without stopping its module.
ExitFailedRunning ==
  /\ outputPc = "putStop"
  /\ outputPc' = "exited"
  /\ UNCHANGED <<mainVars, compressorVars, headerSent, unput, running,
                 sourceKnown, failure, compressorRing, outputRing, clientVars,
                 copyHistory, written, kept>>

ExitFailed ==
  /\ outputPc = "putStop"
  /\ flag' = FALSE
  /\ outputPc' = "exited"
  /\ UNCHANGED <<mainVars, compressorVars, headerSent, unput, running,
                 sourceKnown, failure, compressorRing, outputRing, keepPackets,
                 copyHistory, written, kept>>

OutputStops ==
  /\ outputPc = "write" /\ ~running
  /\ outputPc' = "drain"
  /\ UNCHANGED <<mainVars, compressorVars, headerSent, unput, running,
                 sourceKnown, failure, compressorRing, outputRing, clientVars,
                 copyHistory, written, kept>>

\* The thread does not wait for the Compressor, which may put more.
OutputExits ==
  /\ outputPc \in {"drain", "discard"} /\ outputRing = <<>>
  /\ outputPc' = "exited"
  /\ unput' = outgoing \cup sending \cup UNION Range(compressorRing)
  /\ UNCHANGED <<mainVars, compressorVars, headerSent, running, sourceKnown,
                 failure, compressorRing, outputRing, clientVars,
                 copyHistory, written, kept>>

-----------------------------------------------------------------------------
(* Clients.                                                                *)

StopOrStart(b) ==
  /\ \/ ~b /\ "stop" \in Environment
     \/ b /\ "start" \in Environment
     \/ b /\ "restart" \in Environment /\ mainPc = "pass" /\ status = "STOPPED"
  /\ flag' = b
  /\ UNCHANGED <<mainVars, compressorVars, outputVars, running, sourceKnown,
                 failure, compressorRing, outputRing, keepPackets,
                 copyHistory, written, kept>>

SetKeepPackets(b) ==
  /\ "keepPackets" \in Environment
  /\ keepPackets' = b
  /\ kept' = (kept /\ b)
  /\ UNCHANGED <<mainVars, compressorVars, outputVars, running, sourceKnown,
                 failure, compressorRing, outputRing, flag, copyHistory,
                 written>>

-----------------------------------------------------------------------------
MainThread ==
  \/ ModuleInit \/ CopyPackets \/ PutContainer \/ DropContainer
  \/ NoReset \/ StartReset \/ PutReset
  \/ ModuleExit \/ JoinCompressor \/ JoinOutput \/ FreeState

Compressor ==
  \/ GetContainer \/ CompressorStops \/ CompressorExits
  \/ \E p \in sending : SendPacket(p) \/ DiscardPacket(p)

Output ==
  \/ SendHeader \/ SendNoHeader \/ FreePacket \/ WritePacket \/ WriteFails
  \/ ExitFailed \/ OutputStops \/ OutputExits

Clients == \E b \in BOOLEAN : StopOrStart(b) \/ SetKeepPackets(b)

Next == MainThread \/ Compressor \/ Output \/ Clients

\* The three threads are scheduled, and every write returns.
Fairness == WF_vars(MainThread) /\ WF_vars(Compressor) /\ WF_vars(Output)

Spec == Init /\ [][Next]_vars
FairSpec == Spec /\ Fairness

-----------------------------------------------------------------------------
(* Safety                                                                  *)

\* AEDAT 3.X (output_common.c:15-19): the first timestamp of a packet
\* determines its order in the stream, from smallest to largest; only the
\* reset that ends an epoch lets the timestamps start again.
TimeOrder ==
  \A i \in 1 .. Len(written) - 1 :
    LET p == written[i]  q == written[i + 1]
    IN \/ p.epoch < q.epoch
       \/ p.epoch = q.epoch /\ p.first <= q.first

\* A reset separates the epochs in the output: nothing of a later epoch is
\* written before the reset that began it (caerOutputCommonReset).
ResetsSeparateEpochs ==
  \A i \in 1 .. Len(written) :
    written[i].epoch > 0 =>
      \E j \in 1 .. i - 1 : /\ written[j].epoch = written[i].epoch - 1
                            /\ written[j].index = 0

\* Where a packet may be, from the newest to the oldest.
Waiting == UNION Range(compressorRing)
Inside  == outgoing \cup Waiting \cup sending \cup Range(outputRing)

\* Writing has not failed, and a header was written or still may be.
Promised ==
  kept /\ ~failure /\ (headerSent \/ outputPc \in {"none", "waitSource"})

\* "keepPackets" (output_common.c:1398): "Ensure all packets are kept (stall
\* output if transfer-buffer full)". While it stays set every copied packet is
\* written or on its way to an Output thread that has not ended; once that has,
\* which it only does in Exit, exactly those packets are lost that it did not
\* wait for: Exit frees what the Compressor put later, in a ring-buffer that
\* "should never" hold any (1525-1529). And no packet is ever written twice.
NothingLost ==
  /\ Promised => IF outputPc = "exited"
                 THEN ~running /\ copied = Range(written) \cup unput
                 ELSE copied = Range(written) \cup Inside
  /\ IsInjective(written) /\ Range(written) \cap Inside = {}

-----------------------------------------------------------------------------
(* Liveness                                                                *)

\* An Output thread that failed takes its module down: Exit does not wait for
\* a Compressor that nobody takes packets from.
FailureStopsModule == failure ~> ~failure
=============================================================================
