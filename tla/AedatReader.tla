---------------------------- MODULE AedatReader -----------------------------
(***************************************************************************)
(* The parser of the Reader thread of an input module                      *)
(* (modules/misc/in/input_common.c): it reads a file or network stream     *)
(* buffer by buffer, parses its header, reassembles the event packets that *)
(* are split across buffers, skips those of other sources, and restores    *)
(* compressed ones. The stream is what the output module writes            *)
(* (PacketCodec); a packet that is out here is one that InputPipeline's    *)
(* Reader puts in its ring-buffer.                                         *)
(*                                                                         *)
(* The header is one cell of the stream (it has to lie within the first    *)
(* buffer), an event packet HeaderLength cells and its data. The size of   *)
(* the buffer may change before every read ("bufferSize").                 *)
(***************************************************************************)
EXTENDS PacketCodec

CONSTANTS
  Files,          \* the streams, see below
  HeaderLength,   \* CAER_EVENT_PACKET_HEADER_SIZE, 28 bytes
  BufferSizes,    \* values of "bufferSize"
  MinBuffer       \* smallest buffer, 512 bytes

Lines == {"version20", "version30", "version31", "versionX", "format",
          "formatX", "source", "negSource", "other", "end"}
Network == <<"magic", "sequence0", "version1">>

Types == {"polarity", "frame", "special"}

\* Events are timestamps, or frames (see PacketCodec).
IsPacket(p) ==
  /\ DOMAIN p = {"source", "type", "events"}
  /\ p.source \in {"ours", "other"} /\ p.type \in Types
  /\ p.events \in Seq(IF p.type = "frame" THEN Nat \X Nat ELSE Nat)

\* A file is its header (the lines of a file, the fields of a network
\* stream), the format that its writer used, and its packets.
ASSUME AedatReaderAssumption ==
  /\ HeaderLength \in Nat \ {0}
  /\ MinBuffer \in Nat /\ MinBuffer >= HeaderLength
  /\ BufferSizes \subseteq Nat \ {0} /\ BufferSizes # {}
  /\ \A f \in Files :
       /\ f.network \in BOOLEAN
       /\ f.format \subseteq {"SerializedTS", "PNGFrames"}
       /\ Len(f.packets) \in Nat /\ DOMAIN f.packets = 1 .. Len(f.packets)
       /\ \A k \in DOMAIN f.packets : IsPacket(f.packets[k])

VARIABLES
  parserPc,        \* where the thread is, or why it ended
  file,            \* the stream: its cells, and what they are made of
  header,          \* parsed header
  bufferSize,      \* of the current buffer
  bufferUsedSize,
  bufferPosition,
  dataBufferOffset,  \* of the current buffer in the stream
  skipSize,
  currPacketHeader,
  currPacketHeaderSize,
  current,         \* currPacket and its meta-data
  packetsList      \* packets read: meta-data and memory

buffer == <<bufferSize, bufferUsedSize, bufferPosition, dataBufferOffset>>
parser == <<skipSize, currPacketHeader, currPacketHeaderSize, current>>
parserVars == <<parserPc, file, header, buffer, parser, packetsList>>

Ends == {"EOF_REACHED", "ERROR_READ", "ERROR_HEADER", "ERROR_DATA", "exit"}

PacketAt(k)  == file.packets[k]
Memory(k)  == Cells(k, PacketAt(k).type, PacketAt(k).events)
Wire(f, k) == LET p == f.packets[k] IN
              Compress(p.type, Cells(k, p.type, p.events), p.events, f.format)
HeaderCell(k, j) == <<"header", k, j>>

\* A packet in the stream: its header and its data.
Chunk(k, data) ==
  [i \in 1 .. HeaderLength + Len(data) |->
     IF i <= HeaderLength THEN HeaderCell(k, i) ELSE data[i - HeaderLength]]

\* The stream as the writer makes it.
StreamOf(lines, wires) ==
  <<lines>> \o FlattenSeq([k \in 1 .. Len(wires) |-> Chunk(k, wires[k].data)])

Junk      == <<"junk">>
NoPacket  == [packet |-> 0, mem |-> <<>>, at |-> 0, left |-> 0, offset |-> 0]
NoHeader  == [verdict |-> "more", version |-> "none", format |-> FALSE,
              source |-> FALSE]

\* newInputBuffer
NewBuffer(b) == Max({b, MinBuffer})

ParserTypeOK ==
  /\ parserPc \in {"read", "header", "data"} \cup Ends
  /\ header.verdict \in {"more", "valid", "invalid", "exit"}
  /\ bufferPosition \in 0 .. bufferUsedSize
  /\ bufferUsedSize \in 0 .. bufferSize
  /\ dataBufferOffset \in 0 .. Len(file.cells)
  /\ skipSize \in Nat
  /\ currPacketHeaderSize \in 0 .. HeaderLength
  /\ DOMAIN currPacketHeader = 1 .. HeaderLength
  /\ current.left \in Nat
  /\ \A i \in DOMAIN packetsList : packetsList[i].packet \in DOMAIN file.packets

ParserInit ==
  /\ parserPc = "read"
  /\ \E f \in Files :
       LET wires == [k \in DOMAIN f.packets |-> Wire(f, k)] IN
       file = [network |-> f.network, lines |-> f.lines, format |-> f.format,
               packets |-> f.packets, wires |-> wires,
               cells |-> StreamOf(f.lines, wires)]
  /\ header = NoHeader
  /\ bufferSize \in {NewBuffer(b) : b \in BufferSizes}
  /\ bufferUsedSize = 0 /\ bufferPosition = 0 /\ dataBufferOffset = 0
  /\ skipSize = 0
  /\ currPacketHeader = [j \in 1 .. HeaderLength |-> Junk]
  /\ currPacketHeaderSize = 0
  /\ current = NoPacket
  /\ packetsList = <<>>

-----------------------------------------------------------------------------
(* inputReaderThread and newInputBuffer: get a full buffer, less only at   *)
(* the end of the stream.                                                  *)

GetBuffer ==
  /\ parserPc = "read"
  /\ \E b \in BufferSizes :
       /\ bufferSize' = NewBuffer(b)
       /\ bufferUsedSize' =
            Min({bufferSize', Len(file.cells) - dataBufferOffset})
  /\ bufferPosition' = 0
  /\ parserPc' = IF bufferUsedSize' = 0 THEN "EOF_REACHED"
                 ELSE IF header.verdict = "valid" THEN "data" ELSE "header"
  /\ UNCHANGED <<file, header, dataBufferOffset, parser, packetsList>>

ReadError ==
  /\ parserPc = "read"
  /\ parserPc' = "ERROR_READ"
  /\ UNCHANGED <<file, header, buffer, parser, packetsList>>

\* The while loop of parseData has ended: back to the file.
BufferEnds ==
  /\ parserPc = "data" /\ bufferPosition = bufferUsedSize
  /\ parserPc' = "read"
  /\ bufferPosition' = 0 /\ bufferUsedSize' = 0
  /\ dataBufferOffset' = dataBufferOffset + bufferUsedSize
  /\ UNCHANGED <<file, header, bufferSize, parser, packetsList>>

-----------------------------------------------------------------------------
(* parseHeader *)

\* Whether a header may end where no line can be read.
EndsWithoutMark(h) ==
  h.version = "version20" \/ (h.version = "version30" /\ h.format /\ h.source)

IsAedat3Version(v) == v \in {"version30", "version31"}

\* One turn of parseFileHeader, with getFileHeaderLine's answer ("NULL" when
\* there is no more line). For a 2.0 file parseSourceString has made no
\* sourceString that a #-Source line could be added to: sshs ends caer.
ParseLine(h, line) ==
  LET Judged(verdict) == [h EXCEPT !.verdict = verdict]
      aedat3 == IsAedat3Version(h.version)
  IN  IF h.verdict # "more" THEN h
      ELSE IF line = "NULL"
        THEN Judged(IF EndsWithoutMark(h) THEN "valid" ELSE "invalid")
      ELSE IF h.version = "none"
        THEN IF IsAedat3Version(line) \/ line = "version20"
               THEN [h EXCEPT !.version = line] ELSE Judged("invalid")
      ELSE IF aedat3 /\ ~h.format
        THEN IF line = "format" THEN [h EXCEPT !.format = TRUE] ELSE Judged("invalid")
      ELSE IF aedat3 /\ ~h.source
        THEN IF line = "source" THEN [h EXCEPT !.source = TRUE] ELSE Judged("invalid")
      ELSE CASE line = "end"                    -> Judged("valid")
             [] line = "negSource" /\ ~aedat3   -> Judged("exit")
             [] OTHER                           -> h

ParseFileHeader(lines) == FoldLeft(ParseLine, NoHeader, Append(lines, "NULL"))

ParseNetworkHeader(fields) ==
  [verdict |-> IF fields = Network THEN "valid" ELSE "invalid",
   version |-> "version31", format |-> TRUE, source |-> TRUE]

ParseHeader ==
  /\ parserPc = "header"
  /\ header' = IF file.network THEN ParseNetworkHeader(file.lines)
               ELSE ParseFileHeader(file.lines)
  /\ bufferPosition' = 1
  /\ parserPc' = CASE header'.verdict = "exit" -> "exit"
             [] header'.verdict = "valid" -> "data"
             [] OTHER -> "ERROR_HEADER"
  /\ UNCHANGED <<file, bufferSize, bufferUsedSize, dataBufferOffset, parser,
                 packetsList>>

-----------------------------------------------------------------------------
(* parseData calls aedat3GetPacket until the buffer is used up. Every      *)
(* action below is one call, named for how it ends.                        *)

Parsing == parserPc = "data" /\ bufferPosition < bufferUsedSize
IsAedat3 == header.version # "version20"

\* Where parsing goes on after what is to be skipped, and what is left there.
At   == bufferPosition + skipSize
Left == bufferUsedSize - At

\* n cells of the buffer from position at on.
Read(at, n) == SubSeq(file.cells, dataBufferOffset + at + 1,
                      dataBufferOffset + at + n)

Aedat2 ==
  /\ Parsing /\ ~IsAedat3
  /\ parserPc' = "ERROR_DATA"
  /\ UNCHANGED <<file, header, buffer, parser, packetsList>>

SkipBuffer ==
  /\ Parsing /\ IsAedat3
  /\ skipSize # 0 /\ skipSize >= bufferUsedSize - bufferPosition
  /\ skipSize' = skipSize - (bufferUsedSize - bufferPosition)
  /\ bufferPosition' = bufferUsedSize
  /\ UNCHANGED <<parserPc, file, header, bufferSize, bufferUsedSize, dataBufferOffset,
                 currPacketHeader, currPacketHeaderSize, current, packetsList>>

NeedHeader == currPacketHeaderSize # HeaderLength

\* The header is split: what there is goes to the start of currPacketHeader.
SplitHeader ==
  /\ Parsing /\ IsAedat3 /\ Left > 0
  /\ NeedHeader /\ Left < HeaderLength
  /\ currPacketHeader' = Write(currPacketHeader, 0, Read(At, Left))
  /\ currPacketHeaderSize' = Left
  /\ bufferPosition' = bufferUsedSize
  /\ skipSize' = 0
  /\ UNCHANGED <<parserPc, file, header, bufferSize, bufferUsedSize, dataBufferOffset,
                 current, packetsList>>

Missing == HeaderLength - currPacketHeaderSize

FullHeader == Write(currPacketHeader, currPacketHeaderSize, Read(At, Missing))

\* The packet that a header is of.
PacketOf(h) == h[1][2]

\* Size of a packet's data in the stream.
DataSize(k) == Len(file.wires[k].data)

CompleteHeader ==
  /\ Parsing /\ IsAedat3 /\ Left > 0
  /\ NeedHeader /\ Left >= HeaderLength
  /\ currPacketHeader' = FullHeader

SkipPacket ==
  /\ CompleteHeader
  /\ PacketAt(PacketOf(FullHeader)).source # "ours"
  /\ skipSize' = DataSize(PacketOf(FullHeader))
  /\ currPacketHeaderSize' = 0
  /\ bufferPosition' = At + Missing
  /\ UNCHANGED <<parserPc, file, header, bufferSize, bufferUsedSize, dataBufferOffset,
                 current, packetsList>>

\* The packet to fill: the current one, or the one whose header is complete.
Opened(k, at) ==
  [packet |-> k, mem |-> [i \in 1 .. Len(Memory(k)) |-> Junk], at |-> 0,
   left |-> DataSize(k),
   offset |-> IF file.network THEN 0 ELSE dataBufferOffset + at - HeaderLength]

Continues ==
  Parsing /\ IsAedat3 /\ Left > 0 /\ ~NeedHeader /\ UNCHANGED currPacketHeader
Opens ==
  CompleteHeader /\ PacketAt(PacketOf(FullHeader)).source = "ours"

DataAt == IF NeedHeader THEN At + Missing ELSE At
Filling == IF NeedHeader THEN Opened(PacketOf(FullHeader), DataAt) ELSE current

\* Mutant: a packet that ends with the buffer waits for the next one.
NeedsMoreAtEnd(left, n) == left >= n

\* Whether n cells of the buffer are too few for what is left of the packet.
NeedsMore(left, n) == left > n

\* All that the buffer has goes to the packet, which needs more.
MoreData ==
  /\ Continues \/ Opens
  /\ LET n == bufferUsedSize - DataAt IN
     /\ NeedsMore(Filling.left, n)
     /\ current' = [Filling EXCEPT !.mem = Write(@, Filling.at, Read(DataAt, n)),
                                   !.at = @ + n, !.left = @ - n]
  /\ currPacketHeaderSize' = HeaderLength
  /\ bufferPosition' = bufferUsedSize
  /\ skipSize' = 0
  /\ UNCHANGED <<parserPc, file, header, bufferSize, bufferUsedSize, dataBufferOffset,
                 packetsList>>

\* A packet whose data is complete is decompressed. The loop of
\* decompressFramePNG starts one past the last frame, with what the stack has
\* there: it may do no harm or end the program.
Plain(k, mem) ==
  LET p == PacketAt(k)  wire == file.wires[k] IN
  IF wire.compressed
    THEN Decompress(p.type, mem, Len(wire.data), Len(p.events), file.format)
    ELSE [ok |-> TRUE, mem |-> mem]

\* aedat30ChangeOrigin asks sshs for an attribute dvsSizeY, which the source
\* of an input module does not have: sshs ends the program.
MayExit(k) ==
  CASE header.version = "version30" /\ PacketAt(k).type = "polarity" -> {TRUE}
    [] file.wires[k].compressed /\ PacketAt(k).type = "frame" -> BOOLEAN
    [] OTHER -> {FALSE}

Turned(k, mem) ==
  IF header.version = "version30" /\ PacketAt(k).type = "frame"
    THEN MirrorRows(mem, Len(PacketAt(k).events)) ELSE mem

LastData ==
  /\ Continues \/ Opens
  /\ \E f \in {Filling} :
       /\ ~NeedsMore(f.left, bufferUsedSize - DataAt)
       /\ \E all \in {Write(f.mem, f.at, Read(DataAt, f.left))} :
          \E plain \in {Plain(f.packet, all)} :
          \E exit \in IF plain.ok THEN MayExit(f.packet) ELSE {FALSE} :
            /\ parserPc' = CASE exit -> "exit"
                       [] ~exit /\ ~plain.ok -> "ERROR_DATA"
                       [] OTHER -> "data"
            /\ packetsList' =
                 IF exit \/ ~plain.ok THEN packetsList
                 ELSE Append(packetsList,
                        [packet |-> f.packet, offset |-> f.offset,
                         mem |-> Turned(f.packet, plain.mem)])
       /\ bufferPosition' = DataAt + f.left
  /\ current' = NoPacket
  /\ currPacketHeaderSize' = 0
  /\ skipSize' = 0
  /\ UNCHANGED <<file, header, bufferSize, bufferUsedSize, dataBufferOffset>>

Done == parserPc \in Ends /\ UNCHANGED parserVars

ParserNext ==
  \/ GetBuffer \/ ReadError \/ BufferEnds \/ ParseHeader \/ Aedat2 \/ SkipBuffer
  \/ SplitHeader \/ SkipPacket \/ MoreData \/ LastData \/ Done

ParserSpec     == ParserInit /\ [][ParserNext]_parserVars
\* The thread runs (its mainloop takes containers, so the ring-buffer it puts
\* packets in has room again), and reads do not block for ever.
FairParserSpec == ParserSpec /\ WF_parserVars(ParserNext)

-----------------------------------------------------------------------------
(* Properties                                                              *)

\* The packets of the stream that are of this source, and those of them read.
Ours == {k \in DOMAIN file.packets : PacketAt(k).source = "ours"}
ReadPackets == {packetsList[i].packet : i \in DOMAIN packetsList}

\* Position of a packet in the stream: after the header and the packets before.
Position(k) == Len(StreamOf(file.lines, SubSeq(file.wires, 1, k - 1)))

\* What the reader has of a packet when the last of its data arrives: the data
\* of the stream at the start of the packet's memory.
Arrived(k) ==
  [i \in 1 .. Len(Memory(k)) |->
     IF i <= DataSize(k) THEN file.wires[k].data[i] ELSE Junk]

\* The codec's promise: what the output module makes of a packet fits the
\* packet's memory, and the input module restores the packet from it, whatever
\* runs of timestamps it has and whichever frames libpng could not make
\* smaller.
PacketsAreRestored ==
  \A k \in DOMAIN file.packets :
    /\ Len(Memory(k)) \in Nat /\ DataSize(k) \in 0 .. Len(Memory(k))
    /\ Plain(k, Arrived(k)) = [ok |-> TRUE, mem |-> Memory(k)]

\* The codec keeps its promise, and however the stream is split into buffers,
\* whatever packets of other sources lie between, and whether or not the writer
\* compressed them, the packets that are read are those of this source, from
\* the first on, in the stream's order, with every event as it was before
\* compression and with the place in the file that they are at; and no data of
\* the writer is rejected. (The rows of AEDAT 3.0 frames are another matter,
\* see MirrorRows.)
PacketsReadAreWritten ==
  /\ PacketsAreRestored
  /\ ReadPackets \subseteq Ours
  /\ \A i, j \in DOMAIN packetsList :
       i < j => packetsList[i].packet < packetsList[j].packet
  /\ \A r \in ReadPackets, k \in Ours : k < r => k \in ReadPackets
  /\ \A i \in DOMAIN packetsList :
       LET p == packetsList[i] IN
       /\ p.offset = IF file.network THEN 0 ELSE Position(p.packet)
       /\ \/ p.mem = Memory(p.packet)
          \/ header.version = "version30" /\ PacketAt(p.packet).type = "frame"
  /\ parserPc = "ERROR_DATA" => header.version = "version20"

\* At the end of the file every packet of this source has been read, but for
\* one: the last of the stream is lost if its header is split and less than a
\* header is left for the last buffer.
OnlyAShortTailIsLost ==
  parserPc = "EOF_REACHED" /\ header.verdict = "valid" =>
    \A k \in Ours \ ReadPackets :
      /\ k = Len(file.packets)
      /\ currPacketHeaderSize \in 1 .. HeaderLength - 1
      /\ DataSize(k) < currPacketHeaderSize
=============================================================================
