---------------------------- MODULE PacketCodec -----------------------------
(***************************************************************************)
(* The two compressions of packets in AEDAT 3.1 streams: what an output    *)
(* module does to a packet in its own memory (compressEventPacket,         *)
(* modules/misc/out/output_common.c), and how an input module undoes it in *)
(* the memory of the packet it reads (decompressEventPacket,               *)
(* modules/misc/in/input_common.c).                                        *)
(*                                                                         *)
(* The data part of a packet is a sequence of cells; offsets into it count *)
(* from 0, as in the code. An event is a data and a timestamp cell; so     *)
(* eventTSOffset is 1. A frame event is a header cell, one cell per row of *)
(* pixels, and zeros up to FrameSize. A PNG block is some cells that stand *)
(* for the rows; libpng decides how many.                                  *)
(***************************************************************************)
EXTENDS Integers, Sequences, SequencesExt

CONSTANT FrameSize   \* cells of a frame event in memory (eventSize)

ASSUME PacketCodecAssumption == FrameSize \in Nat \ {0}

EventSize == 2

Data(packet, event)        == <<"data", packet, event>>
Timestamp(t, marked)       == <<"ts", t, marked>>
Frame(frame, rows, marked) == <<"frame", frame, rows, marked>>
Row(frame, left, right)    == <<"row", frame, left, right>>
Zero                       == <<"zero">>
Length(n)                  == <<"length", n>>
PNG(rows, cell)            == <<"png", rows, cell>>

Counting(n) == [i \in 1 .. n |-> i]

\* The memory with s copied to offset to.
Write(mem, to, s) ==
  SubSeq(mem, 1, to) \o s \o SubSeq(mem, to + Len(s) + 1, Len(mem))

\* memmove(mem + to, mem + from, n)
Move(mem, to, from, n) == Write(mem, to, SubSeq(mem, from + 1, from + n))

-----------------------------------------------------------------------------
(* The packet in memory. Its events are timestamps, and for frames pairs   *)
(* of a number of rows and the size of the block that libpng makes of them *)
(* (0: it fails).                                                          *)

Cells(k, type, events) ==
  FlattenSeq([i \in 1 .. Len(events) |->
    IF type = "frame"
      THEN <<Frame(<<k, i>>, events[i][1], FALSE)>> \o
           [j \in 1 .. FrameSize - 1 |->
              IF j <= events[i][1] THEN Row(<<k, i>>, j, j) ELSE Zero]
      ELSE <<Data(k, i), Timestamp(events[i], FALSE)>>])

-----------------------------------------------------------------------------
(* compressTimestampSerialize: in c, mem is the packet, at the offset of   *)
(* what comes next in the compressed packet, and run the number of events  *)
(* before event i that carry lastTS.                                       *)

SerializeRun(c, i) ==
  LET first  == 2 * (i - c.run)
      more   == c.run - 2
      marked == [c.mem EXCEPT ![first + 2] = Timestamp(@[2], TRUE),
                              ![first + 4] = Timestamp(more, FALSE)]
      two    == IF c.move THEN Move(marked, c.at, first, 4) ELSE marked
      MoveData(mem, j) == Move(mem, c.at + 3 + j, first + 2 + 2 * j, 1)
  IN  [c EXCEPT !.mem = FoldLeft(MoveData, two, Counting(more)),
                !.at = @ + 4 + more, !.move = TRUE]

KeepRun(c, i) ==
  [c EXCEPT !.mem = IF c.move THEN Move(@, c.at, 2 * (i - c.run), 2 * c.run)
                    ELSE @,
            !.at = @ + 2 * c.run]

SerializeTimestamps(packet) ==
  LET n == Len(packet) \div EventSize
      TS(i) == packet[2 * i + 2][2]
      Visit(c, j) ==
        LET i == j - 1 IN
        IF i < n /\ TS(i) = c.lastTS THEN [c EXCEPT !.run = @ + 1]
        ELSE [(IF c.run >= 3 THEN SerializeRun(c, i) ELSE KeepRun(c, i))
                EXCEPT !.run = 1,
                       !.lastTS = IF i < n THEN TS(i) ELSE @]
  IN  FoldLeft(Visit,
        [mem |-> packet, at |-> 0, lastTS |-> -1, run |-> 0, move |-> FALSE],
        Counting(n + 1))

\* Mutant: the second event keeps the length of the run as its timestamp.
RestoreRunButSecond(mem, o, time, more) ==
  <<mem[o + 1], time, mem[o + 3], mem[o + 4]>> \o
  FlattenSeq([j \in 1 .. more |-> <<mem[o + 4 + j], time>>])

\* Two whole events, and the data of some more.
RestoreRun(mem, o, time, more) ==
  <<mem[o + 1], time, mem[o + 3], time>> \o
  FlattenSeq([j \in 1 .. more |-> <<mem[o + 4 + j], time>>])

\* decompressTimestampSerialize, from offset o on.
RestoreTimestamps(mem, size, number) ==
  LET Recover[o \in Nat] ==
        IF o >= size THEN [end |-> o, events |-> <<>>]
        ELSE LET marked == mem[o + 2][3]
                 time   == Timestamp(mem[o + 2][2], FALSE)
                 more   == IF marked THEN mem[o + 4][2] ELSE 0
                 group  == IF marked THEN RestoreRun(mem, o, time, more)
                                     ELSE <<mem[o + 1], mem[o + 2]>>
                 rest == Recover[o + (IF marked THEN 4 + more ELSE 2)]
             IN  [end |-> rest.end, events |-> group \o rest.events]
      all == Recover[0]
  IN  [ok  |-> all.end = size /\ Len(all.events) = EventSize * number,
       mem |-> all.events]

-----------------------------------------------------------------------------
(* compressFramePNG: frames are moved together, and their rows replaced by *)
(* a PNG block where that is smaller.                                      *)

CompressFrames(packet, pngs) ==
  LET Visit(c, i) ==
        LET from == (i - 1) * FrameSize
            rows == c.mem[from + 1][3]
            image == SubSeq(c.mem, from + 2, from + 1 + rows)
        IN  IF pngs[i] = 0 \/ pngs[i] + 1 >= rows
              THEN [mem |-> Move(c.mem, c.at, from, 1 + rows),
                    at  |-> c.at + 1 + rows]
              ELSE [mem |-> Write(c.mem, c.at,
                              <<Frame(c.mem[from + 1][2], rows, TRUE),
                                Length(pngs[i])>> \o
                              [j \in 1 .. pngs[i] |-> PNG(image, j)]),
                    at  |-> c.at + 2 + pngs[i]]
  IN  FoldLeft(Visit, [mem |-> packet, at |-> 0], Counting(Len(pngs)))

\* Cells that the frame with the header at offset o takes in the stream.
BlockSize(mem, o) ==
  IF mem[o + 1][4] THEN 2 + mem[o + 2][2] ELSE 1 + mem[o + 1][3]

\* decompressFramePNG: last frame first, every frame is moved to its place
\* and its rows are restored there. (The code starts one past the last frame;
\* see MayExit in AedatReader.)
RestoreFrames(mem, size, number) ==
  LET Offset[i \in 0 .. number] ==
        IF i = 0 THEN 0 ELSE Offset[i - 1] + BlockSize(mem, Offset[i - 1])
      Place(m, j) ==
        LET i     == number - j
            block == SubSeq(m, Offset[i] + 1, Offset[i + 1])
            head  == block[1]
            rows  == IF head[4] THEN block[3][2] ELSE Tail(block)
        IN  Write(m, i * FrameSize,
              <<Frame(head[2], head[3], FALSE)>> \o rows \o
              [z \in 1 .. FrameSize - 1 - head[3] |-> Zero])
  IN  [ok  |-> Offset[number] = size,
       mem |-> FoldLeft(Place, mem, Counting(number))]

-----------------------------------------------------------------------------
(* compressEventPacket: the packet as it goes out, with the mark and the   *)
(* data size that its header gets if compression changed its size.         *)

Compress(type, packet, events, format) ==
  LET c == CASE "SerializedTS" \in format /\ type = "polarity" ->
                  SerializeTimestamps(packet)
             [] "PNGFrames" \in format /\ type = "frame" ->
                  CompressFrames(packet, [i \in DOMAIN events |-> events[i][2]])
             [] OTHER -> [mem |-> packet, at |-> Len(packet)]
  IN  [compressed |-> c.at # Len(packet), data |-> SubSeq(c.mem, 1, c.at)]

\* decompressEventPacket
Decompress(type, mem, size, number, format) ==
  CASE "SerializedTS" \in format /\ type = "polarity" ->
         RestoreTimestamps(mem, size, number)
    [] "PNGFrames" \in format /\ type = "frame" ->
         RestoreFrames(mem, size, number)
    [] OTHER -> [ok |-> FALSE, mem |-> mem]

\* aedat30ChangeOrigin, frames: from the first row on, half of the row at the
\* opposite end, as it is by then, is copied over the row (rowSize counts
\* pixels, memcpy bytes).
MirrorFrame(block) ==
  LET rows == block[1][3]
      Left[y \in 1 .. rows] ==
        IF rows + 1 - y < y THEN Left[rows + 1 - y]
                            ELSE block[1 + rows + 1 - y][3]
  IN  [o \in DOMAIN block |->
         IF o \in 2 .. rows + 1 THEN Row(block[o][2], Left[o - 1], block[o][4])
                                ELSE block[o]]

MirrorRows(mem, number) ==
  FlattenSeq([i \in 1 .. number |->
    MirrorFrame(SubSeq(mem, (i - 1) * FrameSize + 1, i * FrameSize))])
=============================================================================
