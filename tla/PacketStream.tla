---------------------------- MODULE PacketStream ----------------------------
(***************************************************************************)
(* What an input module promises to the mainloop: the packets of its       *)
(* source come out in the order they were read, each at most once, and     *)
(* none is lost while no stage is allowed to drop. InputPipeline, with its *)
(* three threads and two ring-buffers, implements this.                    *)
(***************************************************************************)
EXTENDS Naturals, Sequences

CONSTANT NumPackets  \* packets one run of the source holds

VARIABLES
  read,       \* packets read from the source so far
  inside,     \* packets between the source and the mainloop, oldest first
  delivered,  \* packets the mainloop has received, oldest first
  lossless    \* no stage may drop

streamVars == <<read, inside, delivered, lossless>>

StreamInit ==
  /\ read = 0 /\ inside = <<>> /\ delivered = <<>>
  /\ lossless \in BOOLEAN

\* The source yields some packets.
Read ==
  \E n \in 1 .. NumPackets - read :
    /\ read' = read + n
    /\ inside' = inside \o [i \in 1 .. n |-> read + i]
    /\ UNCHANGED <<delivered, lossless>>

\* The mainloop receives some packets, always the oldest ones.
Deliver ==
  \E k \in 1 .. Len(inside) :
    /\ delivered' = delivered \o SubSeq(inside, 1, k)
    /\ inside' = SubSeq(inside, k + 1, Len(inside))
    /\ UNCHANGED <<read, lossless>>

\* A full stage drops some consecutive packets.
Drop ==
  /\ ~lossless
  /\ \E i \in 1 .. Len(inside) : \E k \in i .. Len(inside) :
       inside' = SubSeq(inside, 1, i - 1) \o SubSeq(inside, k + 1, Len(inside))
  /\ UNCHANGED <<read, delivered, lossless>>

\* From now on stages may drop.
AllowDrops ==
  /\ lossless' = FALSE
  /\ UNCHANGED <<read, inside, delivered>>

\* The module is stopped; a new run of the source starts from nothing.
Restart ==
  /\ read' = 0 /\ inside' = <<>> /\ delivered' = <<>>
  /\ lossless' \in BOOLEAN

StreamNext == Read \/ Deliver \/ Drop \/ AllowDrops \/ Restart

StreamSpec == StreamInit /\ [][StreamNext]_streamVars
=============================================================================
