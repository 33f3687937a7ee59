--------------------------- MODULE InputAssembler ---------------------------
(***************************************************************************)
(* What the Assembler thread of an input module does with the packets it   *)
(* gets (modules/misc/in/input_common.c): it merges them by kind, and      *)
(* slices the merged packets by time and by number of events into          *)
(* containers. InputPipeline has the thread's place among the others; here *)
(* the ring-buffers are gone and a container that is put has left.         *)
(*                                                                         *)
(* An event is its 64 bit timestamp, tsOverflow * Wrap + timestamp; a      *)
(* packet holds events of one tsOverflow. A kind is an event type with an  *)
(* event size. Clients may change "PacketContainerInterval" (timeSlice)    *)
(* and "PacketContainerMaxPacketSize" (sizeSlice) at any moment, so every  *)
(* load of them yields any of their values.                                *)
(***************************************************************************)
EXTENDS Integers, Sequences, FiniteSetsExt, Functions

CONSTANTS
  Kinds,       \* kinds of packets
  Special,     \* the kind that carries timestamp resets
  Wrap,        \* 2^31, the timestamps of one overflow epoch
  MaxEpoch,    \* the source's overflow counter stays at most this
  TimeSlices,  \* values of timeSlice (1 .. 120 s)
  SizeSlices,  \* values of sizeSlice (1 .. 10 Mi)
  MaxEvents,   \* events of a packet the source sends
  MaxHeld      \* no packet is read while more events than this are held

ASSUME InputAssemblerAssumption ==
  /\ Special \in Kinds
  /\ Wrap \in Nat \ {0} /\ MaxEpoch \in Nat
  /\ TimeSlices \subseteq Nat \ {0} /\ TimeSlices # {}
  /\ SizeSlices \subseteq Nat \ {0} /\ SizeSlices # {}
  /\ MaxEvents \in Nat \ {0} /\ MaxHeld \in Nat

VARIABLES
  pc,                        \* see Places
  packet,                    \* currPacket
  eventPackets,              \* the merged packet of every kind
  lastPacketTimestamp,       \* first event of the last packet
  lastTimestampOverflow,     \* tsOverflow of the last packet
  sizeLimitHit,              \* a merged packet reached the size limit ...
  sizeLimitTimestamp,        \* ... at this time
  newContainerTimestampEnd,  \* last instant of the current time slice
  newContainerSizeLimit,     \* size limit of the next container
  container,                 \* packetContainer, by kind
  \* history
  unsent,                    \* accepted and not put yet, by kind
  latest,                    \* last accepted event, by kind
  horizon,                   \* latest event put on this timeline
  sliceStart                 \* first instant of the current time slice

limits == <<sizeLimitHit, sizeLimitTimestamp, newContainerTimestampEnd,
            newContainerSizeLimit>>
clock  == <<lastPacketTimestamp, lastTimestampOverflow>>
vars == <<pc, packet, eventPackets, clock, limits, container, unsent, latest,
          horizon, sliceStart>>

Places == {"get", "flush", "putAll", "reset", "add", "commit", "put"}

Int32Max == Wrap - 1
Times    == 0 .. (MaxEpoch + 1) * Wrap - 1
Epoch(t) == t \div Wrap

\* Packets of the source: at least one event, in order, of one epoch.
Packets ==
  UNION { { s \in [1 .. n -> Times] :
              /\ \A i, j \in 1 .. n : i <= j => s[i] <= s[j]
              /\ Epoch(s[1]) = Epoch(s[n]) } : n \in 1 .. MaxEvents }

\* Merged packets, and what is cut off them.
OneEpoch(s) ==
  s \in Seq(Times) /\ \A i \in 1 .. Len(s) : Epoch(s[i]) = Epoch(s[1])

Nothing  == [k \in Kinds |-> <<>>]
NoPacket == [kind |-> Special, events |-> <<>>, reset |-> FALSE]
Held     == MapThenSumSet(LAMBDA k : Len(eventPackets[k]), Kinds)

TypeOK ==
  /\ pc \in Places
  /\ packet \in [kind : Kinds, events : Seq(Times), reset : BOOLEAN]
  /\ \A k \in Kinds : OneEpoch(eventPackets[k]) /\ OneEpoch(container[k])
  /\ lastPacketTimestamp \in Times
  /\ lastTimestampOverflow \in 0 .. MaxEpoch
  /\ sizeLimitHit \in BOOLEAN
  /\ sizeLimitTimestamp \in 0 .. Int32Max
  /\ newContainerTimestampEnd \in Int
  /\ newContainerSizeLimit \in SizeSlices

Init ==
  /\ pc = "get"
  /\ packet = NoPacket
  /\ eventPackets = Nothing
  /\ lastPacketTimestamp = 0 /\ lastTimestampOverflow = 0
  /\ sizeLimitHit = FALSE /\ sizeLimitTimestamp = Int32Max
  /\ newContainerTimestampEnd = -1
  /\ newContainerSizeLimit \in SizeSlices
  /\ container = Nothing
  /\ unsent = Nothing /\ latest = [k \in Kinds |-> 0]
  /\ horizon = -1 /\ sliceStart = 0

-----------------------------------------------------------------------------
(* inputAssemblerThread: the next packet.                                  *)

\* Mutant: a new epoch does not flush what is held of the old one.
AcceptUnflushed(p) ==
  LET start == p.events[1] IN
  /\ lastPacketTimestamp' = start
  /\ IF newContainerTimestampEnd = -1
       THEN /\ \E timeSlice \in TimeSlices :
                 newContainerTimestampEnd' = start + timeSlice - 1
            /\ sliceStart' = start
       ELSE UNCHANGED <<newContainerTimestampEnd, sliceStart>>
  /\ lastTimestampOverflow' =
       IF Epoch(start) > lastTimestampOverflow THEN Epoch(start)
       ELSE lastTimestampOverflow
  /\ pc' = IF p.reset THEN "flush" ELSE "add"
  /\ packet' = p

\* getPacketInfo and what follows it, for a packet that starts no earlier than
\* the one before it; any other is discarded, which changes nothing. A reset
\* or a new epoch first flushes what is held.
Accept(p) ==
  LET start == p.events[1] IN
  /\ lastPacketTimestamp' = start
  /\ IF newContainerTimestampEnd = -1
       THEN /\ \E timeSlice \in TimeSlices :
                 newContainerTimestampEnd' = start + timeSlice - 1
            /\ sliceStart' = start
       ELSE UNCHANGED <<newContainerTimestampEnd, sliceStart>>
  /\ lastTimestampOverflow' =
       IF Epoch(start) > lastTimestampOverflow THEN Epoch(start)
       ELSE lastTimestampOverflow
  /\ pc' = IF p.reset \/ Epoch(start) > lastTimestampOverflow THEN "flush"
           ELSE "add"
  /\ packet' = p

\* "packets from the same source are guaranteed to have monotonic
\* timestamps" (1321-1323): an assumption on the source, for each kind.
GetPacket ==
  /\ pc = "get" /\ Held <= MaxHeld
  /\ \E k \in Kinds, s \in Packets :
       /\ s[1] >= latest[k] /\ s[1] >= lastPacketTimestamp
       /\ Accept([kind |-> k, events |-> s, reset |-> FALSE])
       /\ unsent' = [unsent EXCEPT ![k] = @ \o s]
       /\ latest' = [latest EXCEPT ![k] = s[Len(s)]]
  /\ UNCHANGED <<eventPackets, sizeLimitHit, sizeLimitTimestamp,
                 newContainerSizeLimit, container, horizon>>

\* A lone special event, with the largest timestamp of its epoch.
GetReset ==
  /\ pc = "get"
  /\ \E e \in 0 .. MaxEpoch :
       LET time == e * Wrap + Int32Max IN
       /\ time >= lastPacketTimestamp
       /\ Accept([kind |-> Special, events |-> <<time>>, reset |-> TRUE])
  /\ UNCHANGED <<eventPackets, sizeLimitHit, sizeLimitTimestamp,
                 newContainerSizeLimit, container, unsent, latest, horizon>>

\* updateSizeCommitCriteria for the packets of some kinds. A limit that the
\* time slice's end reaches first is none.
LimitTimes(packets, limit, end, kinds) ==
  { packets[k][limit] : k \in { i \in kinds : /\ Len(packets[i]) >= limit
                                              /\ packets[i][limit] < end } }

\* addToPacketContainer. caerEventPacketAppend refuses to merge packets of
\* different epochs, and the new one is discarded.
AddPacket ==
  /\ pc = "add"
  /\ LET k      == packet.kind
         merged == eventPackets[k] \o packet.events
         hits   == LimitTimes([eventPackets EXCEPT ![k] = merged],
                              newContainerSizeLimit,
                              newContainerTimestampEnd, {k})
     IN IF OneEpoch(merged)
          THEN /\ eventPackets' = [eventPackets EXCEPT ![k] = merged]
               /\ sizeLimitHit' = (sizeLimitHit \/ hits # {})
               /\ sizeLimitTimestamp' = Min({sizeLimitTimestamp} \cup hits)
               /\ pc' = "commit"
          ELSE /\ pc' = "get"
               /\ UNCHANGED <<eventPackets, sizeLimitHit, sizeLimitTimestamp>>
  /\ packet' = NoPacket
  /\ UNCHANGED <<clock, newContainerTimestampEnd, newContainerSizeLimit,
                 container, unsent, latest, horizon, sliceStart>>

-----------------------------------------------------------------------------
(* commitPacketContainer                                                   *)

SizeCommit == sizeLimitHit /\ lastPacketTimestamp > sizeLimitTimestamp
TimeCommit == lastPacketTimestamp > newContainerTimestampEnd

\* With forceFlush: the whole of every packet.
Flush ==
  /\ pc = "flush"
  /\ container' = eventPackets
  /\ eventPackets' = Nothing
  /\ pc' = "putAll"
  /\ UNCHANGED <<packet, clock, limits, unsent, latest, horizon, sliceStart>>

\* Mutant: the size limit cuts by number only, not by time.
StaysByNumber(s, i) ==
  \/ sizeLimitHit /\ i > newContainerSizeLimit
  \/ s[i] > newContainerTimestampEnd

\* Events generatePacketContainer leaves for the next container.
Stays(s, i) ==
  \/ sizeLimitHit /\ (i > newContainerSizeLimit \/ s[i] > sizeLimitTimestamp)
  \/ s[i] > newContainerTimestampEnd

Cutoff(s) == Min({i \in 1 .. Len(s) : Stays(s, i)} \cup {Len(s) + 1})

\* Without: everything up to the first event that stays.
Generate ==
  /\ container' = [k \in Kinds |-> SubSeq(eventPackets[k], 1,
                                          Cutoff(eventPackets[k]) - 1)]
  /\ eventPackets' = [k \in Kinds |-> SubSeq(eventPackets[k],
                                             Cutoff(eventPackets[k]),
                                             Len(eventPackets[k]))]
  /\ pc' = "put"
  /\ UNCHANGED <<packet, clock, sizeLimitHit, sizeLimitTimestamp,
                 newContainerSizeLimit, unsent, latest, horizon>>

\* Mutant: a size commit ends the time slice as well.
CommitSizeAndTime ==
  /\ pc = "commit" /\ SizeCommit
  /\ Generate
  /\ \E timeSlice \in TimeSlices :
       newContainerTimestampEnd' = newContainerTimestampEnd + timeSlice
  /\ sliceStart' = newContainerTimestampEnd + 1

\* The size limit strikes within the time slice, which goes on ...
CommitSize ==
  /\ pc = "commit" /\ SizeCommit
  /\ Generate
  /\ UNCHANGED <<newContainerTimestampEnd, sliceStart>>

\* Mutant: a time commit leaves the time slice as it is.
CommitTimeAgain ==
  /\ pc = "commit" /\ TimeCommit /\ ~SizeCommit
  /\ Generate
  /\ UNCHANGED <<newContainerTimestampEnd, sliceStart>>

\* ... or the time slice ends.
CommitTime ==
  /\ pc = "commit" /\ TimeCommit /\ ~SizeCommit
  /\ Generate
  /\ \E timeSlice \in TimeSlices :
       newContainerTimestampEnd' = newContainerTimestampEnd + timeSlice
  /\ sliceStart' = newContainerTimestampEnd + 1

EndCommit ==
  /\ pc = "commit" /\ ~SizeCommit /\ ~TimeCommit
  /\ pc' = "get"
  /\ UNCHANGED <<packet, eventPackets, clock, limits, container, unsent,
                 latest, horizon, sliceStart>>

\* doPacketContainerCommit: the container leaves.
Leave ==
  /\ unsent' = [k \in Kinds |-> SubSeq(unsent[k], Len(container[k]) + 1,
                                       Len(unsent[k]))]
  /\ horizon' = Max({horizon} \cup UNION { Range(container[k]) : k \in Kinds })
  /\ container' = Nothing

PutAll ==
  /\ pc = "putAll"
  /\ Leave
  /\ newContainerSizeLimit' \in SizeSlices
  /\ sizeLimitHit' = FALSE /\ sizeLimitTimestamp' = Int32Max
  /\ pc' = IF packet.reset THEN "reset" ELSE "add"
  /\ UNCHANGED <<packet, eventPackets, clock, newContainerTimestampEnd,
                 latest, sliceStart>>

\* The rest is looked through for size limits, and the commit redone.
Put ==
  /\ pc = "put"
  /\ Leave
  /\ \E sizeSlice \in SizeSlices :
       LET hits == LimitTimes(eventPackets, sizeSlice,
                              newContainerTimestampEnd, Kinds)
       IN /\ newContainerSizeLimit' = sizeSlice
          /\ sizeLimitHit' = (hits # {})
          /\ sizeLimitTimestamp' = Min({Int32Max} \cup hits)
  /\ pc' = "commit"
  /\ UNCHANGED <<packet, eventPackets, clock, newContainerTimestampEnd,
                 latest, sliceStart>>

\* handleTSReset, after its flush: the reset goes out by itself and a new
\* timeline begins. Nothing of the old one is to be sent any more.
SendReset ==
  /\ pc = "reset"
  /\ lastPacketTimestamp' = 0 /\ lastTimestampOverflow' = 0
  /\ newContainerTimestampEnd' = -1
  /\ packet' = NoPacket
  /\ pc' = "get"
  /\ unsent' = Nothing /\ latest' = [k \in Kinds |-> 0]
  /\ horizon' = -1 /\ sliceStart' = 0
  /\ UNCHANGED <<eventPackets, sizeLimitHit, sizeLimitTimestamp,
                 newContainerSizeLimit, container>>

-----------------------------------------------------------------------------
Step ==
  \/ AddPacket \/ Flush \/ CommitSize \/ CommitTime \/ EndCommit
  \/ PutAll \/ Put \/ SendReset

Next == GetPacket \/ GetReset \/ Step

Spec == Init /\ [][Next]_vars

\* The thread runs; whether the source sends another packet is its affair.
FairSpec == Spec /\ WF_vars(Step)

-----------------------------------------------------------------------------
(* Safety                                                                  *)

\* The events of a kind that are on their way, oldest first.
Underway(k) ==
  container[k] \o eventPackets[k]
    \o (IF packet.kind = k /\ ~packet.reset THEN packet.events ELSE <<>>)

\* Merging, slicing and flushing keep every accepted event, once and in the
\* order of its kind, until it leaves in a container; a timestamp reset
\* leaves none of the old timeline behind.
EventsAreKept == \A k \in Kinds : Underway(k) = unsent[k]

\* An event never leaves after a later one, of whatever kind: a container
\* ends where everything that is held, or may still come, begins.
ContainersInTimeOrder ==
  \A k \in Kinds : \A i \in 1 .. Len(unsent[k]) : unsent[k][i] >= horizon

\* input_common.c:1869-1870 "each sent EventPacketContainer will span this
\* interval" and 1866-1868 "Maximum packet size in events": what a commit
\* slices off belongs to one time slice and keeps the size limit, save for
\* events of the very last instant of the time slice (the limit at line 1280
\* is refused when its event is not before the end).
SlicesKeepLimits ==
  [][pc = "commit" /\ pc' = "put" =>
       \A k \in Kinds :
         /\ Range(container'[k]) \subseteq sliceStart .. newContainerTimestampEnd
         /\ \/ Len(container'[k]) <= newContainerSizeLimit
            \/ container'[k][newContainerSizeLimit]
                 = newContainerTimestampEnd]_vars

-----------------------------------------------------------------------------
(* Liveness                                                                *)

\* The loop that commits again and again ends, in the first 2^31 us of a
\* timeline.
CommitEndsInFirstEpoch ==
  pc = "commit" /\ lastTimestampOverflow = 0 ~> pc = "get"
=============================================================================
