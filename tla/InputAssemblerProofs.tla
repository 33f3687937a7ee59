------------------------ MODULE InputAssemblerProofs ------------------------
(***************************************************************************)
(* What TLAPS proves about InputAssembler: merging and slicing keep every  *)
(* event, send the events in the order of time, and keep the limits of     *)
(* time and size, for all kinds, packets, intervals and limits; and types. *)
(***************************************************************************)
EXTENDS InputAssembler, SequenceTheorems, FiniteSetTheorems,
        WellFoundedInduction, TLAPS

-----------------------------------------------------------------------------
(* The inductive invariant.                                                *)

TypeInv ==
  /\ pc \in Places
  /\ packet.kind \in Kinds /\ packet.events \in Seq(Times)
  /\ packet.reset \in BOOLEAN
  /\ eventPackets \in [Kinds -> Seq(Times)]
  /\ container \in [Kinds -> Seq(Times)]
  /\ unsent \in [Kinds -> Seq(Times)]
  /\ latest \in [Kinds -> Times]
  /\ lastPacketTimestamp \in Times /\ lastTimestampOverflow \in Nat
  /\ sizeLimitHit \in BOOLEAN /\ sizeLimitTimestamp \in Nat
  /\ newContainerTimestampEnd \in Nat \cup {-1}
  /\ newContainerSizeLimit \in SizeSlices
  /\ horizon \in Int /\ sliceStart \in Nat

\* What there is at each place of the thread.
PlaceInv ==
  /\ pc \in {"get", "commit", "put"} => packet = NoPacket
  /\ pc \notin {"putAll", "put"} => container = Nothing
  /\ pc \in {"putAll", "reset"} => eventPackets = Nothing
  /\ pc = "add" => ~packet.reset
  /\ pc = "reset" => packet.reset /\ ~sizeLimitHit
  /\ newContainerTimestampEnd = -1 => pc = "get" /\ eventPackets = Nothing

\* Only a flush holds events of another epoch than the last packet's.
EpochInv ==
  /\ lastTimestampOverflow = Epoch(lastPacketTimestamp)
  /\ \A i \in 1 .. Len(packet.events) :
       /\ Epoch(packet.events[i]) = lastTimestampOverflow
       /\ packet.events[i] >= lastPacketTimestamp
  /\ pc # "flush" =>
       \A k \in Kinds : \A i \in 1 .. Len(eventPackets[k]) :
         Epoch(eventPackets[k][i]) = lastTimestampOverflow

\* Events of a kind are in order, and what comes next is no earlier than
\* what has left.
OrderInv ==
  /\ \A k \in Kinds : \A i \in 1 .. Len(unsent[k]) :
       /\ unsent[k][i] <= latest[k]
       /\ \A j \in i .. Len(unsent[k]) : unsent[k][i] <= unsent[k][j]
  /\ horizon <= lastPacketTimestamp
  /\ pc = "flush" =>
       \A k \in Kinds : \A i \in 1 .. Len(eventPackets[k]) :
         eventPackets[k][i] <= lastPacketTimestamp
  /\ \A k \in Kinds : \A i \in 1 .. Len(container[k]) :
       container[k][i] <= lastPacketTimestamp
  /\ \A k, l \in Kinds : \A i \in 1 .. Len(container[k]) :
       \A j \in 1 .. Len(eventPackets[l]) :
         container[k][i] <= eventPackets[l][j]

\* A merged packet as long as the limit was noticed, unless the time slice
\* ends first.
LimitInv ==
  /\ sizeLimitHit => sizeLimitTimestamp < newContainerTimestampEnd
  /\ pc \in {"get", "add", "commit"} =>
       \A k \in Kinds : Len(eventPackets[k]) >= newContainerSizeLimit =>
         LET time == eventPackets[k][newContainerSizeLimit]
         IN \/ time >= newContainerTimestampEnd
            \/ sizeLimitHit /\ time >= sizeLimitTimestamp

\* What is held belongs to the current time slice or a later one.
SliceInv ==
  /\ sliceStart <= lastPacketTimestamp
  /\ \A k \in Kinds : \A i \in 1 .. Len(eventPackets[k]) :
       eventPackets[k][i] >= sliceStart

IInv ==
  /\ TypeInv /\ PlaceInv /\ EpochInv /\ OrderInv /\ LimitInv /\ SliceInv
  /\ EventsAreKept /\ ContainersInTimeOrder
-----------------------------------------------------------------------------
(* Numbers and sequences.                                                  *)

\* Of the initial segments that end before a member, a smallest one ends
\* before the least member.
LEMMA LeastNatural ==
  ASSUME NEW S, S \subseteq Nat, S # {}
  PROVE  \E x \in S : \A y \in S : x <= y
<1> DEFINE Segments == {0 .. n - 1 : n \in S}
<1>1. \A n \in S : 0 .. n - 1 \in SUBSET Nat /\ IsFiniteSet(0 .. n - 1)
  BY FS_Interval
<1>2. Segments \subseteq FiniteSubsetsOf(Nat) /\ Segments # {}
  BY <1>1 DEF FiniteSubsetsOf
<1>3. PICK X \in Segments : \A Y \in Segments :
        <<Y, X>> \notin StrictSubsetOrdering(Nat)
  <2> HIDE DEF Segments
  <2> QED BY <1>2, FS_StrictSubsetOrderingWellFounded, WFMin
<1>4. PICK x \in S : X = 0 .. x - 1
  OBVIOUS
<1>5. ASSUME NEW y \in S PROVE x <= y
  <2> SUFFICES ASSUME y < x PROVE FALSE
    OBVIOUS
  <2> DEFINE Y == 0 .. y - 1
  <2>1. Y \in Segments OBVIOUS
  <2>2. y \in X /\ y \notin Y BY <1>4
  <2>3. Y \subseteq X /\ X \subseteq Nat
    <3>1. x \in Nat /\ y \in Nat OBVIOUS
    <3> HIDE DEF Segments
    <3> QED BY <1>4, <3>1
  <2>4. <<Y, X>> \in (SUBSET Nat) \X (SUBSET Nat) BY <2>3
  <2>5. <<Y, X>> \in StrictSubsetOrdering(Nat)
    <3> HIDE DEF Y
    <3> QED BY <2>2, <2>3, <2>4 DEF StrictSubsetOrdering
  <2> QED BY <1>3, <2>1, <2>5
<1> QED BY <1>5

\* What the community modules' Min and Max yield.
LEMMA LeastIsMin ==
  ASSUME NEW S, S \subseteq Nat, S # {}
  PROVE  Min(S) \in S /\ \A y \in S : Min(S) <= y
<1>1. PICK x \in S : \A y \in S : x <= y
  BY LeastNatural
<1> QED BY <1>1 DEF Min

LEMMA GreatestIsMax ==
  ASSUME NEW S, S \subseteq Int, S # {},
         NEW bound \in Int, \A x \in S : x <= bound
  PROVE  Max(S) \in S /\ \A y \in S : Max(S) >= y
<1> DEFINE gaps == {bound - x : x \in S}
<1>1. gaps \subseteq Nat /\ gaps # {}
  <2>1. \A x \in S : bound - x \in Nat OBVIOUS
  <2>2. PICK x \in S : TRUE OBVIOUS
  <2>3. bound - x \in gaps BY <2>2
  <2> QED BY <2>1, <2>3
<1>2. PICK gap \in gaps : \A y \in gaps : gap <= y
  <2> HIDE DEF gaps
  <2> QED BY <1>1, LeastNatural
<1>3. PICK x \in S : gap = bound - x
  OBVIOUS
<1>4. \A y \in S : x >= y
  BY <1>2, <1>3
<1> QED BY <1>4 DEF Max

LEMMA TimesAreNatural ==
  /\ Times \subseteq Nat /\ 0 \in Times
  /\ \A t \in Times : t \in Nat /\ t \in Int
  /\ Int32Max \in Nat
BY InputAssemblerAssumption DEF Times, Int32Max

\* Epochs follow each other.
LEMMA EpochsInOrder ==
  ASSUME NEW s \in Times, NEW t \in Times
  PROVE  /\ Epoch(s) \in Nat
         /\ s <= t => Epoch(s) <= Epoch(t)
BY InputAssemblerAssumption DEF Times, Epoch

\* A timestamp reset carries the last instant of its epoch.
LEMMA LastInstant ==
  ASSUME NEW e \in 0 .. MaxEpoch
  PROVE  LET time == e * Wrap + Int32Max
         IN  /\ time \in Times /\ Epoch(time) = e
             /\ \A t \in Times : Epoch(t) <= e => t <= time
BY InputAssemblerAssumption DEF Times, Epoch, Int32Max

\* A sequence and its two parts.
LEMMA PartsOfSeq ==
  ASSUME NEW S, NEW s \in Seq(S), NEW cut \in 1 .. Len(s) + 1
  PROVE  LET first == SubSeq(s, 1, cut - 1)
             rest  == SubSeq(s, cut, Len(s))
         IN  /\ first \in Seq(S) /\ Len(first) = cut - 1
             /\ \A i \in 1 .. Len(first) : first[i] = s[i]
             /\ rest \in Seq(S) /\ Len(rest) = Len(s) - cut + 1
             /\ \A i \in 1 .. Len(rest) : rest[i] = s[cut - 1 + i]
             /\ first \o rest = s
<1> DEFINE first == SubSeq(s, 1, cut - 1)
           rest  == SubSeq(s, cut, Len(s))
<1>1. Len(s) \in Nat /\ \A i \in 1 .. Len(s) : s[i] \in S
  BY LenProperties
<1>2. /\ first \in Seq(S) /\ Len(first) = cut - 1
      /\ \A i \in 1 .. Len(first) : first[i] = s[i]
  <2>1. \A i \in 1 .. cut - 1 : s[i] \in S BY <1>1
  <2> QED BY <1>1, <2>1, SubSeqProperties
<1>3. /\ rest \in Seq(S) /\ Len(rest) = Len(s) - cut + 1
      /\ \A i \in 1 .. Len(rest) : rest[i] = s[cut - 1 + i]
  <2>1. \A i \in cut .. Len(s) : s[i] \in S BY <1>1
  <2> QED BY <1>1, <2>1, SubSeqProperties
<1>4. first \o rest = s
  <2>1. PICK k \in Int : k = cut - 1 OBVIOUS
  <2>2. /\ 1 \in 1 .. Len(s) + 1 /\ k \in 1 - 1 .. Len(s)
        /\ Len(s) \in k .. Len(s)
    BY <1>1, <2>1
  <2>3. SubSeq(s, 1, k) \o SubSeq(s, k + 1, Len(s)) = SubSeq(s, 1, Len(s))
    BY <2>2, ConcatAdjacentSubSeq
  <2>4. SubSeq(s, 1, Len(s)) = s BY SubSeqFull
  <2>5. cut - 1 = k /\ cut = k + 1 BY <2>1
  <2> QED BY <2>3, <2>4, <2>5
<1> QED BY <1>2, <1>3, <1>4

LEMMA PartsOfConcat ==
  ASSUME NEW S, NEW s \in Seq(S), NEW t \in Seq(S)
  PROVE  /\ Len(s) \in Nat /\ Len(t) \in Nat
         /\ s \o t \in Seq(S) /\ Len(s \o t) = Len(s) + Len(t)
         /\ \A i \in 1 .. Len(s) : (s \o t)[i] = s[i]
         /\ \A i \in 1 .. Len(t) : (s \o t)[Len(s) + i] = t[i]
BY ConcatProperties, LenProperties

LEMMA BehindPrefix ==
  ASSUME NEW S, NEW s \in Seq(S), NEW t \in Seq(S)
  PROVE  SubSeq(s \o t, Len(s) + 1, Len(s \o t)) = t
<1> DEFINE st == s \o t
           rest == SubSeq(st, Len(s) + 1, Len(st))
<1>1. /\ st \in Seq(S) /\ Len(st) = Len(s) + Len(t)
      /\ \A i \in 1 .. Len(t) : st[Len(s) + i] = t[i]
      /\ Len(s) \in Nat /\ Len(t) \in Nat
  BY ConcatProperties, LenProperties
<1>2. Len(s) + 1 \in 1 .. Len(st) + 1 BY <1>1
<1>3. /\ rest \in Seq(S) /\ Len(rest) = Len(t)
      /\ \A i \in 1 .. Len(rest) : rest[i] = st[Len(s) + i]
  <2> HIDE DEF st
  <2> QED BY <1>1, <1>2, PartsOfSeq
<1> HIDE DEF rest, st
<1> QED BY <1>1, <1>3, SeqEqual DEF st, rest
-----------------------------------------------------------------------------
(* What is held.                                                           *)

Arriving(k) ==
  IF packet.kind = k /\ ~packet.reset THEN packet.events ELSE <<>>

LEMMA KeptByPart ==
  EventsAreKept <=>
    \A k \in Kinds :
      (container[k] \o eventPackets[k]) \o Arriving(k) = unsent[k]
BY DEF EventsAreKept, Underway, Arriving

LEMMA NothingIsEmpty ==
  /\ Nothing \in [Kinds -> Seq(Times)]
  /\ \A k \in Kinds : Nothing[k] = <<>> /\ Len(Nothing[k]) = 0
<1>1. <<>> \in Seq(Times) /\ Len(<<>>) = 0 BY EmptySeq
<1> QED BY <1>1 DEF Nothing

LEMMA NoPacketIsEmpty ==
  /\ NoPacket.kind \in Kinds /\ NoPacket.reset = FALSE
  /\ NoPacket.events = <<>> /\ NoPacket.events \in Seq(Times)
  /\ Len(NoPacket.events) = 0
<1>1. <<>> \in Seq(Times) /\ Len(<<>>) = 0 BY EmptySeq
<1> QED BY <1>1, InputAssemblerAssumption DEF NoPacket

LEMMA ArrivingIsSeq ==
  ASSUME TypeInv, NEW k \in Kinds
  PROVE  Arriving(k) \in Seq(Times)
BY EmptySeq DEF TypeInv, Arriving

\* Between containers, what is held of a kind starts its unsent events.
LEMMA HeldIsUnsent ==
  ASSUME TypeInv, EventsAreKept, container = Nothing, NEW k \in Kinds
  PROVE  /\ unsent[k] = eventPackets[k] \o Arriving(k)
         /\ Len(eventPackets[k]) \in Nat
         /\ Len(unsent[k]) = Len(eventPackets[k]) + Len(Arriving(k))
         /\ Len(Arriving(k)) \in Nat
         /\ \A i \in 1 .. Len(eventPackets[k]) :
              /\ unsent[k][i] = eventPackets[k][i]
              /\ eventPackets[k][i] \in Times
<1>1. eventPackets[k] \in Seq(Times) /\ Arriving(k) \in Seq(Times)
  BY ArrivingIsSeq DEF TypeInv
<1>2. <<>> \o eventPackets[k] = eventPackets[k]
  BY <1>1, ConcatEmptySeq
<1>3. unsent[k] = eventPackets[k] \o Arriving(k)
  <2>1. (container[k] \o eventPackets[k]) \o Arriving(k) = unsent[k]
    BY KeptByPart
  <2>2. container[k] = <<>> BY NothingIsEmpty
  <2> QED BY <1>2, <2>1, <2>2
<1>4. Len(eventPackets[k]) \in Nat /\ Len(Arriving(k)) \in Nat
  BY <1>1, LenProperties
<1>5. \A i \in 1 .. Len(eventPackets[k]) : eventPackets[k][i] \in Times
  BY <1>1, ElementOfSeq
<1> QED BY <1>1, <1>3, <1>4, <1>5, ConcatProperties

\* It is in order, and no earlier than what has left.
LEMMA HeldInOrder ==
  ASSUME IInv, container = Nothing, NEW k \in Kinds,
         NEW i \in 1 .. Len(eventPackets[k])
  PROVE  /\ eventPackets[k][i] \in Times
         /\ horizon <= eventPackets[k][i]
         /\ eventPackets[k][i] <= latest[k]
         /\ \A j \in i .. Len(eventPackets[k]) :
              eventPackets[k][i] <= eventPackets[k][j]
<1>1. /\ Len(eventPackets[k]) \in Nat /\ Len(Arriving(k)) \in Nat
      /\ Len(unsent[k]) = Len(eventPackets[k]) + Len(Arriving(k))
      /\ \A m \in 1 .. Len(eventPackets[k]) :
           /\ unsent[k][m] = eventPackets[k][m]
           /\ eventPackets[k][m] \in Times
  BY HeldIsUnsent DEF IInv
<1>2. \A j \in i .. Len(eventPackets[k]) :
        j \in i .. Len(unsent[k]) /\ j \in 1 .. Len(eventPackets[k])
  BY <1>1
<1>3. i \in 1 .. Len(unsent[k]) BY <1>1
<1>4. /\ unsent[k][i] <= latest[k] /\ unsent[k][i] >= horizon
      /\ \A j \in i .. Len(unsent[k]) : unsent[k][i] <= unsent[k][j]
  BY <1>3 DEF IInv, OrderInv, ContainersInTimeOrder
<1>5. horizon \in Int BY DEF IInv, TypeInv
<1>6. eventPackets[k][i] \in Times BY <1>1
<1>7. eventPackets[k][i] \in Int BY <1>6, TimesAreNatural
<1> QED BY <1>1, <1>2, <1>4, <1>5, <1>6, <1>7

LEMMA InitEstablishes == Init => IInv
<1> SUFFICES ASSUME Init PROVE IInv
  OBVIOUS
<1> USE DEF Init
<1>1. TypeInv
  <2>1. latest \in [Kinds -> Times] /\ lastPacketTimestamp \in Times
    BY TimesAreNatural
  <2>2. sizeLimitTimestamp \in Nat BY TimesAreNatural
  <2>3. pc \in Places BY DEF Places
  <2>4. /\ packet.kind \in Kinds /\ packet.events \in Seq(Times)
        /\ packet.reset \in BOOLEAN
    BY NoPacketIsEmpty
  <2>5. /\ eventPackets \in [Kinds -> Seq(Times)]
        /\ container \in [Kinds -> Seq(Times)]
        /\ unsent \in [Kinds -> Seq(Times)]
    BY NothingIsEmpty
  <2>6. /\ lastTimestampOverflow \in Nat /\ newContainerTimestampEnd \in Nat \cup {-1}
        /\ horizon \in Int /\ sliceStart \in Nat
    OBVIOUS
  <2> HIDE DEF Init
  <2>7. sizeLimitHit \in BOOLEAN /\ newContainerSizeLimit \in SizeSlices
    BY DEF Init
  <2> QED BY <2>1, <2>2, <2>3, <2>4, <2>5, <2>6, <2>7 DEF TypeInv
<1>2. PlaceInv BY DEF PlaceInv
<1>3. EpochInv
  <2>1. Epoch(0) = 0 BY InputAssemblerAssumption DEF Epoch
  <2> QED BY <2>1, NothingIsEmpty, NoPacketIsEmpty DEF EpochInv
<1>4. OrderInv BY NothingIsEmpty DEF OrderInv
<1>5. LimitInv
  <2>1. newContainerSizeLimit \in Nat \ {0} BY InputAssemblerAssumption
  <2>2. \A k \in Kinds : ~ Len(eventPackets[k]) >= newContainerSizeLimit
    BY <2>1, NothingIsEmpty
  <2> QED BY <2>2 DEF LimitInv
<1>6. SliceInv BY NothingIsEmpty DEF SliceInv
<1>7. EventsAreKept
  <2>1. ASSUME NEW k \in Kinds
        PROVE  (container[k] \o eventPackets[k]) \o Arriving(k) = unsent[k]
    <3>1. <<>> \in Seq(Times) BY EmptySeq
    <3>2. <<>> \o <<>> = <<>> BY <3>1, ConcatEmptySeq
    <3> QED BY <3>2, NothingIsEmpty, NoPacketIsEmpty DEF Arriving
  <2> QED BY <2>1, KeptByPart
<1>8. ContainersInTimeOrder BY NothingIsEmpty DEF ContainersInTimeOrder
<1> QED BY <1>1, <1>2, <1>3, <1>4, <1>5, <1>6, <1>7, <1>8 DEF IInv
-----------------------------------------------------------------------------
(* The next packet.                                                        *)

\* What the source sends: one epoch, in order.
SourcePacket(p) ==
  /\ p.kind \in Kinds /\ p.events \in Seq(Times) /\ p.reset \in BOOLEAN
  /\ Len(p.events) >= 1
  /\ \A i \in 1 .. Len(p.events) :
       /\ p.events[1] <= p.events[i]
       /\ Epoch(p.events[i]) = Epoch(p.events[1])
  /\ p.reset => \A t \in Times : Epoch(t) <= Epoch(p.events[1]) =>
                                 t <= p.events[1]

\* It gets to its place, whatever is noted of its events.
LEMMA AcceptStep ==
  ASSUME IInv, pc = "get", NEW p, SourcePacket(p), Accept(p),
         p.events[1] >= lastPacketTimestamp,
         UNCHANGED <<eventPackets, sizeLimitHit, sizeLimitTimestamp,
                     newContainerSizeLimit, container, horizon>>,
         unsent' \in [Kinds -> Seq(Times)], latest' \in [Kinds -> Times]
  PROVE  /\ TypeInv' /\ PlaceInv' /\ EpochInv' /\ LimitInv' /\ SliceInv'
         /\ horizon' <= lastPacketTimestamp'
         /\ pc' = "flush" =>
              \A k \in Kinds : \A i \in 1 .. Len(eventPackets'[k]) :
                eventPackets'[k][i] <= lastPacketTimestamp'
<1> DEFINE start == p.events[1]
<1>1. /\ TypeInv /\ PlaceInv /\ EpochInv /\ OrderInv /\ LimitInv /\ SliceInv
      /\ container = Nothing
  BY DEF IInv, PlaceInv
<1>2. /\ start \in Times /\ start \in Nat /\ Len(p.events) \in Nat
      /\ lastPacketTimestamp \in Times /\ lastPacketTimestamp \in Nat
  <2>1. p.events \in Seq(Times) /\ Len(p.events) >= 1 BY DEF SourcePacket
  <2>2. Len(p.events) \in Nat BY <2>1, LenProperties
  <2>3. 1 \in 1 .. Len(p.events) BY <2>1, <2>2
  <2>4. start \in Times BY <2>1, <2>3, ElementOfSeq
  <2>5. lastPacketTimestamp \in Times BY <1>1 DEF TypeInv
  <2> QED BY <2>2, <2>4, <2>5, TimesAreNatural
<1>3. /\ packet' = p /\ lastPacketTimestamp' = start
      /\ lastTimestampOverflow' =
           IF Epoch(start) > lastTimestampOverflow THEN Epoch(start)
           ELSE lastTimestampOverflow
      /\ pc' = IF p.reset \/ Epoch(start) > lastTimestampOverflow
               THEN "flush" ELSE "add"
      /\ \/ /\ newContainerTimestampEnd = -1
            /\ sliceStart' = start
            /\ \E timeSlice \in TimeSlices :
                 newContainerTimestampEnd' = start + timeSlice - 1
         \/ /\ newContainerTimestampEnd # -1
            /\ UNCHANGED <<newContainerTimestampEnd, sliceStart>>
  BY DEF Accept
<1>4. /\ lastTimestampOverflow = Epoch(lastPacketTimestamp)
      /\ Epoch(lastPacketTimestamp) \in Nat /\ Epoch(start) \in Nat
      /\ Epoch(lastPacketTimestamp) <= Epoch(start)
  <2> HIDE DEF start
  <2>1. lastPacketTimestamp <= start BY DEF start
  <2> QED BY <1>1, <1>2, <2>1, EpochsInOrder DEF EpochInv
<1>5. lastTimestampOverflow' = Epoch(start)
  BY <1>3, <1>4
<1>6. /\ newContainerTimestampEnd' \in Nat
      /\ sliceStart' \in Nat /\ sliceStart' <= start
      /\ newContainerTimestampEnd # newContainerTimestampEnd'
            \/ sliceStart # sliceStart' => eventPackets = Nothing
      /\ newContainerTimestampEnd <= newContainerTimestampEnd'
  <2> HIDE DEF start
  <2>1. start >= lastPacketTimestamp BY DEF start
  <2>2. CASE newContainerTimestampEnd = -1
    <3>1. PICK timeSlice \in TimeSlices :
            newContainerTimestampEnd' = start + timeSlice - 1
      BY <1>3, <2>2
    <3>2. timeSlice \in Nat \ {0} BY InputAssemblerAssumption
    <3>3. eventPackets = Nothing BY <1>1, <2>2 DEF PlaceInv
    <3>4. sliceStart' = start BY <1>3, <2>2
    <3> QED BY <1>2, <2>2, <3>1, <3>2, <3>3, <3>4
  <2>3. CASE newContainerTimestampEnd # -1
    <3>1. UNCHANGED <<newContainerTimestampEnd, sliceStart>> BY <1>3, <2>3
    <3>2. newContainerTimestampEnd \in Nat /\ sliceStart \in Nat
      BY <1>1, <2>3 DEF TypeInv
    <3>3. sliceStart <= lastPacketTimestamp BY <1>1 DEF SliceInv
    <3> QED BY <1>2, <2>1, <3>1, <3>2, <3>3
  <2> QED BY <2>2, <2>3
<1>7. TypeInv'
  <2>1. pc' \in Places BY <1>3 DEF Places
  <2>2. /\ packet'.kind \in Kinds /\ packet'.events \in Seq(Times)
        /\ packet'.reset \in BOOLEAN
    BY <1>3 DEF SourcePacket
  <2>3. lastPacketTimestamp' \in Times /\ lastTimestampOverflow' \in Nat
    BY <1>2, <1>3, <1>4, <1>5
  <2> QED BY <1>1, <1>6, <2>1, <2>2, <2>3 DEF TypeInv
<1>8. PlaceInv'
  BY <1>1, <1>3, <1>6 DEF PlaceInv
<1>9. EpochInv'
  <2>1. /\ lastTimestampOverflow' = Epoch(lastPacketTimestamp')
        /\ packet' = p /\ lastPacketTimestamp' = start
    BY <1>3, <1>5
  <2>2. ASSUME NEW i \in 1 .. Len(p.events)
        PROVE  /\ Epoch(p.events[i]) = lastTimestampOverflow'
               /\ p.events[i] >= start
    <3>1. start <= p.events[i] /\ Epoch(p.events[i]) = Epoch(start)
      BY DEF SourcePacket
    <3>2. p.events[i] \in Int
      BY ElementOfSeq, TimesAreNatural DEF SourcePacket
    <3> QED BY <1>2, <1>5, <3>1, <3>2
  <2>3. ASSUME pc' # "flush", NEW k \in Kinds,
               NEW i \in 1 .. Len(eventPackets[k])
        PROVE  Epoch(eventPackets[k][i]) = lastTimestampOverflow'
    <3>1. Epoch(start) = lastTimestampOverflow
      BY <1>3, <1>4, <2>3
    <3> QED BY <1>1, <1>5, <2>3, <3>1 DEF EpochInv
  <2> QED BY <2>1, <2>2, <2>3 DEF EpochInv
<1>10. LimitInv'
  <2>1. newContainerSizeLimit \in Nat \ {0}
    BY <1>1, InputAssemblerAssumption DEF TypeInv
  <2>2. sizeLimitHit =>
          /\ sizeLimitTimestamp < newContainerTimestampEnd
          /\ sizeLimitTimestamp \in Nat
          /\ newContainerTimestampEnd \in Int
    BY <1>1 DEF LimitInv, TypeInv
  <2>3. CASE eventPackets = Nothing
    <3>1. \A k \in Kinds : ~ Len(eventPackets[k]) >= newContainerSizeLimit
      BY <2>1, <2>3, NothingIsEmpty
    <3>2. sizeLimitHit => sizeLimitTimestamp < newContainerTimestampEnd'
      BY <1>6, <2>2
    <3> QED BY <3>1, <3>2 DEF LimitInv
  <2>4. CASE newContainerTimestampEnd' = newContainerTimestampEnd
    BY <1>1, <2>4 DEF LimitInv
  <2> QED BY <1>6, <2>3, <2>4
<1>11. SliceInv'
  <2>1. CASE eventPackets = Nothing
    <3>1. \A k \in Kinds : Len(eventPackets[k]) = 0
      BY <2>1, NothingIsEmpty
    <3> QED BY <1>3, <1>6, <3>1 DEF SliceInv
  <2>2. CASE sliceStart' = sliceStart
    BY <1>1, <1>3, <1>6, <2>2 DEF SliceInv
  <2> QED BY <1>6, <2>1, <2>2
<1>12. horizon' <= lastPacketTimestamp'
  <2>1. horizon \in Int /\ horizon <= lastPacketTimestamp
    BY <1>1 DEF TypeInv, OrderInv
  <2>2. start >= lastPacketTimestamp OBVIOUS
  <2> HIDE DEF start
  <2> QED BY <1>2, <1>3, <2>1, <2>2
<1>13. ASSUME pc' = "flush", NEW k \in Kinds,
              NEW i \in 1 .. Len(eventPackets'[k])
       PROVE  eventPackets'[k][i] <= lastPacketTimestamp'
  <2> DEFINE t == eventPackets[k][i]
  <2>1. t \in Times BY <1>1, ElementOfSeq DEF TypeInv
  <2>2. Epoch(t) = lastTimestampOverflow BY <1>1 DEF EpochInv
  <2>3. Epoch(t) <= Epoch(start) BY <1>4, <2>2
  <2>4. CASE p.reset
    BY <1>3, <2>1, <2>3, <2>4 DEF SourcePacket
  <2>5. CASE ~p.reset
    <3>1. Epoch(start) > Epoch(t) BY <1>3, <1>13, <2>2, <2>5
    <3> HIDE DEF start, t
    <3>2. start <= t => Epoch(start) <= Epoch(t)
      BY <1>2, <2>1, EpochsInOrder
    <3>3. t <= start
      BY <1>2, <1>4, <2>1, <2>2, <3>1, <3>2, TimesAreNatural
    <3> QED BY <1>3, <3>3 DEF t, start
  <2> QED BY <2>4, <2>5
<1> QED BY <1>7, <1>8, <1>9, <1>10, <1>11, <1>12, <1>13

\* A packet of the source joins the unsent events of its kind.
LEMMA SourceSeq ==
  ASSUME NEW s \in Packets
  PROVE  /\ s \in Seq(Times) /\ Len(s) \in Nat \ {0}
         /\ s[Len(s)] \in Times
         /\ \A i \in 1 .. Len(s) :
              /\ s[1] <= s[i] /\ s[i] <= s[Len(s)] /\ s[i] \in Times
              /\ Epoch(s[i]) = Epoch(s[1])
              /\ \A j \in i .. Len(s) : s[i] <= s[j]
<1>1. PICK n \in 1 .. MaxEvents :
        /\ s \in [1 .. n -> Times]
        /\ \A i, j \in 1 .. n : i <= j => s[i] <= s[j]
        /\ Epoch(s[1]) = Epoch(s[n])
  BY DEF Packets
<1>2. n \in Nat \ {0} BY InputAssemblerAssumption
<1>3. s \in Seq(Times) /\ Len(s) = n
  <2>1. s \in Seq(Times) BY <1>1, <1>2, SeqDef
  <2>2. DOMAIN s = 1 .. Len(s) /\ Len(s) \in Nat
    BY <2>1, LenProperties
  <2>3. DOMAIN s = 1 .. n BY <1>1
  <2>4. n \in 1 .. Len(s) /\ n + 1 \notin 1 .. Len(s)
    BY <1>2, <2>2, <2>3
  <2>5. \A m \in Nat : n \in 1 .. m /\ n + 1 \notin 1 .. m => m = n
    BY <1>2
  <2> QED BY <2>1, <2>2, <2>4, <2>5
<1>4. ASSUME NEW i \in 1 .. n
      PROVE  /\ s[1] <= s[i] /\ s[i] <= s[n] /\ s[i] \in Times
             /\ Epoch(s[i]) = Epoch(s[1])
             /\ \A j \in i .. n : s[i] <= s[j]
  <2>1. 1 \in 1 .. n /\ n \in 1 .. n BY <1>2
  <2>2. s[1] \in Times /\ s[i] \in Times /\ s[n] \in Times
    BY <1>1, <2>1
  <2>3. s[1] <= s[i] /\ s[i] <= s[n] BY <1>1, <1>2, <2>1
  <2>4. \A j \in i .. n : s[i] <= s[j] BY <1>1, <1>2
  <2>5. /\ Epoch(s[1]) <= Epoch(s[i]) /\ Epoch(s[i]) <= Epoch(s[n])
        /\ Epoch(s[1]) \in Nat /\ Epoch(s[i]) \in Nat
    BY <2>2, <2>3, EpochsInOrder
  <2> QED BY <1>1, <2>2, <2>3, <2>4, <2>5
<1>5. s[n] \in Times BY <1>1, <1>2
<1> QED BY <1>2, <1>3, <1>4, <1>5

LEMMA GetPacketStep == IInv /\ GetPacket => IInv'
<1> SUFFICES ASSUME IInv, GetPacket PROVE IInv'
  OBVIOUS
<1>1. PICK k \in Kinds, s \in Packets :
        /\ s[1] >= latest[k] /\ s[1] >= lastPacketTimestamp
        /\ Accept([kind |-> k, events |-> s, reset |-> FALSE])
        /\ unsent' = [unsent EXCEPT ![k] = @ \o s]
        /\ latest' = [latest EXCEPT ![k] = s[Len(s)]]
  BY DEF GetPacket
<1> DEFINE p == [kind |-> k, events |-> s, reset |-> FALSE]
<1>2. /\ pc = "get"
      /\ UNCHANGED <<eventPackets, sizeLimitHit, sizeLimitTimestamp,
                     newContainerSizeLimit, container, horizon>>
  BY DEF GetPacket
<1>3. /\ TypeInv /\ EventsAreKept /\ OrderInv /\ ContainersInTimeOrder
      /\ container = Nothing /\ packet = NoPacket
  BY <1>2 DEF IInv, PlaceInv
<1>4. p.kind = k /\ p.events = s /\ p.reset = FALSE
  OBVIOUS
<1>5. /\ unsent[k] \in Seq(Times) /\ Len(unsent[k]) \in Nat
      /\ latest[k] \in Nat
  BY <1>3, LenProperties, TimesAreNatural DEF TypeInv
<1> DEFINE u == unsent[k]
           v == u \o s
<1>6. /\ v \in Seq(Times) /\ Len(v) = Len(u) + Len(s)
      /\ \A i \in 1 .. Len(v) :
           v[i] = IF i <= Len(u) THEN u[i] ELSE s[i - Len(u)]
  <2>1. s \in Seq(Times) BY SourceSeq
  <2> QED BY <1>5, <2>1, ConcatProperties
<1>7. /\ DOMAIN unsent = Kinds /\ DOMAIN latest = Kinds
  BY <1>3 DEF TypeInv
<1>8. /\ unsent'[k] = v /\ latest'[k] = s[Len(s)]
      /\ \A l \in Kinds \ {k} : unsent'[l] = unsent[l] /\ latest'[l] = latest[l]
  BY <1>1, <1>7
<1>9. unsent' \in [Kinds -> Seq(Times)] /\ latest' \in [Kinds -> Times]
  <2>1. s[Len(s)] \in Times BY SourceSeq
  <2> QED BY <1>1, <1>3, <1>6, <2>1 DEF TypeInv
<1>10. SourcePacket(p)
  BY <1>4, SourceSeq DEF SourcePacket
<1>11. /\ TypeInv' /\ PlaceInv' /\ EpochInv' /\ LimitInv' /\ SliceInv'
       /\ horizon' <= lastPacketTimestamp'
       /\ pc' = "flush" =>
            \A l \in Kinds : \A i \in 1 .. Len(eventPackets'[l]) :
              eventPackets'[l][i] <= lastPacketTimestamp'
  <2> HIDE DEF p
  <2>1. Accept(p) /\ p.events[1] >= lastPacketTimestamp
    BY <1>1, <1>4 DEF p
  <2> QED BY <1>2, <1>9, <1>10, <2>1, AcceptStep
\* The new events are no earlier than all the others of their kind.
<1>12. ASSUME NEW i \in 1 .. Len(v)
       PROVE  /\ v[i] <= s[Len(s)] /\ v[i] >= horizon
              /\ \A j \in i .. Len(v) : v[i] <= v[j]
  <2>1. \A m \in 1 .. Len(u) :
          /\ u[m] \in Nat /\ u[m] <= latest[k] /\ u[m] >= horizon
          /\ \A j \in m .. Len(u) : u[m] <= u[j]
    BY <1>3, <1>5, ElementOfSeq, TimesAreNatural
       DEF OrderInv, ContainersInTimeOrder
  <2>2. /\ Len(s) \in Nat \ {0} /\ s[Len(s)] \in Nat /\ s[1] \in Nat
        /\ \A m \in 1 .. Len(s) :
             /\ s[m] \in Nat /\ s[1] <= s[m] /\ s[m] <= s[Len(s)]
             /\ \A j \in m .. Len(s) : s[m] <= s[j]
    <3>1. /\ Len(s) \in Nat \ {0} /\ s[Len(s)] \in Times
          /\ \A m \in 1 .. Len(s) :
               /\ s[m] \in Times /\ s[1] <= s[m] /\ s[m] <= s[Len(s)]
               /\ \A j \in m .. Len(s) : s[m] <= s[j]
      BY SourceSeq
    <3>2. 1 \in 1 .. Len(s) BY <3>1
    <3> QED BY <3>1, <3>2, TimesAreNatural
  <2>3. /\ horizon \in Int /\ lastPacketTimestamp \in Int
        /\ horizon <= lastPacketTimestamp
    BY <1>3, TimesAreNatural DEF TypeInv, OrderInv
  <2>4. latest[k] <= s[1] /\ horizon <= s[1]
    BY <1>1, <1>5, <2>2, <2>3
  <2> HIDE DEF u, v
  <2>5. latest[k] \in Nat /\ Len(u) \in Nat BY <1>5 DEF u
  <2>6. CASE i <= Len(u)
    <3>1. v[i] = u[i] /\ i \in 1 .. Len(u) BY <1>6, <2>5, <2>6
    <3>2. u[i] \in Nat /\ u[i] <= latest[k] /\ u[i] >= horizon
      BY <2>1, <3>1
    <3>3. u[i] <= s[1] /\ s[1] <= s[Len(s)]
      BY <2>2, <2>4, <2>5, <3>2
    <3>4. ASSUME NEW j \in i .. Len(v) PROVE u[i] <= v[j]
      <4>1. CASE j <= Len(u)
        <5>1. v[j] = u[j] /\ j \in i .. Len(u) BY <1>6, <2>5, <4>1
        <5> QED BY <2>1, <3>1, <5>1
      <4>2. CASE ~ j <= Len(u)
        <5>1. v[j] = s[j - Len(u)] /\ j - Len(u) \in 1 .. Len(s)
          BY <1>6, <2>2, <2>5, <4>2
        <5>2. s[1] <= v[j] /\ v[j] \in Nat BY <2>2, <5>1
        <5> QED BY <2>2, <3>2, <3>3, <5>2
      <4> QED BY <4>1, <4>2
    <3> QED BY <2>2, <3>1, <3>2, <3>3, <3>4
  <2>7. CASE ~ i <= Len(u)
    <3> DEFINE m == i - Len(u)
    <3>1. v[i] = s[m] /\ m \in 1 .. Len(s)
      BY <1>6, <2>2, <2>5, <2>7
    <3>2. s[m] \in Nat /\ s[1] <= s[m] /\ s[m] <= s[Len(s)]
      BY <2>2, <3>1
    <3>3. ASSUME NEW j \in i .. Len(v) PROVE s[m] <= v[j]
      <4>1. v[j] = s[j - Len(u)] /\ j - Len(u) \in m .. Len(s)
        BY <1>6, <2>2, <2>5, <2>7
      <4> HIDE DEF m
      <4> QED BY <2>2, <3>1, <4>1
    <3> HIDE DEF m
    <3> QED BY <2>2, <2>3, <2>4, <3>1, <3>2, <3>3
  <2> QED BY <2>6, <2>7
<1>13. OrderInv'
  <2>1. ASSUME NEW l \in Kinds, NEW i \in 1 .. Len(unsent'[l])
        PROVE  /\ unsent'[l][i] <= latest'[l]
               /\ \A j \in i .. Len(unsent'[l]) : unsent'[l][i] <= unsent'[l][j]
    <3>1. CASE l = k
      <4> HIDE DEF v
      <4> QED BY <1>8, <1>12, <3>1
    <3>2. CASE l # k
      BY <1>3, <1>8, <3>2 DEF OrderInv
    <3> QED BY <3>1, <3>2
  <2>2. container' = Nothing BY <1>2, <1>3
  <2> QED BY <1>11, <2>1, <2>2, NothingIsEmpty DEF OrderInv
<1>14. EventsAreKept'
  <2>1. ASSUME NEW l \in Kinds
        PROVE  (container'[l] \o eventPackets'[l]) \o Arriving(l)' = unsent'[l]
    <3>1. /\ container'[l] = <<>> /\ eventPackets'[l] = eventPackets[l]
          /\ eventPackets[l] \in Seq(Times)
      BY <1>2, <1>3, NothingIsEmpty DEF TypeInv
    <3>2. <<>> \o eventPackets[l] = eventPackets[l]
      BY <3>1, ConcatEmptySeq
    <3>3. Arriving(l) = <<>> /\ eventPackets[l] \o <<>> = eventPackets[l]
      BY <1>3, <3>1, NoPacketIsEmpty, ConcatEmptySeq DEF Arriving
    <3>4. unsent[l] = eventPackets[l]
      BY <1>3, <3>3, HeldIsUnsent
    <3>5. packet' = p BY <1>1 DEF Accept
    <3>6. Arriving(l)' = IF l = k THEN s ELSE <<>>
      BY <1>4, <3>5 DEF Arriving
    <3> QED BY <1>8, <3>1, <3>2, <3>3, <3>4, <3>6
  <2> QED BY <2>1 DEF EventsAreKept, Underway, Arriving
<1>15. ContainersInTimeOrder'
  <2>1. ASSUME NEW l \in Kinds, NEW i \in 1 .. Len(unsent'[l])
        PROVE  unsent'[l][i] >= horizon
    <3>1. CASE l = k
      <4> HIDE DEF v
      <4> QED BY <1>8, <1>12, <3>1
    <3>2. CASE l # k
      BY <1>3, <1>8, <3>2 DEF ContainersInTimeOrder
    <3> QED BY <3>1, <3>2
  <2> QED BY <1>2, <2>1 DEF ContainersInTimeOrder
<1> QED BY <1>11, <1>13, <1>14, <1>15 DEF IInv

\* A reset is not among the events to be sent.
LEMMA GetResetStep == IInv /\ GetReset => IInv'
<1> SUFFICES ASSUME IInv, GetReset PROVE IInv'
  OBVIOUS
<1>1. PICK e \in 0 .. MaxEpoch :
        LET time == e * Wrap + Int32Max
        IN  /\ time >= lastPacketTimestamp
            /\ Accept([kind |-> Special, events |-> <<time>>, reset |-> TRUE])
  BY DEF GetReset
<1> DEFINE time == e * Wrap + Int32Max
           p == [kind |-> Special, events |-> <<time>>, reset |-> TRUE]
<1>2. /\ pc = "get"
      /\ UNCHANGED <<eventPackets, sizeLimitHit, sizeLimitTimestamp,
                     newContainerSizeLimit, container, horizon>>
      /\ UNCHANGED <<unsent, latest>>
  BY DEF GetReset
<1>3. /\ TypeInv /\ EventsAreKept /\ OrderInv /\ ContainersInTimeOrder
      /\ container = Nothing /\ packet = NoPacket
  BY <1>2 DEF IInv, PlaceInv
<1>4. /\ time \in Times /\ Epoch(time) = e
      /\ \A t \in Times : Epoch(t) <= e => t <= time
  BY LastInstant
<1>5. /\ p.kind = Special /\ p.events = <<time>> /\ p.reset = TRUE
      /\ p.events[1] = time /\ Len(p.events) = 1
      /\ p.events \in Seq(Times)
  <2> HIDE DEF time
  <2> QED BY <1>4
<1>6. SourcePacket(p)
  <2> HIDE DEF time, p
  <2>1. time \in Nat BY <1>4, TimesAreNatural
  <2>2. \A i \in 1 .. Len(p.events) : p.events[i] = time
    BY <1>5
  <2>3. \A i \in 1 .. Len(p.events) :
          /\ p.events[1] <= p.events[i]
          /\ Epoch(p.events[i]) = Epoch(p.events[1])
    BY <1>5, <2>1, <2>2
  <2>4. \A t \in Times : Epoch(t) <= Epoch(p.events[1]) => t <= p.events[1]
    BY <1>4, <1>5
  <2>5. p.reset \in BOOLEAN BY <1>5, Zenon
  <2>6. p.kind \in Kinds /\ Len(p.events) >= 1
    BY <1>5, InputAssemblerAssumption
  <2> QED BY <1>5, <2>3, <2>4, <2>5, <2>6 DEF SourcePacket
<1>7. Accept(p) /\ time >= lastPacketTimestamp
  BY <1>1
<1> HIDE DEF time, p
<1>8. /\ TypeInv' /\ PlaceInv' /\ EpochInv' /\ LimitInv' /\ SliceInv'
      /\ horizon' <= lastPacketTimestamp'
      /\ pc' = "flush" =>
           \A l \in Kinds : \A i \in 1 .. Len(eventPackets'[l]) :
             eventPackets'[l][i] <= lastPacketTimestamp'
  <2>1. unsent' \in [Kinds -> Seq(Times)] /\ latest' \in [Kinds -> Times]
    BY <1>2, <1>3 DEF TypeInv
  <2> QED BY <1>2, <1>5, <1>6, <1>7, <2>1, AcceptStep
<1>9. OrderInv'
  <2>1. container' = Nothing BY <1>2, <1>3
  <2> QED BY <1>2, <1>3, <1>8, <2>1, NothingIsEmpty DEF OrderInv
<1>10. EventsAreKept'
  <2>1. packet' = p BY <1>7 DEF Accept
  <2>2. \A k \in Kinds : Arriving(k)' = <<>> /\ Arriving(k) = <<>>
    BY <1>3, <1>5, <2>1, NoPacketIsEmpty DEF Arriving
  <2>3. ASSUME NEW k \in Kinds
        PROVE  (container'[k] \o eventPackets'[k]) \o Arriving(k)' = unsent'[k]
    BY <1>2, <1>3, <2>2, KeptByPart
  <2> QED BY <2>3 DEF EventsAreKept, Underway, Arriving
<1>11. ContainersInTimeOrder'
  BY <1>2, <1>3 DEF ContainersInTimeOrder
<1> QED BY <1>8, <1>9, <1>10, <1>11 DEF IInv
-----------------------------------------------------------------------------
(* Merging.                                                                *)

\* Nothing is discarded: a new epoch has flushed what is held of the old one.
LEMMA MergedIsOneEpoch ==
  ASSUME IInv, pc = "add"
  PROVE  /\ packet.kind \in Kinds /\ container = Nothing
         /\ OneEpoch(eventPackets[packet.kind] \o packet.events)
         /\ eventPackets[packet.kind] \o packet.events \in Seq(Times)
         /\ unsent[packet.kind] = eventPackets[packet.kind] \o packet.events
         /\ \A l \in Kinds \ {packet.kind} : unsent[l] = eventPackets[l]
         /\ \A i \in 1 .. Len(unsent[packet.kind]) :
              /\ Epoch(unsent[packet.kind][i]) = lastTimestampOverflow
              /\ unsent[packet.kind][i] >= sliceStart
<1> DEFINE k == packet.kind
           merged == eventPackets[k] \o packet.events
<1>1. /\ TypeInv /\ EventsAreKept /\ EpochInv /\ SliceInv
      /\ container = Nothing /\ ~packet.reset /\ k \in Kinds
      /\ packet.events \in Seq(Times) /\ eventPackets[k] \in Seq(Times)
  BY DEF IInv, PlaceInv, TypeInv
<1>2. Arriving(k) = packet.events /\ unsent[k] = merged
  BY <1>1, HeldIsUnsent DEF Arriving
<1>3. ASSUME NEW l \in Kinds \ {k} PROVE unsent[l] = eventPackets[l]
  <2>1. Arriving(l) = <<>> BY <1>3 DEF Arriving
  <2>2. unsent[l] = eventPackets[l] \o <<>>
    BY <1>1, <2>1, HeldIsUnsent
  <2> QED BY <1>1, <2>2, ConcatEmptySeq DEF TypeInv
<1> DEFINE held == eventPackets[k]
           new  == packet.events
<1>4. /\ merged \in Seq(Times) /\ Len(merged) = Len(held) + Len(new)
      /\ \A i \in 1 .. Len(merged) :
           merged[i] = IF i <= Len(held) THEN held[i] ELSE new[i - Len(held)]
      /\ Len(held) \in Nat /\ Len(new) \in Nat /\ Len(merged) \in Nat
  <2>1. held \in Seq(Times) /\ new \in Seq(Times) /\ merged = held \o new
    BY <1>1
  <2>2. Len(held) \in Nat /\ Len(new) \in Nat BY <2>1, LenProperties
  <2> HIDE DEF held, new, merged
  <2> QED BY <2>1, <2>2, ConcatProperties
<1>5. ASSUME NEW i \in 1 .. Len(merged)
      PROVE  Epoch(merged[i]) = lastTimestampOverflow /\ merged[i] >= sliceStart
  <2>1. CASE i <= Len(held)
    <3>1. i \in 1 .. Len(held) /\ merged[i] = held[i]
      <4> HIDE DEF held, new, merged
      <4> QED BY <1>4, <2>1
    <3> QED BY <1>1, <3>1 DEF EpochInv, SliceInv
  <2>2. CASE ~ i <= Len(held)
    <3>1. PICK m \in 1 .. Len(new) : merged[i] = new[m]
      <4> HIDE DEF held, new, merged
      <4>1. i - Len(held) \in 1 .. Len(new) BY <1>4, <2>2
      <4> QED BY <1>4, <2>2, <4>1
    <3>2. /\ Epoch(new[m]) = lastTimestampOverflow
          /\ new[m] >= lastPacketTimestamp
      BY <1>1, <3>1 DEF EpochInv
    <3>3. new[m] \in Times BY <1>1, <3>1, ElementOfSeq
    <3>4. /\ lastPacketTimestamp \in Times /\ sliceStart \in Nat
          /\ sliceStart <= lastPacketTimestamp
      BY <1>1 DEF TypeInv, SliceInv
    <3>5. new[m] \in Nat /\ lastPacketTimestamp \in Nat
      BY <3>3, <3>4, TimesAreNatural
    <3> HIDE DEF new, merged
    <3> QED BY <3>1, <3>2, <3>4, <3>5
  <2> QED BY <2>1, <2>2
<1>6. OneEpoch(merged)
  <2> HIDE DEF merged
  <2>1. Len(merged) \in Nat BY <1>4
  <2>2. \A i \in 1 .. Len(merged) : 1 \in 1 .. Len(merged)
    BY <2>1
  <2>3. \A i \in 1 .. Len(merged) : Epoch(merged[i]) = Epoch(merged[1])
    BY <1>5, <2>2
  <2> QED BY <1>4, <2>3 DEF OneEpoch
<1> QED BY <1>1, <1>2, <1>3, <1>4, <1>5, <1>6

\* What updateSizeCommitCriteria finds is before the end of the time slice,
\* and it finds every packet that is long enough.
LEMMA LimitTimesFound ==
  ASSUME NEW packets \in [Kinds -> Seq(Times)], NEW limit \in Nat \ {0},
         NEW end \in Int, NEW kinds \in SUBSET Kinds
  PROVE  LET hits == LimitTimes(packets, limit, end, kinds)
         IN  /\ \A t \in hits : t \in Nat /\ t < end
             /\ \A k \in kinds : Len(packets[k]) >= limit =>
                  packets[k][limit] \in hits \/ packets[k][limit] >= end
<1>1. ASSUME NEW k \in kinds, Len(packets[k]) >= limit
      PROVE  packets[k][limit] \in Nat
  <2>1. packets[k] \in Seq(Times) OBVIOUS
  <2>2. Len(packets[k]) \in Nat BY <2>1, LenProperties
  <2>3. limit \in 1 .. Len(packets[k]) BY <1>1, <2>2
  <2> QED BY <2>1, <2>3, ElementOfSeq, TimesAreNatural
<1> QED BY <1>1 DEF LimitTimes

LEMMA AddPacketStep == IInv /\ AddPacket => IInv'
<1> SUFFICES ASSUME IInv, AddPacket PROVE IInv'
  OBVIOUS
<1> DEFINE k == packet.kind
           merged == eventPackets[k] \o packet.events
           hits == LimitTimes([eventPackets EXCEPT ![k] = merged],
                              newContainerSizeLimit,
                              newContainerTimestampEnd, {k})
           least == Min({sizeLimitTimestamp} \cup hits)
<1>1. /\ TypeInv /\ EventsAreKept /\ EpochInv /\ SliceInv /\ PlaceInv
      /\ OrderInv /\ LimitInv /\ ContainersInTimeOrder
      /\ pc = "add" /\ container = Nothing
  BY DEF IInv, PlaceInv, AddPacket
<1>2. /\ k \in Kinds /\ OneEpoch(merged) /\ merged \in Seq(Times)
      /\ unsent[k] = merged
      /\ \A l \in Kinds \ {k} : unsent[l] = eventPackets[l]
      /\ \A i \in 1 .. Len(unsent[k]) :
           /\ Epoch(unsent[k][i]) = lastTimestampOverflow
           /\ unsent[k][i] >= sliceStart
  BY <1>1, MergedIsOneEpoch
<1>3. /\ eventPackets' = [eventPackets EXCEPT ![k] = merged]
      /\ sizeLimitHit' = (sizeLimitHit \/ hits # {})
      /\ sizeLimitTimestamp' = least
      /\ pc' = "commit" /\ packet' = NoPacket
      /\ UNCHANGED <<clock, newContainerTimestampEnd, newContainerSizeLimit,
                     container, unsent, latest, horizon, sliceStart>>
  BY <1>2 DEF AddPacket
<1>4. UNCHANGED <<lastPacketTimestamp, lastTimestampOverflow>>
  BY <1>3 DEF clock
<1> HIDE DEF merged
<1>5. /\ eventPackets' \in [Kinds -> Seq(Times)]
      /\ eventPackets'[k] = merged
      /\ \A l \in Kinds \ {k} : eventPackets'[l] = eventPackets[l]
      /\ \A l \in Kinds : eventPackets'[l] = unsent[l]
  BY <1>1, <1>2, <1>3 DEF TypeInv
<1>6. /\ newContainerSizeLimit \in Nat \ {0} /\ sizeLimitTimestamp \in Nat
      /\ newContainerTimestampEnd \in Int /\ sizeLimitHit \in BOOLEAN
  BY <1>1, InputAssemblerAssumption DEF TypeInv
<1>7. /\ \A t \in hits : t \in Nat /\ t < newContainerTimestampEnd
      /\ Len(eventPackets'[k]) >= newContainerSizeLimit =>
           \/ eventPackets'[k][newContainerSizeLimit] \in hits
           \/ eventPackets'[k][newContainerSizeLimit]
                >= newContainerTimestampEnd
  <2> DEFINE packets == [eventPackets EXCEPT ![k] = merged]
  <2>1. packets = eventPackets' BY <1>3
  <2>2. packets \in [Kinds -> Seq(Times)] /\ {k} \in SUBSET Kinds
    BY <1>2, <1>5, <2>1
  <2>3. hits = LimitTimes(packets, newContainerSizeLimit,
                          newContainerTimestampEnd, {k})
    OBVIOUS
  <2> HIDE DEF packets, hits
  <2> QED BY <1>6, <2>1, <2>2, <2>3, LimitTimesFound
<1> HIDE DEF hits
<1>8. /\ least \in {sizeLimitTimestamp} \cup hits /\ least \in Nat
      /\ least <= sizeLimitTimestamp /\ \A t \in hits : least <= t
  <2>1. {sizeLimitTimestamp} \cup hits \subseteq Nat BY <1>6, <1>7
  <2> QED BY <2>1, LeastIsMin
<1> HIDE DEF least
<1>9. sizeLimitHit' \in BOOLEAN /\ (sizeLimitHit' <=> sizeLimitHit \/ hits # {})
  BY <1>3, Zenon
<1>10. TypeInv'
  <2>1. pc' \in Places BY <1>3 DEF Places
  <2>2. sizeLimitTimestamp' \in Nat BY <1>3, <1>8
  <2>3. /\ packet'.kind \in Kinds /\ packet'.events \in Seq(Times)
        /\ packet'.reset \in BOOLEAN
    BY <1>3, NoPacketIsEmpty
  <2> QED BY <1>1, <1>3, <1>4, <1>5, <1>9, <2>1, <2>2, <2>3 DEF TypeInv
<1>11. PlaceInv'
  BY <1>1, <1>3 DEF PlaceInv
<1>12. EpochInv'
  BY <1>1, <1>2, <1>3, <1>4, <1>5, NoPacketIsEmpty DEF EpochInv
<1>13. OrderInv'
  BY <1>1, <1>3, <1>4, NothingIsEmpty DEF OrderInv
<1>14. LimitInv'
  <2>1. sizeLimitHit' => least < newContainerTimestampEnd
    <3>1. sizeLimitHit => sizeLimitTimestamp < newContainerTimestampEnd
      BY <1>1 DEF LimitInv
    <3>2. ASSUME sizeLimitHit PROVE least < newContainerTimestampEnd
      BY <1>6, <1>8, <3>1, <3>2
    <3>3. ASSUME hits # {} PROVE least < newContainerTimestampEnd
      <4>1. PICK t \in hits : TRUE BY <3>3
      <4> QED BY <1>6, <1>7, <1>8, <4>1
    <3> QED BY <1>9, <3>2, <3>3
  <2>2. ASSUME NEW l \in Kinds,
               Len(eventPackets'[l]) >= newContainerSizeLimit,
               ~ eventPackets'[l][newContainerSizeLimit]
                   >= newContainerTimestampEnd
        PROVE  sizeLimitHit' /\ eventPackets'[l][newContainerSizeLimit] >= least
    <3>1. CASE l = k
      <4>1. eventPackets'[l][newContainerSizeLimit] \in hits
        BY <1>7, <2>2, <3>1
      <4>2. hits # {} BY <4>1
      <4>3. /\ eventPackets'[l][newContainerSizeLimit] \in Nat
            /\ least <= eventPackets'[l][newContainerSizeLimit]
        BY <1>7, <1>8, <4>1
      <4> QED BY <1>8, <1>9, <4>2, <4>3
    <3>2. CASE l # k
      <4>1. eventPackets'[l] = eventPackets[l] BY <1>5, <3>2
      <4>2. /\ sizeLimitHit
            /\ eventPackets[l][newContainerSizeLimit] >= sizeLimitTimestamp
        BY <1>1, <2>2, <4>1 DEF LimitInv
      <4>3. eventPackets[l][newContainerSizeLimit] \in Nat
        <5>1. eventPackets[l] \in Seq(Times) BY <1>1 DEF TypeInv
        <5>2. newContainerSizeLimit \in 1 .. Len(eventPackets[l])
          BY <1>6, <2>2, <4>1, <5>1, LenProperties
        <5> QED BY <5>1, <5>2, ElementOfSeq, TimesAreNatural
      <4> QED BY <1>6, <1>8, <1>9, <4>1, <4>2, <4>3
    <3> QED BY <3>1, <3>2
  <2> QED BY <1>3, <2>1, <2>2 DEF LimitInv
<1>15. SliceInv'
  BY <1>1, <1>2, <1>3, <1>4, <1>5 DEF SliceInv
<1>16. EventsAreKept'
  <2>1. ASSUME NEW l \in Kinds
        PROVE  (container'[l] \o eventPackets'[l]) \o Arriving(l)' = unsent'[l]
    <3>1. /\ container'[l] = <<>> /\ Arriving(l)' = <<>>
          /\ eventPackets'[l] \in Seq(Times)
      BY <1>1, <1>3, <1>5, NothingIsEmpty, NoPacketIsEmpty DEF Arriving
    <3>2. (<<>> \o eventPackets'[l]) \o <<>> = eventPackets'[l]
      BY <3>1, ConcatEmptySeq
    <3> QED BY <1>3, <1>5, <3>1, <3>2
  <2> QED BY <2>1 DEF EventsAreKept, Underway, Arriving
<1>17. ContainersInTimeOrder'
  BY <1>1, <1>3 DEF ContainersInTimeOrder
<1> QED BY <1>10, <1>11, <1>12, <1>13, <1>14, <1>15, <1>16, <1>17 DEF IInv
-----------------------------------------------------------------------------
(* Flushing, and what leaves.                                              *)

LEMMA FlushStep == IInv /\ Flush => IInv'
<1> SUFFICES ASSUME IInv, Flush PROVE IInv'
  OBVIOUS
<1>1. /\ TypeInv /\ PlaceInv /\ EpochInv /\ OrderInv /\ LimitInv /\ SliceInv
      /\ EventsAreKept /\ ContainersInTimeOrder /\ container = Nothing
  BY DEF IInv, PlaceInv, Flush
<1>2. /\ pc = "flush" /\ pc' = "putAll"
      /\ container' = eventPackets /\ eventPackets' = Nothing
      /\ UNCHANGED <<packet, lastPacketTimestamp, lastTimestampOverflow,
                     sizeLimitHit, sizeLimitTimestamp,
                     newContainerTimestampEnd, newContainerSizeLimit, unsent,
                     latest, horizon, sliceStart>>
  BY DEF Flush, clock, limits
<1>3. TypeInv'
  <2>1. pc' \in Places BY <1>2 DEF Places
  <2> QED BY <1>1, <1>2, <2>1, NothingIsEmpty DEF TypeInv
<1>4. PlaceInv' BY <1>1, <1>2 DEF PlaceInv
<1>5. EpochInv' BY <1>1, <1>2, NothingIsEmpty DEF EpochInv
<1>6. OrderInv' BY <1>1, <1>2, NothingIsEmpty DEF OrderInv
<1>7. LimitInv' BY <1>1, <1>2 DEF LimitInv
<1>8. SliceInv' BY <1>1, <1>2, NothingIsEmpty DEF SliceInv
<1>9. EventsAreKept'
  <2>1. ASSUME NEW k \in Kinds
        PROVE  (container'[k] \o eventPackets'[k]) \o Arriving(k)' = unsent'[k]
    <3>1. /\ container'[k] = eventPackets[k] /\ eventPackets'[k] = <<>>
          /\ Arriving(k)' = Arriving(k) /\ eventPackets[k] \in Seq(Times)
      BY <1>1, <1>2, NothingIsEmpty DEF Arriving, TypeInv
    <3>2. eventPackets[k] \o <<>> = eventPackets[k]
      BY <3>1, ConcatEmptySeq
    <3>3. unsent[k] = eventPackets[k] \o Arriving(k)
      BY <1>1, HeldIsUnsent
    <3> QED BY <1>2, <3>1, <3>2, <3>3
  <2> QED BY <2>1 DEF EventsAreKept, Underway, Arriving
<1>10. ContainersInTimeOrder' BY <1>1, <1>2 DEF ContainersInTimeOrder
<1> QED BY <1>3, <1>4, <1>5, <1>6, <1>7, <1>8, <1>9, <1>10 DEF IInv

\* A container leaves what is held, and that is no earlier.
LEMMA LeaveStep ==
  ASSUME IInv, Leave,
         UNCHANGED <<packet, eventPackets, lastPacketTimestamp, latest>>
  PROVE  /\ unsent' \in [Kinds -> Seq(Times)]
         /\ horizon' \in Int /\ horizon' <= lastPacketTimestamp'
         /\ \A k \in Kinds : \A i \in 1 .. Len(unsent'[k]) :
              /\ unsent'[k][i] <= latest'[k]
              /\ \A j \in i .. Len(unsent'[k]) : unsent'[k][i] <= unsent'[k][j]
         /\ container' = Nothing
         /\ EventsAreKept' /\ ContainersInTimeOrder'
<1>1. /\ TypeInv /\ EpochInv /\ OrderInv /\ EventsAreKept
      /\ ContainersInTimeOrder
  BY DEF IInv
<1>2. /\ unsent' = [k \in Kinds |-> SubSeq(unsent[k], Len(container[k]) + 1,
                                           Len(unsent[k]))]
      /\ horizon' = Max({horizon} \cup UNION { Range(container[k]) : k \in Kinds })
      /\ container' = Nothing
  BY DEF Leave
<1>3. ASSUME NEW k \in Kinds
      PROVE  /\ unsent'[k] = eventPackets[k] \o Arriving(k)
             /\ unsent'[k] \in Seq(Times)
             /\ unsent[k] = container[k] \o unsent'[k]
  <2> DEFINE c == container[k]
             e == eventPackets[k]
             a == Arriving(k)
  <2>1. c \in Seq(Times) /\ e \in Seq(Times) /\ a \in Seq(Times)
    BY <1>1, ArrivingIsSeq DEF TypeInv
  <2>2. unsent[k] = (c \o e) \o a BY <1>1, KeptByPart
  <2> HIDE DEF c, e, a
  <2>3. unsent[k] = c \o (e \o a) /\ e \o a \in Seq(Times)
    BY <2>1, <2>2, ConcatAssociative, ConcatProperties
  <2>4. unsent'[k] = SubSeq(unsent[k], Len(c) + 1, Len(unsent[k]))
    BY <1>2 DEF c
  <2>5. unsent'[k] = e \o a
    BY <2>1, <2>3, <2>4, BehindPrefix
  <2> QED BY <2>3, <2>5 DEF c, e, a
<1>4. \A k \in Kinds : \A i \in 1 .. Len(container[k]) :
        container[k][i] \in Times
  BY <1>1, ElementOfSeq DEF TypeInv
<1> DEFINE gone == {horizon} \cup UNION { Range(container[k]) : k \in Kinds }
<1>5. \A t \in gone : \/ t = horizon
                     \/ \E k \in Kinds : \E i \in 1 .. Len(container[k]) :
                          t = container[k][i]
  <2>1. ASSUME NEW k \in Kinds, NEW t \in Range(container[k])
        PROVE  \E i \in 1 .. Len(container[k]) : t = container[k][i]
    <3>1. DOMAIN container[k] = 1 .. Len(container[k])
      BY <1>1, LenProperties DEF TypeInv
    <3> QED BY <3>1 DEF Range
  <2> QED BY <2>1
<1>6. gone \subseteq Int /\ \A t \in gone : t <= lastPacketTimestamp
  <2>1. horizon \in Int /\ horizon <= lastPacketTimestamp
    BY <1>1 DEF TypeInv, OrderInv
  <2>2. \A k \in Kinds : \A i \in 1 .. Len(container[k]) :
          container[k][i] <= lastPacketTimestamp /\ container[k][i] \in Int
    BY <1>1, <1>4, TimesAreNatural DEF OrderInv
  <2> HIDE DEF gone
  <2> QED BY <1>5, <2>1, <2>2
<1>7. horizon' \in gone /\ horizon' \in Int /\ horizon' <= lastPacketTimestamp
  <2>1. gone # {} OBVIOUS
  <2>2. horizon' = Max(gone) BY <1>2
  <2>3. lastPacketTimestamp \in Int BY <1>1, TimesAreNatural DEF TypeInv
  <2> HIDE DEF gone
  <2> QED BY <1>6, <2>1, <2>2, <2>3, GreatestIsMax
<1> HIDE DEF gone
<1>8. ASSUME NEW k \in Kinds, NEW i \in 1 .. Len(unsent'[k])
      PROVE  /\ unsent'[k][i] <= latest[k]
             /\ \A j \in i .. Len(unsent'[k]) : unsent'[k][i] <= unsent'[k][j]
             /\ unsent'[k][i] >= horizon
  <2> DEFINE n == Len(container[k])
             m == Len(unsent'[k])
             all == Len(unsent[k])
  <2>1. /\ n \in Nat /\ m \in Nat /\ all = n + m
        /\ \A j \in 1 .. m : unsent[k][n + j] = unsent'[k][j]
    <3> DEFINE c == container[k]
               u == unsent'[k]
    <3>1. c \in Seq(Times) /\ u \in Seq(Times) /\ unsent[k] = c \o u
      BY <1>1, <1>3 DEF TypeInv
    <3> HIDE DEF c, u
    <3>2. /\ Len(c) \in Nat /\ Len(u) \in Nat
          /\ Len(unsent[k]) = Len(c) + Len(u)
          /\ \A j \in 1 .. Len(u) : unsent[k][Len(c) + j] = u[j]
      BY <3>1, PartsOfConcat
    <3> QED BY <3>2 DEF c, u
  <2> HIDE DEF n
  <2>2. i \in 1 .. m OBVIOUS
  <2>3. /\ n + i \in 1 .. all
        /\ \A j \in i .. m : j \in 1 .. m /\ n + j \in n + i .. all
    <3> HIDE DEF m, all
    <3> QED BY <2>1, <2>2
  <2>4. /\ unsent[k][n + i] <= latest[k] /\ unsent[k][n + i] >= horizon
        /\ \A j \in n + i .. Len(unsent[k]) : unsent[k][n + i] <= unsent[k][j]
    BY <1>1, <2>3 DEF OrderInv, ContainersInTimeOrder
  <2> QED BY <2>1, <2>2, <2>3, <2>4
<1>9. ASSUME NEW k \in Kinds, NEW i \in 1 .. Len(unsent'[k])
      PROVE  unsent'[k][i] >= horizon'
  <2> DEFINE e == eventPackets[k]
             a == Arriving(k)
             u == unsent'[k]
  <2>1. e \in Seq(Times) /\ a \in Seq(Times) /\ u = e \o a
    BY <1>1, <1>3, ArrivingIsSeq DEF TypeInv
  <2>2. \/ \E j \in 1 .. Len(e) : u[i] = e[j]
        \/ \E j \in 1 .. Len(a) : u[i] = a[j]
    <3>1. i \in 1 .. Len(u) OBVIOUS
    <3> HIDE DEF e, a, u
    <3>2. /\ Len(e) \in Nat /\ Len(a) \in Nat /\ Len(u) = Len(e) + Len(a)
          /\ \A j \in 1 .. Len(e) : u[j] = e[j]
          /\ \A j \in 1 .. Len(a) : u[Len(e) + j] = a[j]
      BY <2>1, PartsOfConcat
    <3>3. CASE i <= Len(e)
      <4>1. i \in 1 .. Len(e) BY <3>1, <3>2, <3>3
      <4> QED BY <3>2, <4>1
    <3>4. CASE ~ i <= Len(e)
      <4>1. PICK j \in 1 .. Len(a) : i = Len(e) + j
        <5>1. i - Len(e) \in 1 .. Len(a) /\ i = Len(e) + (i - Len(e))
          BY <3>1, <3>2, <3>4
        <5> QED BY <5>1
      <4> QED BY <3>2, <4>1
    <3> QED BY <3>3, <3>4
  <2>3. ASSUME NEW l \in Kinds, NEW g \in 1 .. Len(container[l])
        PROVE  container[l][g] <= u[i]
    <3>1. CASE \E j \in 1 .. Len(e) : u[i] = e[j]
      BY <1>1, <3>1 DEF OrderInv
    <3>2. CASE \E j \in 1 .. Len(a) : u[i] = a[j]
      <4>1. PICK j \in 1 .. Len(a) : u[i] = a[j] BY <3>2
      <4>2. a = packet.events
        <5>1. Len(<<>>) = 0 OBVIOUS
        <5>2. a = <<>> => FALSE
          <6> HIDE DEF a
          <6> QED BY <4>1, <5>1
        <5> QED BY <5>2 DEF Arriving
      <4>3. a[j] >= lastPacketTimestamp BY <1>1, <4>1, <4>2 DEF EpochInv
      <4>4. container[l][g] <= lastPacketTimestamp BY <1>1 DEF OrderInv
      <4>5. a[j] \in Times /\ container[l][g] \in Times
        BY <1>4, <2>1, <4>1, ElementOfSeq
      <4>6. /\ a[j] \in Int /\ container[l][g] \in Int
            /\ lastPacketTimestamp \in Int
        BY <1>1, <4>5, TimesAreNatural DEF TypeInv
      <4> HIDE DEF a, u
      <4> QED BY <4>1, <4>3, <4>4, <4>6
    <3> QED BY <2>2, <3>1, <3>2
  <2>4. u[i] >= horizon BY <1>8
  <2>5. \/ horizon' = horizon
        \/ \E l \in Kinds : \E g \in 1 .. Len(container[l]) :
             horizon' = container[l][g]
    BY <1>5, <1>7
  <2>6. CASE horizon' = horizon BY <2>4, <2>6
  <2>7. CASE \E l \in Kinds : \E g \in 1 .. Len(container[l]) :
               horizon' = container[l][g]
    <3>1. PICK l \in Kinds : \E g \in 1 .. Len(container[l]) :
            horizon' = container[l][g]
      BY <2>7
    <3>2. PICK g \in 1 .. Len(container[l]) : horizon' = container[l][g]
      BY <3>1
    <3>3. horizon' <= u[i] BY <2>3, <3>2
    <3>4. u[i] \in Int
      <4>1. u[i] \in Times BY <1>3, ElementOfSeq
      <4> QED BY <4>1, TimesAreNatural
    <3> HIDE DEF u
    <3>5. u[i] >= horizon' BY <1>7, <3>3, <3>4
    <3> QED BY <3>5 DEF u
  <2> QED BY <2>5, <2>6, <2>7
<1>10. EventsAreKept'
  <2>1. ASSUME NEW k \in Kinds
        PROVE  (container'[k] \o eventPackets'[k]) \o Arriving(k)' = unsent'[k]
    <3>1. container'[k] = <<>> /\ Arriving(k)' = Arriving(k)
      BY <1>2, NothingIsEmpty DEF Arriving
    <3>2. eventPackets[k] \in Seq(Times) BY <1>1 DEF TypeInv
    <3>3. <<>> \o eventPackets[k] = eventPackets[k]
      BY <3>2, ConcatEmptySeq
    <3> QED BY <1>3, <3>1, <3>3
  <2>2. \A k \in Kinds : Underway(k)' = unsent'[k]
    BY <2>1, Zenon DEF Underway, Arriving
  <2> QED BY <2>2, Zenon DEF EventsAreKept
<1>11. ContainersInTimeOrder'
  BY <1>9 DEF ContainersInTimeOrder
<1>12. unsent' \in [Kinds -> Seq(Times)]
  BY <1>2, <1>3
<1>13. \A k \in Kinds : \A i \in 1 .. Len(unsent'[k]) :
         /\ unsent'[k][i] <= latest'[k]
         /\ \A j \in i .. Len(unsent'[k]) : unsent'[k][i] <= unsent'[k][j]
  BY <1>8
<1>14. horizon' <= lastPacketTimestamp'
  BY <1>7
<1> QED BY <1>2, <1>7, <1>10, <1>11, <1>12, <1>13, <1>14, Zenon

LEMMA PutAllStep == IInv /\ PutAll => IInv'
<1> SUFFICES ASSUME IInv, PutAll PROVE IInv'
  OBVIOUS
<1>1. /\ TypeInv /\ PlaceInv /\ EpochInv /\ OrderInv /\ LimitInv /\ SliceInv
      /\ eventPackets = Nothing
  BY DEF IInv, PlaceInv, PutAll
<1>2. /\ pc = "putAll" /\ Leave
      /\ newContainerSizeLimit' \in SizeSlices
      /\ sizeLimitHit' = FALSE /\ sizeLimitTimestamp' = Int32Max
      /\ pc' = IF packet.reset THEN "reset" ELSE "add"
      /\ UNCHANGED <<packet, eventPackets, lastPacketTimestamp,
                     lastTimestampOverflow, newContainerTimestampEnd, latest,
                     sliceStart>>
  BY DEF PutAll, clock
<1>3. /\ unsent' \in [Kinds -> Seq(Times)]
      /\ horizon' \in Int /\ horizon' <= lastPacketTimestamp'
      /\ \A k \in Kinds : \A i \in 1 .. Len(unsent'[k]) :
           /\ unsent'[k][i] <= latest'[k]
           /\ \A j \in i .. Len(unsent'[k]) : unsent'[k][i] <= unsent'[k][j]
      /\ container' = Nothing
      /\ EventsAreKept' /\ ContainersInTimeOrder'
  BY <1>2, LeaveStep
<1>4. TypeInv'
  <2>1. pc' \in Places BY <1>2 DEF Places
  <2>2. sizeLimitTimestamp' \in Nat BY <1>2, TimesAreNatural
  <2>3. sizeLimitHit' \in BOOLEAN BY <1>2, Zenon
  <2> QED BY <1>1, <1>2, <1>3, <2>1, <2>2, <2>3, NothingIsEmpty DEF TypeInv
<1>5. PlaceInv'
  BY <1>1, <1>2, <1>3 DEF PlaceInv
<1>6. EpochInv' BY <1>1, <1>2, NothingIsEmpty DEF EpochInv
<1>7. OrderInv' BY <1>1, <1>2, <1>3, NothingIsEmpty DEF OrderInv
<1>8. LimitInv'
  <2>1. newContainerSizeLimit' \in Nat \ {0}
    BY <1>2, InputAssemblerAssumption
  <2>2. \A k \in Kinds : ~ Len(eventPackets'[k]) >= newContainerSizeLimit'
    BY <1>1, <1>2, <2>1, NothingIsEmpty
  <2> QED BY <1>2, <2>2 DEF LimitInv
<1>9. SliceInv' BY <1>1, <1>2 DEF SliceInv
<1> QED BY <1>3, <1>4, <1>5, <1>6, <1>7, <1>8, <1>9 DEF IInv

LEMMA PutStep == IInv /\ Put => IInv'
<1> SUFFICES ASSUME IInv, Put PROVE IInv'
  OBVIOUS
<1>1. /\ TypeInv /\ PlaceInv /\ EpochInv /\ OrderInv /\ LimitInv /\ SliceInv
      /\ packet = NoPacket
  BY DEF IInv, PlaceInv, Put
<1>2. PICK sizeSlice \in SizeSlices :
        LET hits == LimitTimes(eventPackets, sizeSlice,
                               newContainerTimestampEnd, Kinds)
        IN /\ newContainerSizeLimit' = sizeSlice
           /\ sizeLimitHit' = (hits # {})
           /\ sizeLimitTimestamp' = Min({Int32Max} \cup hits)
  BY DEF Put
<1> DEFINE hits == LimitTimes(eventPackets, sizeSlice,
                              newContainerTimestampEnd, Kinds)
           least == Min({Int32Max} \cup hits)
<1>3. /\ pc = "put" /\ pc' = "commit" /\ Leave
      /\ UNCHANGED <<packet, eventPackets, lastPacketTimestamp,
                     lastTimestampOverflow, newContainerTimestampEnd, latest,
                     sliceStart>>
  BY DEF Put, clock
<1>4. /\ unsent' \in [Kinds -> Seq(Times)]
      /\ horizon' \in Int /\ horizon' <= lastPacketTimestamp'
      /\ \A k \in Kinds : \A i \in 1 .. Len(unsent'[k]) :
           /\ unsent'[k][i] <= latest'[k]
           /\ \A j \in i .. Len(unsent'[k]) : unsent'[k][i] <= unsent'[k][j]
      /\ container' = Nothing
      /\ EventsAreKept' /\ ContainersInTimeOrder'
  BY <1>3, LeaveStep
<1>5. /\ sizeSlice \in Nat \ {0} /\ newContainerTimestampEnd \in Int
      /\ eventPackets \in [Kinds -> Seq(Times)]
  BY <1>1, InputAssemblerAssumption DEF TypeInv
<1>6. /\ \A t \in hits : t \in Nat /\ t < newContainerTimestampEnd
      /\ \A k \in Kinds : Len(eventPackets[k]) >= sizeSlice =>
           \/ eventPackets[k][sizeSlice] \in hits
           \/ eventPackets[k][sizeSlice] >= newContainerTimestampEnd
  BY <1>5, LimitTimesFound
<1>7. /\ newContainerSizeLimit' = sizeSlice
      /\ sizeLimitHit' = (hits # {}) /\ sizeLimitTimestamp' = least
  BY <1>2
<1> HIDE DEF hits
<1>8. least \in Nat /\ \A t \in hits : least <= t
  <2>1. {Int32Max} \cup hits \subseteq Nat BY <1>6, TimesAreNatural
  <2> QED BY <2>1, LeastIsMin
<1> HIDE DEF least
<1>9. sizeLimitHit' \in BOOLEAN /\ (sizeLimitHit' <=> hits # {})
  BY <1>7, Zenon
<1>10. TypeInv'
  <2>1. pc' \in Places BY <1>3 DEF Places
  <2>2. sizeLimitTimestamp' \in Nat /\ newContainerSizeLimit' \in SizeSlices
    BY <1>7, <1>8
  <2> QED BY <1>1, <1>3, <1>4, <1>9, <2>1, <2>2, NothingIsEmpty DEF TypeInv
<1>11. PlaceInv' BY <1>1, <1>3, <1>4 DEF PlaceInv
<1>12. EpochInv' BY <1>1, <1>3 DEF EpochInv
<1>13. OrderInv' BY <1>3, <1>4, NothingIsEmpty DEF OrderInv
<1>14. LimitInv'
  <2>1. sizeLimitHit' => least < newContainerTimestampEnd
    <3>1. ASSUME hits # {} PROVE least < newContainerTimestampEnd
      <4>1. PICK t \in hits : TRUE BY <3>1
      <4> QED BY <1>5, <1>6, <1>8, <4>1
    <3> QED BY <1>9, <3>1
  <2>2. ASSUME NEW k \in Kinds, Len(eventPackets[k]) >= sizeSlice,
               ~ eventPackets[k][sizeSlice] >= newContainerTimestampEnd
        PROVE  sizeLimitHit' /\ eventPackets[k][sizeSlice] >= least
    <3>1. eventPackets[k][sizeSlice] \in hits BY <1>6, <2>2
    <3>2. hits # {} BY <3>1
    <3>3. /\ eventPackets[k][sizeSlice] \in Nat
          /\ least <= eventPackets[k][sizeSlice]
      BY <1>6, <1>8, <3>1
    <3> QED BY <1>8, <1>9, <3>2, <3>3
  <2> QED BY <1>3, <1>7, <2>1, <2>2 DEF LimitInv
<1>15. SliceInv' BY <1>1, <1>3 DEF SliceInv
<1> QED BY <1>4, <1>10, <1>11, <1>12, <1>13, <1>14, <1>15 DEF IInv

LEMMA SendResetStep == IInv /\ SendReset => IInv'
<1> SUFFICES ASSUME IInv, SendReset PROVE IInv'
  OBVIOUS
<1>1. /\ TypeInv /\ eventPackets = Nothing /\ container = Nothing
      /\ ~sizeLimitHit
  BY DEF IInv, PlaceInv, SendReset
<1>2. /\ lastPacketTimestamp' = 0 /\ lastTimestampOverflow' = 0
      /\ newContainerTimestampEnd' = -1 /\ packet' = NoPacket /\ pc' = "get"
      /\ unsent' = Nothing /\ latest' = [k \in Kinds |-> 0]
      /\ horizon' = -1 /\ sliceStart' = 0
      /\ UNCHANGED <<eventPackets, sizeLimitHit, sizeLimitTimestamp,
                     newContainerSizeLimit, container>>
  BY DEF SendReset
<1>3. TypeInv'
  <2>1. pc' \in Places BY <1>2 DEF Places
  <2>2. latest' \in [Kinds -> Times] /\ lastPacketTimestamp' \in Times
    BY <1>2, TimesAreNatural
  <2>3. /\ packet'.kind \in Kinds /\ packet'.events \in Seq(Times)
        /\ packet'.reset \in BOOLEAN
    BY <1>2, NoPacketIsEmpty
  <2>4. /\ lastTimestampOverflow' \in Nat /\ horizon' \in Int
        /\ newContainerTimestampEnd' \in Nat \cup {-1} /\ sliceStart' \in Nat
    BY <1>2
  <2>5. unsent' \in [Kinds -> Seq(Times)] BY <1>2, NothingIsEmpty
  <2> QED BY <1>1, <1>2, <2>1, <2>2, <2>3, <2>4, <2>5 DEF TypeInv
<1>4. PlaceInv' BY <1>1, <1>2 DEF PlaceInv
<1>5. EpochInv'
  <2>1. Epoch(0) = 0 BY InputAssemblerAssumption DEF Epoch
  <2> QED BY <1>1, <1>2, <2>1, NothingIsEmpty, NoPacketIsEmpty DEF EpochInv
<1>6. OrderInv' BY <1>1, <1>2, NothingIsEmpty DEF OrderInv
<1>7. LimitInv'
  <2>1. newContainerSizeLimit \in Nat \ {0}
    BY <1>1, InputAssemblerAssumption DEF TypeInv
  <2>2. \A k \in Kinds : ~ Len(eventPackets[k]) >= newContainerSizeLimit
    BY <1>1, <2>1, NothingIsEmpty
  <2> QED BY <1>1, <1>2, <2>2 DEF LimitInv
<1>8. SliceInv' BY <1>1, <1>2, NothingIsEmpty DEF SliceInv
<1>9. EventsAreKept'
  <2>1. ASSUME NEW k \in Kinds
        PROVE  (container'[k] \o eventPackets'[k]) \o Arriving(k)' = unsent'[k]
    <3>1. <<>> \in Seq(Times) BY EmptySeq
    <3>2. <<>> \o <<>> = <<>> BY <3>1, ConcatEmptySeq
    <3> QED BY <1>1, <1>2, <3>2, NothingIsEmpty, NoPacketIsEmpty DEF Arriving
  <2> QED BY <2>1 DEF EventsAreKept, Underway, Arriving
<1>10. ContainersInTimeOrder'
  BY <1>2, NothingIsEmpty DEF ContainersInTimeOrder
<1> QED BY <1>3, <1>4, <1>5, <1>6, <1>7, <1>8, <1>9, <1>10 DEF IInv

\* Steps that at most go from the commit back to the next packet.
LEMMA QuietStep ==
  ASSUME IInv, pc' = pc \/ (pc = "commit" /\ pc' = "get"),
         UNCHANGED <<packet, eventPackets, clock, limits, container, unsent,
                     latest, horizon, sliceStart>>
  PROVE  IInv'
<1>1. UNCHANGED <<packet, eventPackets, lastPacketTimestamp,
                  lastTimestampOverflow, sizeLimitHit, sizeLimitTimestamp,
                  newContainerTimestampEnd, newContainerSizeLimit, container,
                  unsent, latest, horizon, sliceStart>>
  BY DEF clock, limits
<1>2. TypeInv' BY <1>1 DEF IInv, TypeInv, Places
<1>3. PlaceInv' BY <1>1 DEF IInv, PlaceInv
<1>4. EpochInv' BY <1>1 DEF IInv, EpochInv
<1>5. OrderInv' BY <1>1 DEF IInv, OrderInv
<1>6. LimitInv' BY <1>1 DEF IInv, LimitInv
<1>7. SliceInv' BY <1>1 DEF IInv, SliceInv
<1>8. EventsAreKept' BY <1>1 DEF IInv, EventsAreKept, Underway
<1>9. ContainersInTimeOrder' BY <1>1 DEF IInv, ContainersInTimeOrder
<1> QED BY <1>2, <1>3, <1>4, <1>5, <1>6, <1>7, <1>8, <1>9 DEF IInv
-----------------------------------------------------------------------------
(* A slice is cut off.                                                     *)

LEMMA CutoffFirst ==
  ASSUME NEW s \in Seq(Times)
  PROVE  /\ Cutoff(s) \in 1 .. Len(s) + 1
         /\ \A i \in 1 .. Len(s) : i < Cutoff(s) => ~Stays(s, i)
         /\ Cutoff(s) <= Len(s) => Stays(s, Cutoff(s))
<1> DEFINE stayers == {i \in 1 .. Len(s) : Stays(s, i)}
           cuts == stayers \cup {Len(s) + 1}
<1>1. Len(s) \in Nat BY LenProperties
<1>2. cuts \subseteq 1 .. Len(s) + 1 /\ cuts # {} BY <1>1
<1>3. Cutoff(s) \in cuts /\ \A i \in cuts : Cutoff(s) <= i
  <2>1. cuts \subseteq Nat BY <1>1
  <2>2. Cutoff(s) = Min(cuts) BY DEF Cutoff
  <2> HIDE DEF cuts
  <2> QED BY <1>2, <2>1, <2>2, LeastIsMin
<1>4. Cutoff(s) \in 1 .. Len(s) + 1 BY <1>2, <1>3
<1>5. ASSUME NEW i \in 1 .. Len(s), i < Cutoff(s), Stays(s, i) PROVE FALSE
  <2>1. i \in cuts BY <1>5
  <2> HIDE DEF cuts
  <2> QED BY <1>1, <1>3, <1>4, <1>5, <2>1
<1>6. ASSUME Cutoff(s) <= Len(s) PROVE Stays(s, Cutoff(s))
  <2>1. Cutoff(s) # Len(s) + 1 BY <1>1, <1>4, <1>6
  <2>2. Cutoff(s) \in stayers BY <1>3, <2>1
  <2> QED BY <2>2
<1> QED BY <1>4, <1>5, <1>6

\* What goes does not stay, and what is left is behind an event that stays.
LEMMA CutParts ==
  ASSUME TypeInv, Generate, NEW k \in Kinds
  PROVE  /\ container'[k] \in Seq(Times) /\ eventPackets'[k] \in Seq(Times)
         /\ container'[k] \o eventPackets'[k] = eventPackets[k]
         /\ \A i \in 1 .. Len(container'[k]) :
              /\ i \in 1 .. Len(eventPackets[k])
              /\ container'[k][i] = eventPackets[k][i]
              /\ ~Stays(eventPackets[k], i)
         /\ \A j \in 1 .. Len(eventPackets'[k]) :
              \E c \in 1 .. Len(eventPackets[k]) :
                \E m \in c .. Len(eventPackets[k]) :
                  /\ Stays(eventPackets[k], c)
                  /\ eventPackets'[k][j] = eventPackets[k][m]
<1> DEFINE s == eventPackets[k]
           cut == Cutoff(s)
           first == SubSeq(s, 1, cut - 1)
           rest == SubSeq(s, cut, Len(s))
<1>1. s \in Seq(Times) BY DEF TypeInv
<1>2. container'[k] = first /\ eventPackets'[k] = rest
  BY DEF Generate
<1> HIDE DEF s
<1>3. /\ Len(s) \in Nat /\ cut \in 1 .. Len(s) + 1
      /\ \A i \in 1 .. Len(s) : i < cut => ~Stays(s, i)
      /\ cut <= Len(s) => Stays(s, cut)
  BY <1>1, CutoffFirst, LenProperties
<1> HIDE DEF cut
<1>4. /\ first \in Seq(Times) /\ Len(first) = cut - 1
      /\ \A i \in 1 .. Len(first) : first[i] = s[i]
      /\ rest \in Seq(Times) /\ Len(rest) = Len(s) - cut + 1
      /\ \A i \in 1 .. Len(rest) : rest[i] = s[cut - 1 + i]
      /\ first \o rest = s
  BY <1>1, <1>3, PartsOfSeq
<1> HIDE DEF first, rest
<1>5. ASSUME NEW i \in 1 .. Len(first)
      PROVE  i \in 1 .. Len(s) /\ first[i] = s[i] /\ ~Stays(s, i)
  <2>1. i \in 1 .. Len(s) /\ i < cut BY <1>3, <1>4
  <2> QED BY <1>3, <1>4, <2>1
<1>6. ASSUME NEW j \in 1 .. Len(rest)
      PROVE  \E c \in 1 .. Len(s) : \E m \in c .. Len(s) :
               Stays(s, c) /\ rest[j] = s[m]
  <2>1. /\ cut <= Len(s) /\ cut \in 1 .. Len(s)
        /\ cut - 1 + j \in cut .. Len(s)
    BY <1>3, <1>4
  <2> QED BY <1>3, <1>4, <2>1
<1> QED BY <1>2, <1>4, <1>5, <1>6 DEF s

LEMMA LeftParts ==
  ASSUME TypeInv, Generate, NEW k \in Kinds,
         NEW j \in 1 .. Len(eventPackets'[k])
  PROVE  \E c \in 1 .. Len(eventPackets[k]) :
           \E m \in c .. Len(eventPackets[k]) :
             /\ Stays(eventPackets[k], c)
             /\ eventPackets'[k][j] = eventPackets[k][m]
<1>1. \A i \in 1 .. Len(eventPackets'[k]) :
        \E c \in 1 .. Len(eventPackets[k]) :
          \E m \in c .. Len(eventPackets[k]) :
            /\ Stays(eventPackets[k], c)
            /\ eventPackets'[k][i] = eventPackets[k][m]
  BY CutParts, Zenon
<1> QED BY <1>1, Zenon

\* An event that stays is no earlier than one that goes, of whatever kind:
\* the event at the size limit of its kind was noticed.
LEMMA StayersAreLater ==
  ASSUME IInv, pc = "commit", container = Nothing,
         NEW k \in Kinds, NEW i \in 1 .. Len(eventPackets[k]),
         ~Stays(eventPackets[k], i),
         NEW l \in Kinds, NEW c \in 1 .. Len(eventPackets[l]),
         Stays(eventPackets[l], c)
  PROVE  eventPackets[k][i] <= eventPackets[l][c]
<1> DEFINE goes == eventPackets[k][i]
           stays == eventPackets[l][c]
           limit == newContainerSizeLimit
<1>1. /\ goes \in Int /\ stays \in Int
      /\ newContainerTimestampEnd \in Int /\ sizeLimitTimestamp \in Int
      /\ limit \in Nat \ {0} /\ Len(eventPackets[l]) \in Nat
  <2>1. goes \in Times /\ stays \in Times BY HeldInOrder
  <2>2. goes \in Int /\ stays \in Int BY <2>1, TimesAreNatural
  <2>3. eventPackets[l] \in Seq(Times) BY DEF IInv, TypeInv
  <2>4. limit \in Nat \ {0} BY InputAssemblerAssumption DEF IInv, TypeInv
  <2> QED BY <2>2, <2>3, <2>4, LenProperties DEF IInv, TypeInv
<1>2. /\ goes <= newContainerTimestampEnd
      /\ sizeLimitHit => goes <= sizeLimitTimestamp
  BY <1>1 DEF Stays
<1>3. \/ stays > newContainerTimestampEnd
      \/ sizeLimitHit /\ stays > sizeLimitTimestamp
      \/ sizeLimitHit /\ c > limit
  BY DEF Stays
<1>4. CASE stays > newContainerTimestampEnd BY <1>1, <1>2, <1>4
<1>5. CASE sizeLimitHit /\ stays > sizeLimitTimestamp BY <1>1, <1>2, <1>5
<1>6. CASE sizeLimitHit /\ c > limit
  <2>1. limit \in 1 .. Len(eventPackets[l]) /\ c \in limit .. Len(eventPackets[l])
    BY <1>1, <1>6
  <2>2. /\ eventPackets[l][limit] \in Times
        /\ eventPackets[l][limit] <= stays
    BY <2>1, HeldInOrder
  <2>3. eventPackets[l][limit] \in Int BY <2>2, TimesAreNatural
  <2>4. \/ eventPackets[l][limit] >= newContainerTimestampEnd
        \/ eventPackets[l][limit] >= sizeLimitTimestamp
    <3>1. Len(eventPackets[l]) >= limit BY <1>1, <2>1
    <3> QED BY <3>1 DEF IInv, LimitInv
  <2>5. /\ goes <= newContainerTimestampEnd
        /\ goes <= sizeLimitTimestamp
    BY <1>2, <1>6
  <2> DEFINE atLimit == eventPackets[l][limit]
  <2>6. atLimit \in Int /\ atLimit <= stays BY <2>2, <2>3
  <2>7. atLimit >= newContainerTimestampEnd \/ atLimit >= sizeLimitTimestamp
    BY <2>4
  <2> HIDE DEF goes, stays, atLimit, limit
  <2>8. goes <= stays BY <1>1, <2>5, <2>6, <2>7
  <2> QED BY <2>8 DEF goes, stays
<1> QED BY <1>3, <1>4, <1>5, <1>6

\* The whole of it, but for the time slice, which a commit by time moves on.
LEMMA GenerateStep ==
  ASSUME IInv, pc = "commit", SizeCommit \/ TimeCommit, Generate
  PROVE  /\ container' \in [Kinds -> Seq(Times)]
         /\ eventPackets' \in [Kinds -> Seq(Times)]
         /\ \A k \in Kinds : \A j \in 1 .. Len(eventPackets'[k]) :
              \E m \in 1 .. Len(eventPackets[k]) :
                eventPackets'[k][j] = eventPackets[k][m]
         /\ EpochInv' /\ OrderInv' /\ EventsAreKept' /\ ContainersInTimeOrder'
<1>1. /\ TypeInv /\ PlaceInv /\ EpochInv /\ OrderInv /\ LimitInv
      /\ container = Nothing /\ packet = NoPacket
  BY DEF IInv, PlaceInv
<1>2. /\ pc' = "put"
      /\ UNCHANGED <<packet, lastPacketTimestamp, lastTimestampOverflow,
                     sizeLimitHit, sizeLimitTimestamp, newContainerSizeLimit,
                     unsent, latest, horizon>>
  BY DEF Generate, clock
<1>3. /\ container' \in [Kinds -> Seq(Times)]
      /\ eventPackets' \in [Kinds -> Seq(Times)]
  <2>1. \A k \in Kinds : /\ container'[k] \in Seq(Times)
                         /\ eventPackets'[k] \in Seq(Times)
    BY <1>1, CutParts
  <2> QED BY <2>1 DEF Generate
<1>4. ASSUME NEW k \in Kinds, NEW j \in 1 .. Len(eventPackets'[k])
      PROVE  \E m \in 1 .. Len(eventPackets[k]) :
               eventPackets'[k][j] = eventPackets[k][m]
  <2>1. \E c \in 1 .. Len(eventPackets[k]) :
          \E m \in c .. Len(eventPackets[k]) :
            eventPackets'[k][j] = eventPackets[k][m]
    BY <1>1, LeftParts
  <2>2. eventPackets[k] \in Seq(Times) BY <1>1 DEF TypeInv
  <2>3. Len(eventPackets[k]) \in Nat BY <2>2, LenProperties
  <2>4. \A c \in 1 .. Len(eventPackets[k]) :
          \A m \in c .. Len(eventPackets[k]) : m \in 1 .. Len(eventPackets[k])
    BY <2>3
  <2> QED BY <2>1, <2>4
<1>5. EpochInv'
  <2>1. ASSUME NEW k \in Kinds, NEW j \in 1 .. Len(eventPackets'[k])
        PROVE  Epoch(eventPackets'[k][j]) = lastTimestampOverflow
    BY <1>1, <1>4 DEF EpochInv
  <2> QED BY <1>1, <1>2, <2>1 DEF EpochInv
<1>6. ASSUME NEW k \in Kinds, NEW i \in 1 .. Len(container'[k])
      PROVE  container'[k][i] <= lastPacketTimestamp
  <2> DEFINE t == eventPackets[k][i]
  <2>1. /\ i \in 1 .. Len(eventPackets[k]) /\ container'[k][i] = t
        /\ ~Stays(eventPackets[k], i)
    BY <1>1, CutParts
  <2>2. t \in Times BY <1>1, <2>1, HeldInOrder
  <2>3. /\ t \in Int /\ lastPacketTimestamp \in Int
        /\ newContainerTimestampEnd \in Int /\ sizeLimitTimestamp \in Int
    <3>1. t \in Int BY <2>2, TimesAreNatural
    <3>2. lastPacketTimestamp \in Times BY <1>1 DEF TypeInv
    <3>3. lastPacketTimestamp \in Int BY <3>2, TimesAreNatural
    <3>4. newContainerTimestampEnd \in Int /\ sizeLimitTimestamp \in Int
      BY <1>1 DEF TypeInv
    <3> QED BY <3>1, <3>3, <3>4
  <2>4. /\ ~ t > newContainerTimestampEnd
        /\ sizeLimitHit => ~ t > sizeLimitTimestamp
    BY <2>1 DEF Stays
  <2> HIDE DEF t
  <2>5. ASSUME SizeCommit PROVE t <= lastPacketTimestamp
    BY <2>3, <2>4, <2>5 DEF SizeCommit
  <2>6. ASSUME TimeCommit PROVE t <= lastPacketTimestamp
    BY <2>3, <2>4, <2>6 DEF TimeCommit
  <2>7. t <= lastPacketTimestamp BY <2>5, <2>6
  <2> QED BY <2>1, <2>7
<1>7. ASSUME NEW k \in Kinds, NEW l \in Kinds,
             NEW i \in 1 .. Len(container'[k]),
             NEW j \in 1 .. Len(eventPackets'[l])
      PROVE  container'[k][i] <= eventPackets'[l][j]
  <2>1. /\ i \in 1 .. Len(eventPackets[k])
        /\ container'[k][i] = eventPackets[k][i]
        /\ ~Stays(eventPackets[k], i)
    BY <1>1, CutParts
  <2>2a. PICK c \in 1 .. Len(eventPackets[l]) :
          \E m \in c .. Len(eventPackets[l]) :
            /\ Stays(eventPackets[l], c)
            /\ eventPackets'[l][j] = eventPackets[l][m]
    BY <1>1, LeftParts
  <2>2. PICK m \in c .. Len(eventPackets[l]) :
          Stays(eventPackets[l], c) /\ eventPackets'[l][j] = eventPackets[l][m]
    BY <2>2a
  <2> DEFINE goes == eventPackets[k][i]
             at == eventPackets[l][c]
             left == eventPackets[l][m]
  <2>3. goes <= at BY <1>1, <2>1, <2>2, StayersAreLater
  <2>4. at <= left /\ at \in Times BY <1>1, HeldInOrder
  <2>5. m \in 1 .. Len(eventPackets[l])
    <3>1. eventPackets[l] \in Seq(Times) BY <1>1 DEF TypeInv
    <3>2. Len(eventPackets[l]) \in Nat BY <3>1, LenProperties
    <3> QED BY <3>2
  <2>6. goes \in Times /\ left \in Times BY <1>1, <2>1, <2>5, HeldInOrder
  <2>7. goes \in Int /\ at \in Int /\ left \in Int
    BY <2>4, <2>6, TimesAreNatural
  <2> HIDE DEF goes, at, left
  <2>8. goes <= left BY <2>3, <2>4, <2>7
  <2> QED BY <2>1, <2>2, <2>8 DEF goes, left
<1>8. OrderInv'
  <2>1. pc' # "flush" BY <1>2
  <2> QED BY <1>1, <1>2, <1>6, <1>7, <2>1 DEF OrderInv
<1>9. EventsAreKept'
  <2>1. ASSUME NEW k \in Kinds
        PROVE  (container'[k] \o eventPackets'[k]) \o Arriving(k)' = unsent'[k]
    <3>1. container'[k] \o eventPackets'[k] = eventPackets[k]
      BY <1>1, CutParts
    <3>2. Arriving(k)' = Arriving(k) /\ unsent'[k] = unsent[k]
      BY <1>2 DEF Arriving
    <3>3. unsent[k] = eventPackets[k] \o Arriving(k)
      BY <1>1, HeldIsUnsent DEF IInv
    <3> QED BY <3>1, <3>2, <3>3
  <2> QED BY <2>1 DEF EventsAreKept, Underway, Arriving
<1>10. ContainersInTimeOrder'
  BY <1>2 DEF IInv, ContainersInTimeOrder
<1> QED BY <1>3, <1>4, <1>5, <1>8, <1>9, <1>10

LEMMA CommitSizeStep == IInv /\ CommitSize => IInv'
<1> SUFFICES ASSUME IInv, CommitSize PROVE IInv'
  OBVIOUS
<1>1. /\ TypeInv /\ PlaceInv /\ LimitInv /\ SliceInv /\ packet = NoPacket
  BY DEF IInv, PlaceInv, CommitSize
<1>2. /\ pc = "commit" /\ Generate /\ SizeCommit
      /\ UNCHANGED <<newContainerTimestampEnd, sliceStart>>
  BY DEF CommitSize
<1>3. /\ pc' = "put"
      /\ UNCHANGED <<packet, lastPacketTimestamp, lastTimestampOverflow,
                     sizeLimitHit, sizeLimitTimestamp, newContainerSizeLimit,
                     unsent, latest, horizon>>
  BY <1>2 DEF Generate, clock
<1>4. /\ container' \in [Kinds -> Seq(Times)]
      /\ eventPackets' \in [Kinds -> Seq(Times)]
      /\ \A k \in Kinds : \A j \in 1 .. Len(eventPackets'[k]) :
           \E m \in 1 .. Len(eventPackets[k]) :
             eventPackets'[k][j] = eventPackets[k][m]
      /\ EpochInv' /\ OrderInv' /\ EventsAreKept' /\ ContainersInTimeOrder'
  BY <1>2, GenerateStep
<1>5. TypeInv' BY <1>1, <1>2, <1>3, <1>4 DEF TypeInv, Places
<1>6. PlaceInv' BY <1>1, <1>2, <1>3 DEF PlaceInv
<1>7. LimitInv' BY <1>1, <1>2, <1>3 DEF LimitInv
<1>8. SliceInv' BY <1>1, <1>2, <1>3, <1>4 DEF SliceInv
<1> QED BY <1>4, <1>5, <1>6, <1>7, <1>8 DEF IInv

\* Only without a size limit that strikes first: all that is left is of a
\* later time slice.
LEMMA CommitTimeStep == IInv /\ CommitTime => IInv'
<1> SUFFICES ASSUME IInv, CommitTime PROVE IInv'
  OBVIOUS
<1>1. /\ TypeInv /\ PlaceInv /\ LimitInv /\ SliceInv
      /\ packet = NoPacket /\ container = Nothing
      /\ newContainerTimestampEnd \in Nat
  BY DEF IInv, PlaceInv, TypeInv, CommitTime
<1>2. PICK timeSlice \in TimeSlices :
        newContainerTimestampEnd' = newContainerTimestampEnd + timeSlice
  BY DEF CommitTime
<1>3. /\ pc = "commit" /\ Generate /\ TimeCommit /\ ~SizeCommit
      /\ sliceStart' = newContainerTimestampEnd + 1
  BY DEF CommitTime
<1>4. /\ pc' = "put"
      /\ UNCHANGED <<packet, lastPacketTimestamp, lastTimestampOverflow,
                     sizeLimitHit, sizeLimitTimestamp, newContainerSizeLimit,
                     unsent, latest, horizon>>
  BY <1>3 DEF Generate, clock
<1>5. /\ container' \in [Kinds -> Seq(Times)]
      /\ eventPackets' \in [Kinds -> Seq(Times)]
      /\ EpochInv' /\ OrderInv' /\ EventsAreKept' /\ ContainersInTimeOrder'
  BY <1>3, GenerateStep
<1>6. /\ lastPacketTimestamp \in Int /\ sizeLimitTimestamp \in Int
      /\ timeSlice \in Nat \ {0}
  BY <1>1, TimesAreNatural, InputAssemblerAssumption DEF TypeInv
<1>7. newContainerTimestampEnd < lastPacketTimestamp
  BY <1>1, <1>3, <1>6 DEF TimeCommit
<1>8. ~sizeLimitHit
  <2> SUFFICES ASSUME sizeLimitHit PROVE FALSE
    OBVIOUS
  <2>1. sizeLimitTimestamp < newContainerTimestampEnd BY <1>1 DEF LimitInv
  <2>2. lastPacketTimestamp > sizeLimitTimestamp BY <1>1, <1>6, <1>7, <2>1
  <2> QED BY <1>3, <2>2 DEF SizeCommit
<1>9. TypeInv'
  <2>1. newContainerTimestampEnd' \in Nat /\ sliceStart' \in Nat
    BY <1>1, <1>2, <1>3, <1>6
  <2> QED BY <1>1, <1>4, <1>5, <2>1 DEF TypeInv, Places
<1>10. PlaceInv' 
  <2>1. newContainerTimestampEnd' # -1 BY <1>1, <1>2, <1>6
  <2> QED BY <1>1, <1>4, <2>1 DEF PlaceInv
<1>11. LimitInv' BY <1>4, <1>8 DEF LimitInv
<1>12. SliceInv'
  <2>1. sliceStart' <= lastPacketTimestamp'
    BY <1>1, <1>3, <1>4, <1>6, <1>7
  <2>2. ASSUME NEW k \in Kinds, NEW j \in 1 .. Len(eventPackets'[k])
        PROVE  eventPackets'[k][j] >= sliceStart'
    <3>1a. PICK c \in 1 .. Len(eventPackets[k]) :
             \E m \in c .. Len(eventPackets[k]) :
               /\ Stays(eventPackets[k], c)
               /\ eventPackets'[k][j] = eventPackets[k][m]
      BY <1>1, <1>3, LeftParts
    <3>1. PICK m \in c .. Len(eventPackets[k]) :
            /\ Stays(eventPackets[k], c)
            /\ eventPackets'[k][j] = eventPackets[k][m]
      BY <3>1a
    <3> DEFINE at == eventPackets[k][c]
               left == eventPackets[k][m]
    <3>2. at <= left /\ at \in Times BY <1>1, HeldInOrder
    <3>3. m \in 1 .. Len(eventPackets[k])
      <4>1. eventPackets[k] \in Seq(Times) BY <1>1 DEF TypeInv
      <4>2. Len(eventPackets[k]) \in Nat BY <4>1, LenProperties
      <4> QED BY <4>2
    <3>4. left \in Times BY <1>1, <3>3, HeldInOrder
    <3>5. at \in Int /\ left \in Int BY <3>2, <3>4, TimesAreNatural
    <3>6. at > newContainerTimestampEnd BY <1>8, <3>1 DEF Stays
    <3> HIDE DEF at, left
    <3>7. left >= newContainerTimestampEnd + 1
      BY <1>1, <3>2, <3>5, <3>6
    <3> QED BY <1>3, <3>1, <3>7 DEF left
  <2> QED BY <2>1, <2>2 DEF SliceInv
<1> QED BY <1>5, <1>9, <1>10, <1>11, <1>12 DEF IInv
-----------------------------------------------------------------------------
(* The theorems.                                                           *)

LEMMA NextPreserves == IInv /\ [Next]_vars => IInv'
<1> SUFFICES ASSUME IInv, [Next]_vars PROVE IInv'
  OBVIOUS
<1>1. CASE GetPacket BY <1>1, GetPacketStep
<1>2. CASE GetReset BY <1>2, GetResetStep
<1>3. CASE AddPacket BY <1>3, AddPacketStep
<1>4. CASE Flush BY <1>4, FlushStep
<1>5. CASE CommitSize BY <1>5, CommitSizeStep
<1>6. CASE CommitTime BY <1>6, CommitTimeStep
<1>7. CASE EndCommit
  <2>1. /\ pc = "commit" /\ pc' = "get"
        /\ UNCHANGED <<packet, eventPackets, clock, limits, container, unsent,
                       latest, horizon, sliceStart>>
    BY <1>7 DEF EndCommit
  <2> QED BY <2>1, QuietStep
<1>8. CASE PutAll BY <1>8, PutAllStep
<1>9. CASE Put BY <1>9, PutStep
<1>10. CASE SendReset BY <1>10, SendResetStep
<1>11. CASE UNCHANGED vars
  <2>1. /\ pc' = pc
        /\ UNCHANGED <<packet, eventPackets, clock, limits, container, unsent,
                       latest, horizon, sliceStart>>
    BY <1>11 DEF vars
  <2> QED BY <2>1, QuietStep
<1> QED BY <1>1, <1>2, <1>3, <1>4, <1>5, <1>6, <1>7, <1>8, <1>9, <1>10, <1>11
    DEF Next, Step

\* The inductive invariant of inputAssemblerThread.
THEOREM Invariance == Spec => []IInv
<1>1. Init => IInv BY InitEstablishes
<1>2. IInv /\ [Next]_vars => IInv' BY NextPreserves
<1> QED BY <1>1, <1>2, PTL DEF Spec

\* addToPacketContainer, generatePacketContainer and handleTSReset lose,
\* repeat and reorder no event of a kind (1131-1222, 1287-1463, 1497-1568).
THEOREM KeepsEvents == Spec => []EventsAreKept
<1>1. IInv => EventsAreKept BY DEF IInv
<1> QED BY <1>1, Invariance, PTL

\* A container ends where all that is held or may still come begins, whatever
\* kinds, intervals and size limits (generatePacketContainer, 1287-1463).
THEOREM SendsInTimeOrder == Spec => []ContainersInTimeOrder
<1>1. IInv => ContainersInTimeOrder BY DEF IInv
<1> QED BY <1>1, Invariance, PTL

\* The actions that cut a slice off are the two commits.
LEMMA OnlyCommitsCut ==
  ASSUME [Next]_vars, pc = "commit", pc' = "put"
  PROVE  Generate /\ (SizeCommit \/ TimeCommit)
BY DEF Next, Step, vars, GetPacket, GetReset, AddPacket, Flush, CommitSize,
       CommitTime, EndCommit, PutAll, Put, SendReset

LEMMA CutKeepsLimits ==
  ASSUME IInv, pc = "commit", Generate, NEW k \in Kinds
  PROVE  /\ Range(container'[k]) \subseteq sliceStart .. newContainerTimestampEnd
         /\ \/ Len(container'[k]) <= newContainerSizeLimit
            \/ container'[k][newContainerSizeLimit] = newContainerTimestampEnd
<1>1. /\ TypeInv /\ container = Nothing
      /\ newContainerTimestampEnd \in Int /\ sliceStart \in Int
      /\ newContainerSizeLimit \in Nat \ {0}
  BY InputAssemblerAssumption DEF IInv, PlaceInv, TypeInv
<1>2. /\ container'[k] \in Seq(Times)
      /\ \A i \in 1 .. Len(container'[k]) :
           /\ i \in 1 .. Len(eventPackets[k])
           /\ container'[k][i] = eventPackets[k][i]
           /\ ~Stays(eventPackets[k], i)
  BY <1>1, CutParts
<1>3. ASSUME NEW i \in 1 .. Len(container'[k])
      PROVE  /\ container'[k][i] \in Int
             /\ container'[k][i] >= sliceStart
             /\ container'[k][i] <= newContainerTimestampEnd
  <2>1. container'[k][i] \in Times BY <1>2, ElementOfSeq
  <2>2. container'[k][i] \in Int BY <2>1, TimesAreNatural
  <2>3. container'[k][i] >= sliceStart BY <1>2 DEF IInv, SliceInv
  <2>4. ~ container'[k][i] > newContainerTimestampEnd BY <1>2 DEF Stays
  <2> DEFINE t == container'[k][i]
  <2>5. t \in Int /\ ~ t > newContainerTimestampEnd BY <2>2, <2>4
  <2> HIDE DEF t
  <2>6. t <= newContainerTimestampEnd BY <1>1, <2>5
  <2> QED BY <2>2, <2>3, <2>6 DEF t
<1>4. Range(container'[k]) \subseteq sliceStart .. newContainerTimestampEnd
  <2> SUFFICES ASSUME NEW t \in Range(container'[k])
               PROVE  t \in sliceStart .. newContainerTimestampEnd
    OBVIOUS
  <2>1. DOMAIN container'[k] = 1 .. Len(container'[k])
    BY <1>2, LenProperties
  <2>2. PICK i \in 1 .. Len(container'[k]) : t = container'[k][i]
    BY <2>1 DEF Range
  <2> QED BY <1>1, <1>3, <2>2
<1>5. ASSUME ~ Len(container'[k]) <= newContainerSizeLimit
      PROVE  container'[k][newContainerSizeLimit] = newContainerTimestampEnd
  <2> DEFINE limit == newContainerSizeLimit
             n == Len(container'[k])
             t == container'[k][limit]
  <2>1. n \in Nat BY <1>2, LenProperties
  <2>2. limit \in 1 .. n /\ limit + 1 \in 1 .. n /\ limit + 1 > limit
    BY <1>1, <1>5, <2>1
  <2>3. ~sizeLimitHit
    <3>1. ~Stays(eventPackets[k], limit + 1) BY <1>2, <2>2
    <3> QED BY <2>2, <3>1 DEF Stays
  <2>4. eventPackets[k][limit] >= newContainerTimestampEnd
    <3>1. limit \in 1 .. Len(eventPackets[k]) BY <1>2, <2>2
    <3>2. eventPackets[k] \in Seq(Times) BY <1>1 DEF TypeInv
    <3>3. Len(eventPackets[k]) \in Nat BY <3>2, LenProperties
    <3>4. Len(eventPackets[k]) >= limit BY <1>1, <3>1, <3>3
    <3> QED BY <2>3, <3>4 DEF IInv, LimitInv
  <2>5. /\ t \in Int /\ t >= newContainerTimestampEnd
        /\ t <= newContainerTimestampEnd
    BY <1>2, <1>3, <2>2, <2>4
  <2> HIDE DEF t
  <2>6. t = newContainerTimestampEnd BY <1>1, <2>5
  <2> QED BY <2>6 DEF t
<1> QED BY <1>4, <1>5

\* What a commit slices off belongs to one time slice and keeps the size
\* limit, but for events of the slice's last instant (updateSizeCommitCriteria
\* and generatePacketContainer, 1260-1463).
THEOREM KeepsLimits == Spec => SlicesKeepLimits
<1> DEFINE Cut == pc = "commit" /\ pc' = "put" =>
             \A k \in Kinds :
               /\ Range(container'[k])
                    \subseteq sliceStart .. newContainerTimestampEnd
               /\ \/ Len(container'[k]) <= newContainerSizeLimit
                  \/ container'[k][newContainerSizeLimit]
                       = newContainerTimestampEnd
<1>1. IInv /\ [Next]_vars => [Cut]_vars
  <2> SUFFICES ASSUME IInv, [Next]_vars, pc = "commit", pc' = "put"
               PROVE  Cut
    OBVIOUS
  <2> QED BY OnlyCommitsCut, CutKeepsLimits
<1>2. [][Next]_vars /\ []IInv => [][Cut]_vars BY <1>1, PTL
<1> QED BY <1>2, Invariance, PTL DEF Spec, SlicesKeepLimits

-----------------------------------------------------------------------------
(* Types: merged packets and containers never mix epochs, and the time of  *)
(* the size limit is one of the first epoch.                               *)

WholeInv == \A k \in Kinds : OneEpoch(eventPackets[k]) /\ OneEpoch(container[k])

RestInv ==
  /\ packet \in [kind : Kinds, events : Seq(Times), reset : BOOLEAN]
  /\ sizeLimitTimestamp \in 0 .. Int32Max

LEMMA PartOfOneEpoch ==
  ASSUME NEW s, OneEpoch(s), NEW t \in Seq(Times),
         \A j \in 1 .. Len(t) : \E m \in 1 .. Len(s) : t[j] = s[m]
  PROVE  OneEpoch(t)
<1>1. Len(t) \in Nat
  BY LenProperties
<1>2. ASSUME NEW j \in 1 .. Len(t) PROVE Epoch(t[j]) = Epoch(t[1])
  <2>1. 1 \in 1 .. Len(t) BY <1>1
  <2>2. PICK m \in 1 .. Len(s) : t[j] = s[m] OBVIOUS
  <2>3. PICK i \in 1 .. Len(s) : t[1] = s[i] BY <2>1
  <2>4. Epoch(s[m]) = Epoch(s[1]) /\ Epoch(s[i]) = Epoch(s[1])
    BY DEF OneEpoch
  <2> QED BY <2>2, <2>3, <2>4
<1> QED BY <1>2 DEF OneEpoch

LEMMA NothingIsWhole ==
  \A k \in Kinds : OneEpoch(Nothing[k])
<1> SUFFICES ASSUME NEW k \in Kinds PROVE OneEpoch(Nothing[k])
  OBVIOUS
<1>1. Nothing[k] \in Seq(Times) /\ Len(Nothing[k]) = 0
  BY NothingIsEmpty
<1> QED BY <1>1 DEF OneEpoch

LEMMA GenerateWhole ==
  ASSUME IInv, WholeInv, Generate
  PROVE  WholeInv'
<1> SUFFICES ASSUME NEW k \in Kinds
             PROVE  OneEpoch(eventPackets'[k]) /\ OneEpoch(container'[k])
  BY DEF WholeInv, OneEpoch
<1>1. TypeInv /\ OneEpoch(eventPackets[k])
  BY DEF IInv, WholeInv
<1>2. /\ container'[k] \in Seq(Times) /\ eventPackets'[k] \in Seq(Times)
      /\ \A i \in 1 .. Len(container'[k]) :
           \E m \in 1 .. Len(eventPackets[k]) :
             container'[k][i] = eventPackets[k][m]
  BY <1>1, CutParts
<1>3. \A j \in 1 .. Len(eventPackets'[k]) :
        \E m \in 1 .. Len(eventPackets[k]) :
          eventPackets'[k][j] = eventPackets[k][m]
  <2>1. Len(eventPackets[k]) \in Nat
    BY <1>1, LenProperties DEF TypeInv
  <2>2. \A c \in 1 .. Len(eventPackets[k]) :
          c .. Len(eventPackets[k]) \subseteq 1 .. Len(eventPackets[k])
    BY <2>1
  <2> QED BY <1>1, <2>2, LeftParts, Zenon
<1> DEFINE s == eventPackets[k]
           first == container'[k]
           rest == eventPackets'[k]
<1>4. /\ OneEpoch(s) /\ first \in Seq(Times) /\ rest \in Seq(Times)
      /\ \A j \in 1 .. Len(first) : \E m \in 1 .. Len(s) : first[j] = s[m]
      /\ \A j \in 1 .. Len(rest) : \E m \in 1 .. Len(s) : rest[j] = s[m]
  BY <1>1, <1>2, <1>3
<1> SUFFICES OneEpoch(first) /\ OneEpoch(rest)
  OBVIOUS
<1> HIDE DEF s, first, rest
<1>5. OneEpoch(first) BY <1>4, PartOfOneEpoch
<1>6. OneEpoch(rest) BY <1>4, PartOfOneEpoch
<1> QED BY <1>5, <1>6

LEMMA WholeStep == IInv /\ WholeInv /\ [Next]_vars => WholeInv'
<1> SUFFICES ASSUME IInv, WholeInv, [Next]_vars PROVE WholeInv'
  OBVIOUS
<1>1. CASE UNCHANGED <<eventPackets, container>>
  BY <1>1 DEF WholeInv, OneEpoch
<1>2. CASE AddPacket /\ eventPackets' # eventPackets
  <2> DEFINE merged == eventPackets[packet.kind] \o packet.events
  <2>1. /\ OneEpoch(merged) /\ container' = container
        /\ eventPackets' = [eventPackets EXCEPT ![packet.kind] = merged]
    BY <1>2 DEF AddPacket
  <2> HIDE DEF merged
  <2> SUFFICES ASSUME NEW k \in Kinds
               PROVE  OneEpoch(eventPackets'[k]) /\ OneEpoch(container'[k])
    BY DEF WholeInv, OneEpoch
  <2>2. eventPackets'[k] = IF k = packet.kind THEN merged ELSE eventPackets[k]
    BY <2>1 DEF IInv, TypeInv
  <2>3. OneEpoch(container'[k])
    BY <2>1 DEF WholeInv
  <2>4. eventPackets'[k] = merged \/ eventPackets'[k] = eventPackets[k]
    BY <2>2
  <2>5. OneEpoch(eventPackets[k])
    BY DEF WholeInv
  <2> QED BY ONLY <2>1, <2>3, <2>4, <2>5
<1>3. CASE Flush
  <2>1. container' = eventPackets /\ eventPackets' = Nothing
    BY <1>3 DEF Flush
  <2> QED BY <2>1, NothingIsWhole DEF WholeInv, OneEpoch
<1>4. CASE CommitSize \/ CommitTime
  <2>1. Generate BY <1>4 DEF CommitSize, CommitTime
  <2> QED BY <2>1, GenerateWhole
<1>5. CASE PutAll \/ Put
  <2>1. container' = Nothing /\ eventPackets' = eventPackets
    BY <1>5 DEF PutAll, Put, Leave
  <2> QED BY <2>1, NothingIsWhole DEF WholeInv, OneEpoch
<1>6. CASE GetPacket \/ GetReset \/ EndCommit \/ SendReset \/ UNCHANGED vars
  <2>1. UNCHANGED <<eventPackets, container>>
    BY <1>6 DEF GetPacket, GetReset, EndCommit, SendReset, vars
  <2> QED BY <1>1, <2>1
<1>7. CASE AddPacket /\ eventPackets' = eventPackets
  <2>1. UNCHANGED <<eventPackets, container>>
    BY <1>7 DEF AddPacket
  <2> QED BY <1>1, <2>1
<1> QED
  BY <1>2, <1>3, <1>4, <1>5, <1>6, <1>7 DEF Next, Step

LEMMA PacketStep ==
  ASSUME IInv, RestInv, [Next]_vars
  PROVE  packet' \in [kind : Kinds, events : Seq(Times), reset : BOOLEAN]
<1> DEFINE Types == [kind : Kinds, events : Seq(Times), reset : BOOLEAN]
<1>1. NoPacket \in Types
  BY EmptySeq, InputAssemblerAssumption DEF NoPacket
<1>2. CASE GetPacket
  <2>1. PICK k \in Kinds, s \in Packets :
          Accept([kind |-> k, events |-> s, reset |-> FALSE])
    BY <1>2 DEF GetPacket
  <2>2. packet' = [kind |-> k, events |-> s, reset |-> FALSE]
    BY <2>1 DEF Accept
  <2> QED BY <2>2, SourceSeq
<1>3. CASE GetReset
  <2>1. PICK e \in 0 .. MaxEpoch :
          Accept([kind |-> Special, events |-> <<e * Wrap + Int32Max>>,
                  reset |-> TRUE])
    BY <1>3 DEF GetReset
  <2> DEFINE time == e * Wrap + Int32Max
  <2>2. packet' = [kind |-> Special, events |-> <<time>>, reset |-> TRUE]
    BY <2>1 DEF Accept
  <2>3. time \in Times
    BY LastInstant
  <2> HIDE DEF time
  <2>4. <<time>> \in Seq(Times)
    BY <2>3
  <2> QED BY <2>2, <2>4, InputAssemblerAssumption
<1>4. CASE AddPacket \/ SendReset
  <2>1. packet' = NoPacket BY <1>4 DEF AddPacket, SendReset
  <2> QED BY <1>1, <2>1
<1>5. CASE \/ Flush \/ CommitSize \/ CommitTime \/ EndCommit \/ PutAll
           \/ Put \/ UNCHANGED vars
  <2>1. packet' = packet
    BY <1>5 DEF Flush, CommitSize, CommitTime, EndCommit, PutAll, Put,
                Generate, vars
  <2> QED BY <2>1 DEF RestInv
<1> QED BY <1>2, <1>3, <1>4, <1>5 DEF Next, Step

LEMMA LimitStep ==
  ASSUME IInv, RestInv, [Next]_vars
  PROVE  sizeLimitTimestamp' \in 0 .. Int32Max
<1>1. /\ sizeLimitTimestamp \in 0 .. Int32Max /\ Int32Max \in Nat
      /\ TypeInv
  BY TimesAreNatural DEF RestInv, IInv
<1>2. ASSUME NEW old \in 0 .. Int32Max, NEW hits, hits \subseteq Nat
      PROVE  Min({old} \cup hits) \in 0 .. Int32Max
  <2>1. {old} \cup hits \subseteq Nat /\ {old} \cup hits # {}
    BY <1>1, <1>2
  <2> DEFINE least == Min({old} \cup hits)
  <2>2. least \in {old} \cup hits /\ least <= old
    BY <2>1, LeastIsMin
  <2> HIDE DEF least
  <2>3. least \in Nat /\ least <= Int32Max
    BY <1>1, <2>1, <2>2
  <2> QED BY <1>1, <2>3 DEF least
<1>3. CASE AddPacket /\ sizeLimitTimestamp' # sizeLimitTimestamp
  <2> DEFINE k == packet.kind
             merged == eventPackets[k] \o packet.events
             hits == LimitTimes([eventPackets EXCEPT ![k] = merged],
                                newContainerSizeLimit,
                                newContainerTimestampEnd, {k})
  <2>1. sizeLimitTimestamp' = Min({sizeLimitTimestamp} \cup hits)
    BY <1>3 DEF AddPacket
  <2>2. k \in Kinds /\ merged \in Seq(Times)
    BY <1>3, MergedIsOneEpoch DEF AddPacket
  <2>3. [eventPackets EXCEPT ![k] = merged] \in [Kinds -> Seq(Times)]
    BY <1>1, <2>2 DEF TypeInv
  <2>4. /\ newContainerSizeLimit \in Nat \ {0}
        /\ newContainerTimestampEnd \in Int
    BY <1>1, InputAssemblerAssumption DEF TypeInv
  <2>5. \A t \in hits : t \in Nat
    BY <2>2, <2>3, <2>4, LimitTimesFound
  <2> HIDE DEF hits
  <2> QED BY <1>1, <1>2, <2>1, <2>5
<1>4. CASE Put
  <2>1. PICK sizeSlice \in SizeSlices :
          sizeLimitTimestamp' =
            Min({Int32Max} \cup LimitTimes(eventPackets, sizeSlice,
                                           newContainerTimestampEnd, Kinds))
    BY <1>4 DEF Put
  <2> DEFINE hits == LimitTimes(eventPackets, sizeSlice,
                                newContainerTimestampEnd, Kinds)
  <2>2. /\ sizeSlice \in Nat \ {0} /\ newContainerTimestampEnd \in Int
        /\ eventPackets \in [Kinds -> Seq(Times)]
    BY <1>1, InputAssemblerAssumption DEF TypeInv
  <2>3. \A t \in hits : t \in Nat
    BY <2>2, LimitTimesFound
  <2>4. Int32Max \in 0 .. Int32Max
    BY <1>1
  <2> HIDE DEF hits
  <2> QED BY <1>2, <2>1, <2>3, <2>4 DEF hits
<1>5. CASE PutAll
  BY <1>1, <1>5 DEF PutAll
<1>6. CASE \/ GetPacket \/ GetReset \/ Flush \/ CommitSize \/ CommitTime
           \/ EndCommit \/ SendReset \/ UNCHANGED vars
           \/ sizeLimitTimestamp' = sizeLimitTimestamp
  <2>1. sizeLimitTimestamp' = sizeLimitTimestamp
    BY <1>6 DEF GetPacket, GetReset, Flush, CommitSize, CommitTime, EndCommit,
                SendReset, Generate, limits, vars
  <2> QED BY <1>1, <2>1
<1> QED BY <1>3, <1>4, <1>5, <1>6 DEF Next, Step

\* Merged packets and containers hold events of a single epoch, as packets
\* with one tsOverflow must, whatever is merged and cut; the thread's limits
\* keep their ranges (addToPacketContainer, 1131-1222).
THEOREM TypeCorrect == Spec => []TypeOK
<1>1. Init => WholeInv /\ RestInv
  <2> SUFFICES ASSUME Init PROVE WholeInv /\ RestInv
    OBVIOUS
  <2>1. /\ packet = NoPacket /\ sizeLimitTimestamp = Int32Max
        /\ eventPackets = Nothing /\ container = Nothing
    BY DEF Init
  <2>2. NoPacket \in [kind : Kinds, events : Seq(Times), reset : BOOLEAN]
    BY EmptySeq, InputAssemblerAssumption DEF NoPacket
  <2>3. Int32Max \in 0 .. Int32Max
    BY TimesAreNatural
  <2> QED BY <2>1, <2>2, <2>3, NothingIsWhole DEF WholeInv, RestInv
<1>2. IInv /\ WholeInv /\ RestInv /\ [Next]_vars => (WholeInv /\ RestInv)'
  BY WholeStep, PacketStep, LimitStep DEF RestInv
<1>3. IInv /\ WholeInv /\ RestInv => TypeOK
  <2> SUFFICES ASSUME IInv, WholeInv, RestInv PROVE TypeOK
    OBVIOUS
  <2>1. TypeInv /\ lastTimestampOverflow = Epoch(lastPacketTimestamp)
    BY DEF IInv, EpochInv
  <2>2. \A t \in Times : Epoch(t) \in 0 .. MaxEpoch
    BY InputAssemblerAssumption DEF Times, Epoch
  <2>3. lastTimestampOverflow \in 0 .. MaxEpoch
    BY <2>1, <2>2 DEF TypeInv
  <2>4. newContainerTimestampEnd \in Int
    BY <2>1 DEF TypeInv
  <2> QED
    BY <2>1, <2>3, <2>4, Zenon DEF TypeInv, WholeInv, RestInv, TypeOK
<1> QED BY <1>1, <1>2, <1>3, Invariance, PTL DEF Spec
=============================================================================
