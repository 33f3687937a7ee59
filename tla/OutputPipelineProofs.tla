------------------------ MODULE OutputPipelineProofs ------------------------
(***************************************************************************)
(* Proofs about OutputPipeline, for ring-buffers of any size and any       *)
(* number of containers: types, the time order of what is written, that a  *)
(* reset separates the epochs in it, and which packets are lost while      *)
(* "keepPackets" is set: those an Output thread that ends does not wait    *)
(* for.                                                                    *)
(***************************************************************************)
EXTENDS OutputPipeline, SequenceTheorems, TLAPS

\* p and q are different packets, and p may be written before q.
Before(p, q) ==
  /\ p # q
  /\ p.epoch < q.epoch \/ (p.epoch = q.epoch /\ p.first <= q.first)
AllBefore(P, Q)  == \A p \in P, q \in Q : Before(p, q)
RankedSeq(s)     == \A i, j \in DOMAIN s : i < j => Before(s[i], s[j])
RankedSets(ring) == \A i, j \in DOMAIN ring : i < j => AllBefore(ring[i], ring[j])

\* What the threads hold in which phase.
PlaceInv ==
  /\ mainPc \notin {"put", "putReset"} => outgoing = {}
  /\ mainPc \in {"put", "ran", "putReset"} => status = "RUNNING"
  /\ mainPc = "pass" /\ status = "STOPPED"
       => /\ compressorPc = "none" /\ outputPc = "none"
          /\ compressorRing = <<>> /\ outputRing = <<>> /\ written = <<>>
          /\ copied = {}
  /\ mainPc \in {"joinOutput", "cleanUp"} => compressorPc = "exited"
  /\ compressorPc \in {"none", "exited"} => sending = {}
  /\ mainPc = "putReset" => epoch < containers
  /\ outputPc \in {"none", "waitSource", "discard"} => ~headerSent
  /\ kept => keepPackets

\* Packets are numbered by containers, and never later than lastTimestamp,
\* except for the reset that is about to be put.
All == Range(written) \cup Inside
BoundInv ==
  \A p \in All :
    /\ p.container <= containers /\ p.epoch <= epoch
    /\ \/ mainPc = "putReset" /\ p \in outgoing
       \/ p.epoch = epoch => p.first <= lastTimestamp

\* The packets of a container have seen the same resets.
Uniform(P) == \A p, q \in P : p.epoch = q.epoch
UniformInv ==
  /\ Uniform(outgoing) /\ Uniform(sending)
  /\ \A P \in Range(compressorRing) : Uniform(P)

\* Each stage holds packets that come before those of the stages behind it.
OrderInv ==
  /\ RankedSeq(written) /\ RankedSeq(outputRing) /\ RankedSets(compressorRing)
  /\ AllBefore(Range(written), Inside)
  /\ AllBefore(Range(outputRing), sending \cup Waiting \cup outgoing)
  /\ AllBefore(sending, Waiting \cup outgoing)
  /\ AllBefore(Waiting, outgoing)

\* The first part of NothingLost, but for what becomes of the packets that
\* are in a ring-buffer nobody reads any more: once the Output thread has
\* ended, these are all that the Compressor still had at that moment.
KeepInv == Promised => copied = All

Ends == {"drain", "discard", "exited"}

EndInv ==
  /\ running <=> status = "RUNNING"
  /\ outputPc = "putStop" => failure
  /\ outputPc \in Ends /\ ~failure => ~running
  /\ outputPc = "exited" /\ ~failure => All = Range(written) \cup unput

IInv ==
  /\ TypeOK /\ PlaceInv /\ BoundInv /\ UniformInv /\ OrderInv
  /\ KeepInv /\ EndInv

-----------------------------------------------------------------------------
(* Sequences and ring-buffers.                                             *)

\* Put: one element more.
LEMMA PutElement ==
  ASSUME NEW S, NEW s \in Seq(S), NEW e \in S
  PROVE  /\ Append(s, e) \in Seq(S)
         /\ Len(Append(s, e)) = Len(s) + 1
         /\ Len(s) \in Nat
         /\ Range(Append(s, e)) = Range(s) \cup {e}
<1>1. /\ Len(s) \in Nat
      /\ DOMAIN s = 1 .. Len(s)
      /\ DOMAIN Append(s, e) = 1 .. Len(s) + 1
  BY LenProperties, AppendProperties
<1>2. /\ \A i \in 1 .. Len(s) : Append(s, e)[i] = s[i]
      /\ Append(s, e)[Len(s) + 1] = e
  BY AppendProperties
<1>3. \A i \in 1 .. Len(s) + 1 : i \in 1 .. Len(s) \/ i = Len(s) + 1
  BY <1>1
<1>4. 1 .. Len(s) \subseteq 1 .. Len(s) + 1 /\ Len(s) + 1 \in 1 .. Len(s) + 1
  BY <1>1
<1>5. Range(Append(s, e)) = Range(s) \cup {e}
  BY <1>1, <1>2, <1>3, <1>4 DEF Range
<1> QED BY <1>1, <1>5, AppendProperties

\* Get: one element less.
LEMMA GetElement ==
  ASSUME NEW S, NEW s \in Seq(S), s # <<>>
  PROVE  /\ Head(s) \in S
         /\ Tail(s) \in Seq(S)
         /\ Len(Tail(s)) = Len(s) - 1
         /\ Len(s) \in Nat \ {0}
         /\ Range(s) = {Head(s)} \cup Range(Tail(s))
<1>1. /\ Len(s) \in Nat \ {0}
      /\ Head(s) \in S /\ Tail(s) \in Seq(S) /\ Len(Tail(s)) = Len(s) - 1
      /\ \A i \in 1 .. Len(s) - 1 : Tail(s)[i] = s[i + 1]
      /\ Head(s) = s[1]
  BY HeadTailProperties, EmptySeq, LenProperties
<1>2. /\ DOMAIN s = 1 .. Len(s)
      /\ DOMAIN Tail(s) = 1 .. Len(s) - 1
  BY <1>1, LenProperties
<1>3. \A i \in 1 .. Len(s) : i = 1 \/ (i - 1 \in 1 .. Len(s) - 1 /\ s[i] = Tail(s)[i - 1])
  BY <1>1
<1>4. \A i \in 1 .. Len(s) - 1 : i + 1 \in 1 .. Len(s) /\ 1 \in 1 .. Len(s)
  BY <1>1
<1>5. 1 \in 1 .. Len(s)
  BY <1>1
<1>6. ASSUME NEW x \in Range(s)
      PROVE  x \in {Head(s)} \cup Range(Tail(s))
  <2>1. PICK i \in 1 .. Len(s) : x = s[i]
    BY <1>2, <1>6 DEF Range
  <2>2. CASE i = 1
    BY <2>1, <2>2, <1>1
  <2>3. CASE i - 1 \in 1 .. Len(s) - 1 /\ s[i] = Tail(s)[i - 1]
    BY <2>1, <2>3, <1>2 DEF Range
  <2> QED BY <2>1, <2>2, <2>3, <1>3
<1>7. ASSUME NEW x \in Range(Tail(s))
      PROVE  x \in Range(s)
  BY <1>1, <1>2, <1>4 DEF Range
<1>8. Head(s) \in Range(s)
  BY <1>1, <1>2, <1>5 DEF Range
<1>9. Range(s) = {Head(s)} \cup Range(Tail(s))
  BY <1>6, <1>7, <1>8
<1> QED BY <1>1, <1>9

LEMMA EmptyRange ==
  <<>> \in Seq(Packets) /\ <<>> \in Seq(SUBSET Packets)
    /\ Range(<<>>) = {} /\ Len(<<>>) = 0
BY EmptySeq DEF Range

\* A packet that comes after all others can be put ...
LEMMA RankedAppend ==
  ASSUME NEW S, NEW s \in Seq(S), NEW e \in S,
         RankedSeq(s), AllBefore(Range(s), {e})
  PROVE  RankedSeq(Append(s, e))
<1>1. /\ Len(s) \in Nat
      /\ DOMAIN s = 1 .. Len(s)
      /\ DOMAIN Append(s, e) = 1 .. Len(s) + 1
      /\ \A i \in 1 .. Len(s) : Append(s, e)[i] = s[i]
      /\ Append(s, e)[Len(s) + 1] = e
  BY LenProperties, AppendProperties
<1>2. SUFFICES ASSUME NEW i \in 1 .. Len(s) + 1, NEW j \in 1 .. Len(s) + 1, i < j
               PROVE  Before(Append(s, e)[i], Append(s, e)[j])
  BY <1>1 DEF RankedSeq
<1>3. i \in 1 .. Len(s) /\ (j \in 1 .. Len(s) \/ j = Len(s) + 1)
  BY <1>1, <1>2
<1>4. s[i] \in Range(s)
  BY <1>1, <1>3 DEF Range
<1> QED BY <1>1, <1>2, <1>3, <1>4 DEF RankedSeq, AllBefore

\* ... and the oldest packet comes before all others.
LEMMA RankedTail ==
  ASSUME NEW S, NEW s \in Seq(S), s # <<>>, RankedSeq(s)
  PROVE  RankedSeq(Tail(s)) /\ AllBefore({Head(s)}, Range(Tail(s)))
<1>1. /\ Len(s) \in Nat \ {0}
      /\ Tail(s) \in Seq(S) /\ Len(Tail(s)) = Len(s) - 1
      /\ \A i \in 1 .. Len(s) - 1 : Tail(s)[i] = s[i + 1]
      /\ Head(s) = s[1]
      /\ DOMAIN s = 1 .. Len(s)
      /\ DOMAIN Tail(s) = 1 .. Len(s) - 1
  BY HeadTailProperties, EmptySeq, LenProperties
<1>2. \A i \in 1 .. Len(s) - 1 : i + 1 \in 1 .. Len(s) /\ 1 \in 1 .. Len(s) /\ 1 < i + 1
  BY <1>1
<1>3. RankedSeq(Tail(s))
  BY <1>1, <1>2 DEF RankedSeq
<1>4. AllBefore({Head(s)}, Range(Tail(s)))
  BY <1>1, <1>2 DEF RankedSeq, AllBefore, Range
<1> QED BY <1>3, <1>4

\* The same for the ring-buffer of containers.
LEMMA RankedSetsAppend ==
  ASSUME NEW S, NEW s \in Seq(S), NEW e \in S,
         RankedSets(s), AllBefore(UNION Range(s), e)
  PROVE  RankedSets(Append(s, e))
<1>1. /\ Len(s) \in Nat
      /\ DOMAIN s = 1 .. Len(s)
      /\ DOMAIN Append(s, e) = 1 .. Len(s) + 1
      /\ \A i \in 1 .. Len(s) : Append(s, e)[i] = s[i]
      /\ Append(s, e)[Len(s) + 1] = e
  BY LenProperties, AppendProperties
<1>2. SUFFICES ASSUME NEW i \in 1 .. Len(s) + 1, NEW j \in 1 .. Len(s) + 1, i < j
               PROVE  AllBefore(Append(s, e)[i], Append(s, e)[j])
  BY <1>1 DEF RankedSets
<1>3. i \in 1 .. Len(s) /\ (j \in 1 .. Len(s) \/ j = Len(s) + 1)
  BY <1>1, <1>2
<1>4. s[i] \in Range(s)
  BY <1>1, <1>3 DEF Range
<1>5. AllBefore(s[i], e)
  BY <1>4 DEF AllBefore
<1> QED BY <1>1, <1>2, <1>3, <1>5 DEF RankedSets

LEMMA RankedSetsTail ==
  ASSUME NEW S, NEW s \in Seq(S), s # <<>>, RankedSets(s)
  PROVE  RankedSets(Tail(s)) /\ AllBefore(Head(s), UNION Range(Tail(s)))
<1>1. /\ Len(s) \in Nat \ {0}
      /\ Tail(s) \in Seq(S) /\ Len(Tail(s)) = Len(s) - 1
      /\ \A i \in 1 .. Len(s) - 1 : Tail(s)[i] = s[i + 1]
      /\ Head(s) = s[1]
      /\ DOMAIN s = 1 .. Len(s)
      /\ DOMAIN Tail(s) = 1 .. Len(s) - 1
  BY HeadTailProperties, EmptySeq, LenProperties
<1>2. \A i \in 1 .. Len(s) - 1 : i + 1 \in 1 .. Len(s) /\ 1 \in 1 .. Len(s) /\ 1 < i + 1
  BY <1>1
<1>3. RankedSets(Tail(s))
  BY <1>1, <1>2 DEF RankedSets
<1>4. \A i \in 1 .. Len(s) - 1 : AllBefore(Head(s), Tail(s)[i])
  BY <1>1, <1>2 DEF RankedSets
<1>5. AllBefore(Head(s), UNION Range(Tail(s)))
  BY <1>1, <1>4 DEF AllBefore, Range
<1> QED BY <1>3, <1>5

-----------------------------------------------------------------------------
(* Steps that move no packet.                                              *)

Quiet ==
  \/ ModuleInit \/ NoReset \/ ModuleExit \/ JoinCompressor \/ JoinOutput
  \/ CompressorStops \/ CompressorExits
  \/ SendHeader \/ SendNoHeader \/ ExitFailed \/ OutputStops \/ OutputExits
  \/ \E b \in BOOLEAN : StopOrStart(b) \/ SetKeepPackets(b)

\* Where the packets are.
placeVars == <<outgoing, compressorRing, sending, outputRing, written>>

LEMMA QuietStep ==
  ASSUME Quiet
  PROVE  /\ UNCHANGED <<placeVars, lastTimestamp, copyHistory>>
         /\ mainPc' = "putReset" => mainPc = "putReset"
         /\ mainPc = "putReset" => mainPc' = "putReset"
BY Zenon DEF Quiet, placeVars, copyHistory, mainVars, outputVars,
   compressorVars, clientVars, ModuleInit, NoReset, ModuleExit,
   JoinCompressor, JoinOutput, CompressorStops, CompressorExits, SendHeader,
   SendNoHeader, ExitFailed, OutputStops, OutputExits, StopOrStart,
   SetKeepPackets

-----------------------------------------------------------------------------
(* Types.                                                                  *)

LEMMA InitIInv == Init => IInv
<1> SUFFICES ASSUME Init PROVE IInv
  OBVIOUS
<1> USE OutputPipelineAssumption, EmptyRange DEF Init
<1>1. /\ Range(written) = {} /\ Range(outputRing) = {}
      /\ Range(compressorRing) = {} /\ Inside = {}
  BY DEF Inside, Waiting
<1>2. DOMAIN written = {} /\ DOMAIN outputRing = {} /\ DOMAIN compressorRing = {}
  OBVIOUS
<1>3. TypeOK
  <2>1. /\ compressorRing \in Seq(SUBSET Packets) /\ Len(compressorRing) <= RingSize
        /\ outputRing \in Seq(Packets) /\ Len(outputRing) <= RingSize
        /\ written \in Seq(Packets)
    OBVIOUS
  <2>2. /\ lastTimestamp \in 0 .. MaxTime + 1
        /\ containers \in 0 .. MaxContainers /\ epoch \in 0 .. containers
    OBVIOUS
  <2>3. /\ headerSent \in BOOLEAN /\ running \in BOOLEAN
        /\ sourceKnown \in BOOLEAN /\ failure \in BOOLEAN /\ flag \in BOOLEAN
        /\ keepPackets \in BOOLEAN /\ kept \in BOOLEAN
    BY Zenon
  <2>4. /\ mainPc \in MainPlaces /\ status \in {"STOPPED", "RUNNING"}
        /\ compressorPc \in {"none", "get", "drain", "exited"}
        /\ outputPc \in OutputPlaces
    BY DEF MainPlaces, OutputPlaces
  <2>5. /\ outgoing \subseteq Packets /\ sending \subseteq Packets
        /\ copied \subseteq Packets /\ unput \subseteq Packets
    OBVIOUS
  <2> QED BY ONLY <2>1, <2>2, <2>3, <2>4, <2>5 DEF TypeOK
<1>4. PlaceInv
  BY DEF PlaceInv
<1>5. BoundInv
  BY <1>1 DEF BoundInv, All
<1>6. UniformInv
  BY <1>1 DEF UniformInv, Uniform
<1>7. OrderInv
  BY <1>1, <1>2 DEF OrderInv, RankedSeq, RankedSets, AllBefore, Inside, Waiting
<1>8. KeepInv
  BY <1>1 DEF KeepInv, All
<1>9. EndInv
  BY DEF EndInv, Ends
<1> QED BY <1>3, <1>4, <1>5, <1>6, <1>7, <1>8, <1>9 DEF IInv

\* What CopyPackets copies: packets of one new container, of the present
\* epoch and not before lastTimestamp, which becomes the largest of theirs.
Copied ==
  /\ outgoing' \subseteq Packets /\ Uniform(outgoing')
  /\ lastTimestamp' \in 0 .. MaxTime + 1 /\ lastTimestamp <= lastTimestamp'
  /\ \A p \in outgoing' :
       /\ p.container = containers + 1 /\ p.epoch = epoch
       /\ lastTimestamp <= p.first /\ p.first <= lastTimestamp'

LEMMA CopyStep ==
  ASSUME TypeOK, CopyPackets, mainPc' = "put"
  PROVE  Copied /\ copied' = copied \cup outgoing' /\ containers' = containers + 1
<1> USE OutputPipelineAssumption
<1>1. PICK n \in 1 .. MaxPackets : \E c \in [1 .. n -> 0 .. MaxTime] :
        \E I \in SUBSET OnTime(c) :
           /\ I # {}
           /\ outgoing' = Copy(c, containers + 1, I)
           /\ copied' = copied \cup outgoing'
           /\ lastTimestamp' \in Highest(c)
  BY DEF CopyPackets
<1>2. PICK c \in [1 .. n -> 0 .. MaxTime] : \E I \in SUBSET OnTime(c) :
           /\ I # {}
           /\ outgoing' = Copy(c, containers + 1, I)
           /\ copied' = copied \cup outgoing'
           /\ lastTimestamp' \in Highest(c)
  BY <1>1
<1>3. PICK I \in SUBSET OnTime(c) :
           /\ I # {}
           /\ outgoing' = Copy(c, containers + 1, I)
           /\ copied' = copied \cup outgoing'
           /\ lastTimestamp' \in Highest(c)
  BY <1>2
<1>4. containers' = containers + 1 /\ containers + 1 \in 1 .. MaxContainers
  BY DEF CopyPackets, TypeOK
<1>5. \A i \in OnTime(c) :
        /\ i \in 1 .. n /\ i \in 0 .. MaxPackets
        /\ c[i] \in 0 .. MaxTime /\ lastTimestamp <= c[i]
  BY DEF OnTime
<1>6. /\ lastTimestamp' \in 0 .. MaxTime
      /\ \A i \in OnTime(c) : c[i] <= lastTimestamp'
  BY <1>3, <1>5 DEF Highest
<1>7. ASSUME NEW p \in outgoing'
      PROVE  /\ p \in Packets
             /\ p.container = containers + 1 /\ p.epoch = epoch
             /\ lastTimestamp <= p.first /\ p.first <= lastTimestamp'
  <2>1. PICK i \in I : p = [container |-> containers + 1, index |-> i,
                            epoch |-> epoch, first |-> c[i]]
    BY <1>3, <1>7 DEF Copy
  <2>2. epoch \in 0 .. MaxContainers
    BY DEF TypeOK
  <2>3. i \in OnTime(c)
    BY <1>3, <2>1
  <2>4. p \in Packets
    BY <1>4, <1>5, <2>1, <2>2, <2>3 DEF Packets
  <2>5. lastTimestamp \in Nat /\ lastTimestamp' \in Nat
    BY <1>6 DEF TypeOK
  <2>6. p.first = c[i] /\ p.first <= lastTimestamp'
    BY <1>5, <1>6, <2>1, <2>3, <2>5
  <2> QED BY <2>1, <2>3, <2>4, <2>6, <1>5
<1>8. Uniform(outgoing') /\ outgoing' \subseteq Packets
  BY <1>7 DEF Uniform
<1>9. lastTimestamp <= lastTimestamp'
  <2>1. PICK i \in OnTime(c) : TRUE
    BY <1>3
  <2> QED BY <2>1, <1>5, <1>6 DEF TypeOK
<1> QED BY <1>3, <1>4, <1>6, <1>7, <1>8, <1>9 DEF Copied

PhaseTypes ==
  /\ mainPc \in MainPlaces /\ status \in {"STOPPED", "RUNNING"}
  /\ compressorPc \in {"none", "get", "drain", "exited"}
  /\ outputPc \in OutputPlaces
FlagTypes ==
  /\ headerSent \in BOOLEAN
  /\ running \in BOOLEAN /\ sourceKnown \in BOOLEAN /\ failure \in BOOLEAN
  /\ flag \in BOOLEAN /\ keepPackets \in BOOLEAN /\ kept \in BOOLEAN
DataTypes ==
  /\ lastTimestamp \in 0 .. MaxTime + 1
  /\ outgoing \subseteq Packets /\ sending \subseteq Packets
  /\ compressorRing \in Seq(SUBSET Packets) /\ Len(compressorRing) <= RingSize
  /\ outputRing \in Seq(Packets) /\ Len(outputRing) <= RingSize
  /\ containers \in 0 .. MaxContainers /\ epoch \in 0 .. containers
  /\ copied \subseteq Packets /\ written \in Seq(Packets)

HistoryTypes == unput \subseteq Packets

LEMMA TypeParts ==
  TypeOK <=> PhaseTypes /\ FlagTypes /\ DataTypes /\ HistoryTypes
BY Zenon DEF TypeOK, PhaseTypes, FlagTypes, DataTypes, HistoryTypes

LEMMA PhaseStep ==
  ASSUME PhaseTypes, Next
  PROVE  PhaseTypes'
<1> USE DEF PhaseTypes, MainPlaces, OutputPlaces, mainVars, compressorVars,
            outputVars
<1>1. CASE MainThread
  BY <1>1, SMT DEF MainThread, ModuleInit, CopyPackets, PutContainer,
     DropContainer, NoReset, StartReset, PutReset, ModuleExit,
     JoinCompressor, JoinOutput, FreeState
<1>2. CASE Compressor
  BY <1>2, SMT DEF Compressor, GetContainer, CompressorStops,
     CompressorExits, SendPacket, DiscardPacket
<1>3. CASE Output
  BY <1>3, SMT DEF Output, SendHeader, SendNoHeader, FreePacket, WritePacket,
     WriteFails, ExitFailed, OutputStops, OutputExits
<1>4. CASE Clients
  BY <1>4, SMT DEF Clients, StopOrStart, SetKeepPackets
<1> QED BY <1>1, <1>2, <1>3, <1>4 DEF Next

LEMMA FlagStep ==
  ASSUME FlagTypes, Next
  PROVE  FlagTypes'
<1> USE DEF FlagTypes, outputVars, clientVars
<1>1. CASE MainThread
  BY <1>1, Zenon DEF MainThread, ModuleInit, CopyPackets, PutContainer,
     DropContainer, NoReset, StartReset, PutReset, ModuleExit,
     JoinCompressor, JoinOutput, FreeState
<1>2. CASE Compressor
  BY <1>2, Zenon DEF Compressor, GetContainer, CompressorStops,
     CompressorExits, SendPacket, DiscardPacket
<1>3. CASE Output
  BY <1>3, Zenon DEF Output, SendHeader, SendNoHeader, FreePacket,
     WritePacket, WriteFails, ExitFailed, OutputStops, OutputExits
<1>4. CASE Clients
  BY <1>4, Zenon DEF Clients, StopOrStart, SetKeepPackets
<1> QED BY <1>1, <1>2, <1>3, <1>4 DEF Next

LEMMA HistoryStep ==
  ASSUME TypeOK, Next
  PROVE  HistoryTypes'
<1>1. CASE OutputExits
  <2>1. UNION Range(compressorRing) \subseteq Packets
    BY RangeOfSeq DEF TypeOK, Range
  <2> QED BY <1>1, <2>1 DEF OutputExits, HistoryTypes, TypeOK
<1>2. CASE FreeState
  BY <1>2 DEF FreeState, HistoryTypes
<1>3. CASE ~OutputExits /\ ~FreeState
  <2>1. unput' = unput
    BY <1>3, Zenon DEF Next, MainThread, Compressor, Output, Clients,
       ModuleInit, CopyPackets, PutContainer, DropContainer, NoReset,
       StartReset, PutReset, ModuleExit, JoinCompressor, JoinOutput,
       GetContainer, CompressorStops, CompressorExits, SendPacket,
       DiscardPacket, SendHeader, SendNoHeader, FreePacket, WritePacket,
       WriteFails, ExitFailed, OutputStops, StopOrStart, SetKeepPackets,
       outputVars
  <2> QED BY <2>1 DEF HistoryTypes, TypeOK
<1> QED BY <1>1, <1>2, <1>3

\* The actions that move packets or count containers.
LEMMA DataStep ==
  ASSUME TypeOK, PlaceInv, Next
  PROVE  DataTypes'
<1> DataTypes /\ PhaseTypes
  BY TypeParts
<1> USE OutputPipelineAssumption
<1>1. CASE Quiet
  BY <1>1, QuietStep DEF DataTypes, placeVars, copyHistory
<1>2. CASE CopyPackets
  <2>1. CASE mainPc' = "put"
    <3>1. Copied /\ copied' = copied \cup outgoing' /\ containers' = containers + 1
      BY <1>2, <2>1, CopyStep
    <3>2. /\ containers + 1 <= MaxContainers
          /\ UNCHANGED <<epoch, sending, compressorRing, outputRing, written>>
      BY <1>2 DEF CopyPackets, compressorVars, DataTypes
    <3> QED BY <3>1, <3>2 DEF DataTypes, Copied
  <2>2. CASE mainPc' # "put"
    <3>1. /\ containers' = containers + 1 /\ containers + 1 <= MaxContainers
          /\ UNCHANGED <<lastTimestamp, outgoing, copied, epoch, sending,
                         compressorRing, outputRing, written>>
      BY <1>2, <2>2 DEF CopyPackets, compressorVars, DataTypes
    <3> QED BY <3>1 DEF DataTypes
  <2> QED BY <2>1, <2>2
<1>3. CASE PutContainer
  BY <1>3, PutElement DEF PutContainer, Full, DataTypes, compressorVars, copyHistory
<1>4. CASE DropContainer
  BY <1>4 DEF DropContainer, DataTypes, compressorVars, copyHistory
<1>5. CASE StartReset
  <2>1. /\ containers + 1 \in 1 .. MaxContainers /\ epoch \in 0 .. MaxContainers
        /\ 0 \in 0 .. MaxPackets /\ MaxTime + 1 \in 0 .. MaxTime + 1
    BY <1>5 DEF StartReset, DataTypes
  <2>2. outgoing' \subseteq Packets
    <3>1. ASSUME NEW p \in outgoing'
          PROVE  p = [container |-> containers + 1, index |-> 0,
                      epoch |-> epoch, first |-> MaxTime + 1]
      BY <1>5 DEF StartReset
    <3> QED BY <2>1, <3>1 DEF Packets
  <2> QED BY <1>5, <2>1, <2>2 DEF StartReset, DataTypes, compressorVars
<1>6. CASE PutReset
  <2>1. epoch' \in 0 .. containers
    BY <1>6 DEF PutReset, DataTypes, PlaceInv
  <2> QED BY <1>6, <2>1, PutElement DEF PutReset, Full, DataTypes, compressorVars
<1>7. CASE FreeState
  BY <1>7, EmptyRange DEF FreeState, DataTypes
<1>8. CASE GetContainer
  <2>1. /\ sending' \subseteq Packets /\ compressorRing' \in Seq(SUBSET Packets)
        /\ Len(compressorRing') <= RingSize
    BY <1>8, GetElement DEF GetContainer, DataTypes
  <2> QED BY <1>8, <2>1 DEF GetContainer, DataTypes, mainVars, copyHistory
<1>9. CASE \E p \in sending : SendPacket(p) \/ DiscardPacket(p)
  <2>1. PICK p \in sending : SendPacket(p) \/ DiscardPacket(p)
    BY <1>9
  <2>2. p \in Packets
    BY <2>1 DEF DataTypes
  <2>3. CASE SendPacket(p)
    BY <2>2, <2>3, PutElement DEF SendPacket, Full, DataTypes, mainVars, copyHistory
  <2>4. CASE DiscardPacket(p)
    BY <2>4 DEF DiscardPacket, DataTypes, mainVars, copyHistory
  <2> QED BY <2>1, <2>3, <2>4
<1>10. CASE FreePacket \/ WriteFails
  <2>1. outputRing' \in Seq(Packets) /\ Len(outputRing') <= RingSize
    <3>1. outputRing # <<>> /\ outputRing' = Tail(outputRing)
      BY <1>10 DEF FreePacket, WriteFails
    <3> QED BY <3>1, GetElement DEF DataTypes
  <2>2. UNCHANGED <<outgoing, sending, compressorRing, written, lastTimestamp, copyHistory>>
    BY <1>10 DEF FreePacket, WriteFails, mainVars, compressorVars
  <2> QED BY <2>1, <2>2 DEF DataTypes, copyHistory
<1>11. CASE WritePacket
  <2>1. /\ outputRing' \in Seq(Packets) /\ Len(outputRing') <= RingSize
        /\ written' \in Seq(Packets)
    BY <1>11, GetElement, PutElement DEF WritePacket, DataTypes
  <2> QED BY <1>11, <2>1 DEF WritePacket, DataTypes, mainVars, compressorVars, copyHistory
<1> QED BY <1>1, <1>2, <1>3, <1>4, <1>5, <1>6, <1>7, <1>8, <1>9, <1>10, <1>11
        DEF Next, MainThread, Compressor, Output, Clients, Quiet

-----------------------------------------------------------------------------
(* What the threads hold in which phase.                                   *)

LEMMA PlaceStep ==
  ASSUME TypeOK, PlaceInv, Next
  PROVE  PlaceInv'
<1> USE DEF PlaceInv, mainVars, compressorVars, outputVars, clientVars,
     copyHistory, Next, MainThread, Compressor, Output, Clients, ModuleInit,
     CopyPackets, PutContainer, DropContainer, NoReset, StartReset, PutReset,
     ModuleExit, JoinCompressor, JoinOutput, FreeState, GetContainer,
     CompressorStops, CompressorExits, SendPacket, DiscardPacket, SendHeader,
     SendNoHeader, FreePacket, WritePacket, WriteFails, ExitFailed,
     OutputStops, OutputExits, StopOrStart, SetKeepPackets
<1>1. /\ mainPc' \notin {"put", "putReset"} => outgoing' = {}
      /\ mainPc' \in {"put", "ran", "putReset"} => status' = "RUNNING"
  BY SMT
<1>2. mainPc' = "pass" /\ status' = "STOPPED"
        => /\ compressorPc' = "none" /\ outputPc' = "none"
           /\ compressorRing' = <<>> /\ outputRing' = <<>> /\ written' = <<>>
           /\ copied' = {}
  <2>1. CASE MainThread
    BY <2>1, SMT
  <2>2. CASE Compressor
    BY <2>2, SMT
  <2>3. CASE Output
    BY <2>3, SMT
  <2>4. CASE Clients
    BY <2>4, SMT
  <2> QED BY <2>1, <2>2, <2>3, <2>4
<1>3. mainPc' \in {"joinOutput", "cleanUp"} => compressorPc' = "exited"
  BY SMT
<1>4. compressorPc' \in {"none", "exited"} => sending' = {}
  BY SMT
<1>5. mainPc' = "putReset" => epoch' < containers'
  <2>1. epoch <= containers /\ containers \in Nat /\ epoch \in Nat
    BY OutputPipelineAssumption DEF TypeOK
  <2>2. CASE StartReset
    BY <2>1, <2>2
  <2>3. CASE ~StartReset
    <3>1. mainPc' = "putReset"
            => mainPc = "putReset" /\ epoch' = epoch /\ containers' = containers
      BY <2>3, SMT
    <3> QED BY <3>1, Zenon
  <2> QED BY <2>2, <2>3
<1>6. outputPc' \in {"none", "waitSource", "discard"} => ~headerSent'
  BY SMT
<1>7. kept' => keepPackets'
  BY Zenon
<1> QED BY <1>1, <1>2, <1>3, <1>4, <1>5, <1>6, <1>7

-----------------------------------------------------------------------------
(* The packets on their way.                                               *)

\* A packet is copied, moves on, or is dropped; FreeState forgets them all.
Moves == \/ PutContainer \/ PutReset \/ GetContainer \/ WritePacket
         \/ \E p \in sending : SendPacket(p)
Drops == \/ DropContainer \/ FreePacket \/ WriteFails
         \/ \E p \in sending : DiscardPacket(p)
CopyNone == CopyPackets /\ mainPc' = "ran"
CopySome == CopyPackets /\ mainPc' = "put"

LEMMA NextKinds ==
  Next => Quiet \/ Moves \/ Drops \/ CopyNone \/ CopySome \/ StartReset \/ FreeState
BY Zenon DEF Next, Quiet, Moves, Drops, CopyNone, CopySome, MainThread,
   Compressor, Output, Clients, CopyPackets

\* What Put and Get do to the ring-buffers.
LEMMA RingRanges ==
  ASSUME TypeOK
  PROVE  /\ \A P \in SUBSET Packets :
              /\ Range(Append(compressorRing, P)) = Range(compressorRing) \cup {P}
              /\ UNION Range(Append(compressorRing, P)) = Waiting \cup P
         /\ compressorRing # <<>> =>
              /\ Range(compressorRing) = {Head(compressorRing)} \cup Range(Tail(compressorRing))
              /\ Waiting = Head(compressorRing) \cup UNION Range(Tail(compressorRing))
         /\ \A p \in Packets :
              /\ Range(Append(outputRing, p)) = Range(outputRing) \cup {p}
              /\ Range(Append(written, p)) = Range(written) \cup {p}
         /\ outputRing # <<>> =>
              /\ Head(outputRing) \in Packets
              /\ Range(outputRing) = {Head(outputRing)} \cup Range(Tail(outputRing))
<1>1. ASSUME NEW P \in SUBSET Packets
      PROVE  Range(Append(compressorRing, P)) = Range(compressorRing) \cup {P}
  BY PutElement DEF TypeOK
<1>2. compressorRing # <<>> =>
        Range(compressorRing) = {Head(compressorRing)} \cup Range(Tail(compressorRing))
  BY GetElement DEF TypeOK
<1>3. ASSUME NEW p \in Packets
      PROVE  /\ Range(Append(outputRing, p)) = Range(outputRing) \cup {p}
             /\ Range(Append(written, p)) = Range(written) \cup {p}
  BY PutElement DEF TypeOK
<1>4. outputRing # <<>> =>
        /\ Head(outputRing) \in Packets
        /\ Range(outputRing) = {Head(outputRing)} \cup Range(Tail(outputRing))
  BY GetElement DEF TypeOK
<1> QED BY <1>1, <1>2, <1>3, <1>4 DEF Waiting

LEMMA AllMoves ==
  ASSUME TypeOK, Moves
  PROVE  /\ All' = All /\ UNCHANGED <<containers, copied>>
         /\ Range(written) \subseteq Range(written')
<1> USE RingRanges DEF All, Inside, Waiting
<1>1. CASE PutContainer
  BY <1>1 DEF PutContainer, TypeOK, compressorVars, copyHistory
<1>2. CASE PutReset
  BY <1>2 DEF PutReset, TypeOK, compressorVars
<1>3. CASE GetContainer
  BY <1>3 DEF GetContainer, mainVars, copyHistory
<1>4. CASE WritePacket
  BY <1>4 DEF WritePacket, mainVars, compressorVars, copyHistory
<1>5. CASE \E p \in sending : SendPacket(p)
  BY <1>5 DEF SendPacket, TypeOK, mainVars, copyHistory
<1> QED BY <1>1, <1>2, <1>3, <1>4, <1>5 DEF Moves

LEMMA AllDrops ==
  ASSUME TypeOK, Drops
  PROVE  All' \subseteq All /\ UNCHANGED <<copyHistory, written>>
<1> USE RingRanges DEF All, Inside, Waiting
<1>1. CASE DropContainer
  BY <1>1 DEF DropContainer, compressorVars, copyHistory
<1>2. CASE FreePacket \/ WriteFails
  BY <1>2 DEF FreePacket, WriteFails, mainVars, compressorVars
<1>3. CASE \E p \in sending : DiscardPacket(p)
  BY <1>3 DEF DiscardPacket, mainVars
<1> QED BY <1>1, <1>2, <1>3 DEF Drops

LEMMA AllQuiet ==
  ASSUME Quiet \/ CopyNone \/ UNCHANGED vars
  PROVE  All' = All /\ UNCHANGED <<placeVars, epoch, copied, lastTimestamp>>
<1>1. UNCHANGED <<placeVars, epoch, copied, lastTimestamp>>
  BY QuietStep DEF CopyNone, CopyPackets, placeVars, compressorVars,
     copyHistory, vars, mainVars
<1> QED BY <1>1 DEF All, Inside, Waiting, placeVars

LEMMA AllCopied ==
  ASSUME PlaceInv, CopySome \/ StartReset
  PROVE  /\ outgoing = {} /\ All' = All \cup outgoing'
         /\ copied' = copied \cup outgoing'
         /\ UNCHANGED <<compressorRing, sending, outputRing, written, epoch>>
         /\ containers' = containers + 1
<1>1. outgoing = {}
  BY DEF PlaceInv, CopySome, CopyPackets, StartReset
<1>2. UNCHANGED <<compressorRing, sending, outputRing, written, epoch>>
  BY DEF CopySome, CopyPackets, StartReset, compressorVars
<1>3. copied' = copied \cup outgoing'
  BY DEF CopySome, CopyPackets, StartReset
<1>4. containers' = containers + 1
  BY DEF CopySome, CopyPackets, StartReset
<1> QED BY <1>1, <1>2, <1>3, <1>4 DEF All, Inside, Waiting

LEMMA AllFreed ==
  ASSUME PlaceInv, FreeState
  PROVE  /\ All' = {} /\ copied' = {} /\ outgoing' = {} /\ sending' = {}
         /\ compressorRing' = <<>> /\ outputRing' = <<>> /\ written' = <<>>
<1>1. /\ copied' = {} /\ outgoing' = {} /\ sending' = {}
      /\ compressorRing' = <<>> /\ outputRing' = <<>> /\ written' = <<>>
  BY DEF PlaceInv, FreeState
<1> QED BY <1>1, EmptyRange DEF All, Inside, Waiting

LEMMA PacketFields ==
  ASSUME NEW p \in Packets
  PROVE  /\ p.container \in Nat /\ p.index \in Nat /\ p.epoch \in Nat
         /\ p.first \in Nat
BY OutputPipelineAssumption DEF Packets

LEMMA AllPackets == TypeOK => All \subseteq Packets
<1> SUFFICES ASSUME TypeOK PROVE All \subseteq Packets
  OBVIOUS
<1>1. Range(written) \subseteq Packets /\ Range(outputRing) \subseteq Packets
  BY RangeOfSeq DEF TypeOK, Range
<1>2. Range(compressorRing) \subseteq SUBSET Packets
  BY RangeOfSeq DEF TypeOK, Range
<1> QED BY <1>1, <1>2 DEF All, Inside, Waiting, TypeOK

-----------------------------------------------------------------------------
(* Every step keeps the bounds on what is on its way ...                   *)

LEMMA BoundStep ==
  ASSUME TypeOK, PlaceInv, BoundInv, Next
  PROVE  BoundInv'
<1> USE OutputPipelineAssumption
<1>0. /\ containers \in Nat /\ epoch \in Nat /\ lastTimestamp \in Nat
      /\ All \subseteq Packets
  BY AllPackets DEF TypeOK
<1>1. CASE Quiet \/ CopyNone
  <2>1. All' = All /\ UNCHANGED <<placeVars, epoch, lastTimestamp>>
    BY <1>1, AllQuiet
  <2>2. containers' \in Nat /\ containers <= containers'
    BY <1>0, <1>1, QuietStep DEF CopyNone, CopyPackets, copyHistory
  <2>3. mainPc = "putReset" => mainPc' = "putReset"
    BY <1>1, QuietStep DEF CopyNone, CopyPackets
  <2> QED BY <1>0, <2>1, <2>2, <2>3, PacketFields DEF BoundInv, placeVars
<1>2. CASE Moves \/ Drops
  <2>1. All' \subseteq All /\ containers' = containers
    BY <1>2, AllMoves, AllDrops DEF copyHistory
  <2>2. CASE PutReset
    BY <1>0, <2>1, <2>2, PacketFields DEF BoundInv, PutReset
  <2>3. CASE ~PutReset
    <3>1. /\ UNCHANGED <<epoch, lastTimestamp>>
          /\ mainPc = "putReset" => mainPc' = "putReset" /\ outgoing' = outgoing
      BY <1>2, <2>3, SMT DEF Moves, Drops, PutContainer, GetContainer,
         WritePacket, SendPacket, DropContainer, FreePacket, WriteFails,
         DiscardPacket, mainVars, copyHistory
    <3> QED BY <1>0, <2>1, <3>1 DEF BoundInv
  <2> QED BY <2>2, <2>3
<1>3. CASE CopySome
  <2>1. Copied /\ All' = All \cup outgoing' /\ epoch' = epoch /\ containers' = containers + 1
    BY <1>3, CopyStep, AllCopied DEF CopySome
  <2>2. mainPc # "putReset"
    BY <1>3 DEF CopySome, CopyPackets
  <2>3. ASSUME NEW p \in All
        PROVE  p.container <= containers' /\ p.epoch <= epoch /\ (p.epoch = epoch => p.first <= lastTimestamp')
    <3>1. /\ p.container <= containers /\ p.epoch <= epoch
          /\ p.epoch = epoch => p.first <= lastTimestamp
          /\ p \in Packets
      BY <1>0, <2>2, <2>3 DEF BoundInv
    <3>2. lastTimestamp' \in Nat /\ lastTimestamp <= lastTimestamp'
      BY <1>0, <2>1 DEF Copied
    <3> QED BY <1>0, <2>1, <3>1, <3>2, PacketFields
  <2>4. ASSUME NEW p \in outgoing'
        PROVE  p.container <= containers' /\ p.epoch <= epoch /\ (p.epoch = epoch => p.first <= lastTimestamp')
    BY <1>0, <2>1, <2>4 DEF Copied
  <2> QED BY <2>1, <2>3, <2>4 DEF BoundInv
<1>4. CASE StartReset
  <2>1. All' = All \cup outgoing' /\ epoch' = epoch /\ containers' = containers + 1
    BY <1>4, AllCopied
  <2>2. /\ mainPc = "ran" /\ mainPc' = "putReset" /\ lastTimestamp' = lastTimestamp
        /\ \A p \in outgoing' : p.container = containers + 1 /\ p.epoch = epoch
    BY <1>4 DEF StartReset
  <2>3. \A p \in All : p.container <= containers /\ p.epoch <= epoch
                       /\ (p.epoch = epoch => p.first <= lastTimestamp)
    BY <2>2 DEF BoundInv
  <2> QED BY <1>0, <2>1, <2>2, <2>3, PacketFields DEF BoundInv
<1>5. CASE FreeState
  BY <1>5, AllFreed DEF BoundInv
<1> QED BY <1>1, <1>2, <1>3, <1>4, <1>5, NextKinds

(* ... and what a container holds is of one epoch.                         *)

LEMMA UniformStep ==
  ASSUME TypeOK, PlaceInv, UniformInv, Next
  PROVE  UniformInv'
<1> USE DEF UniformInv
<1>0. Uniform({})
  BY DEF Uniform
<1>1. CASE Quiet \/ CopyNone
  BY <1>1, AllQuiet DEF placeVars
<1>2. CASE PutContainer \/ PutReset
  <2>1. /\ outgoing' = {} /\ sending' = sending
        /\ compressorRing' = Append(compressorRing, outgoing)
    BY <1>2 DEF PutContainer, PutReset, compressorVars
  <2>2. Range(compressorRing') = Range(compressorRing) \cup {outgoing}
    BY <2>1, RingRanges DEF TypeOK
  <2> QED BY <1>0, <2>1, <2>2
<1>3. CASE GetContainer
  BY <1>3, RingRanges DEF GetContainer, mainVars
<1>4. CASE WritePacket \/ FreePacket \/ WriteFails
  BY <1>4 DEF WritePacket, FreePacket, WriteFails, mainVars, compressorVars
<1>5. CASE \E p \in sending : SendPacket(p) \/ DiscardPacket(p)
  <2>1. /\ UNCHANGED <<outgoing, compressorRing>>
        /\ \E p : sending' = sending \ {p}
    BY <1>5 DEF SendPacket, DiscardPacket, mainVars
  <2>2. Uniform(sending')
    BY <2>1 DEF Uniform
  <2> QED BY <2>1, <2>2
<1>6. CASE DropContainer
  BY <1>0, <1>6 DEF DropContainer, compressorVars
<1>7. CASE CopySome
  <2>1. Uniform(outgoing')
    BY <1>7, CopyStep DEF CopySome, Copied
  <2> QED BY <1>7, <2>1, AllCopied
<1>8. CASE StartReset
  <2>1. Uniform(outgoing')
    BY <1>8 DEF StartReset, Uniform
  <2> QED BY <1>8, <2>1, AllCopied
<1>9. CASE FreeState
  BY <1>0, <1>9, AllFreed, EmptyRange
<1> QED BY <1>1, <1>2, <1>3, <1>4, <1>5, <1>6, <1>7, <1>8, <1>9, NextKinds
        DEF Moves, Drops

-----------------------------------------------------------------------------
(* The order of what is on its way.                                        *)

\* What is copied comes after everything else.
LEMMA NewestLast ==
  ASSUME TypeOK, PlaceInv, BoundInv, CopySome \/ StartReset
  PROVE  AllBefore(All, outgoing')
<1> SUFFICES ASSUME NEW p \in All, NEW q \in outgoing'
             PROVE  Before(p, q)
  BY DEF AllBefore
<1>1. /\ p \in Packets /\ containers \in Nat /\ epoch \in Nat
      /\ lastTimestamp \in Nat
  BY AllPackets, OutputPipelineAssumption DEF TypeOK
<1>2. mainPc # "putReset"
  BY DEF CopySome, CopyPackets, StartReset
<1>3. /\ p.container <= containers /\ p.epoch <= epoch
      /\ p.epoch = epoch => p.first <= lastTimestamp
  BY <1>2 DEF BoundInv
<1>4. /\ q \in Packets /\ q.container = containers + 1 /\ q.epoch = epoch
      /\ lastTimestamp <= q.first
  <2>1. CASE CopySome
    BY <2>1, CopyStep DEF CopySome, Copied
  <2>2. CASE StartReset
    <3>1. outgoing' \subseteq Packets
      BY <2>2, DataStep DEF DataTypes, Next, MainThread
    <3>2. q.container = containers + 1 /\ q.epoch = epoch /\ q.first = MaxTime + 1
      BY <2>2 DEF StartReset
    <3> QED BY <3>1, <3>2, OutputPipelineAssumption DEF TypeOK
  <2> QED BY <2>1, <2>2
<1> QED BY <1>1, <1>3, <1>4, PacketFields DEF Before

\* The packet sent next comes before the others of its container.
LEMMA LeastFirst ==
  ASSUME TypeOK, UniformInv, NEW p \in sending, IsNext(p)
  PROVE  AllBefore({p}, sending \ {p})
BY PacketFields DEF TypeOK, UniformInv, Uniform, IsNext, Precedes, AllBefore, Before

LEMMA OrderStep ==
  ASSUME IInv, Next
  PROVE  OrderInv'
<1> TypeOK /\ PlaceInv /\ BoundInv /\ UniformInv /\ OrderInv
  BY DEF IInv
<1>1. CASE Quiet \/ CopyNone
  BY <1>1, AllQuiet DEF OrderInv, placeVars, Inside, Waiting
<1>2. CASE PutContainer \/ PutReset
  <2>1. /\ compressorRing' = Append(compressorRing, outgoing) /\ outgoing' = {}
        /\ UNCHANGED <<sending, outputRing, written>>
        /\ outgoing \in SUBSET Packets
    BY <1>2 DEF PutContainer, PutReset, compressorVars, TypeOK
  <2>2. /\ Waiting' = Waiting \cup outgoing
        /\ Inside' = Inside
    BY <2>1, RingRanges DEF Inside, Waiting
  <2>3. RankedSets(compressorRing')
    BY <2>1, RankedSetsAppend DEF OrderInv, Waiting, TypeOK
  <2> QED BY <2>1, <2>2, <2>3 DEF OrderInv, AllBefore
<1>3. CASE GetContainer
  <2>1. /\ compressorRing # <<>> /\ compressorRing' = Tail(compressorRing)
        /\ sending = {} /\ sending' = Head(compressorRing)
        /\ UNCHANGED <<outgoing, outputRing, written>>
    BY <1>3 DEF GetContainer, mainVars
  <2>2. /\ Waiting = Waiting' \cup sending'
        /\ Inside' = Inside
    BY <2>1, RingRanges DEF Inside, Waiting
  <2>3. RankedSets(compressorRing') /\ AllBefore(sending', Waiting')
    BY <2>1, RankedSetsTail DEF OrderInv, Waiting, TypeOK
  <2> QED BY <2>1, <2>2, <2>3 DEF OrderInv, AllBefore
<1>4. CASE \E p \in sending : SendPacket(p)
  <2>1. PICK p \in sending : SendPacket(p)
    BY <1>4
  <2>2. /\ IsNext(p) /\ p \in Packets
        /\ outputRing' = Append(outputRing, p) /\ sending' = sending \ {p}
        /\ UNCHANGED <<outgoing, compressorRing, written>>
    BY <2>1 DEF SendPacket, mainVars, TypeOK
  <2>3. /\ Range(outputRing') = Range(outputRing) \cup {p}
        /\ Waiting' = Waiting /\ Inside' = Inside
    BY <2>2, RingRanges DEF Inside, Waiting
  <2>4. RankedSeq(outputRing')
    <3>1. AllBefore(Range(outputRing), {p})
      BY <2>1 DEF OrderInv, AllBefore
    <3> QED BY <2>2, <3>1, RankedAppend DEF OrderInv, TypeOK
  <2>5. AllBefore({p}, sending')
    BY <2>2, LeastFirst
  <2> QED BY <2>2, <2>3, <2>4, <2>5 DEF OrderInv, AllBefore
<1>5. CASE WritePacket
  <2>1. /\ outputRing # <<>> /\ outputRing' = Tail(outputRing)
        /\ written' = Append(written, Head(outputRing))
        /\ UNCHANGED <<outgoing, compressorRing, sending>>
    BY <1>5 DEF WritePacket, mainVars, compressorVars
  <2>2. /\ Head(outputRing) \in Packets
        /\ Range(outputRing) = {Head(outputRing)} \cup Range(outputRing')
        /\ Range(written') = Range(written) \cup {Head(outputRing)}
        /\ Waiting' = Waiting
        /\ Inside = Inside' \cup {Head(outputRing)}
    BY <2>1, RingRanges DEF Inside, Waiting
  <2>3. RankedSeq(outputRing') /\ AllBefore({Head(outputRing)}, Range(outputRing'))
    BY <2>1, RankedTail DEF OrderInv, TypeOK
  <2>4. RankedSeq(written')
    <3>1. AllBefore(Range(written), {Head(outputRing)})
      BY <2>2 DEF OrderInv, AllBefore
    <3> QED BY <2>1, <2>2, <3>1, RankedAppend DEF OrderInv, TypeOK
  <2>5. AllBefore({Head(outputRing)}, Inside')
    BY <2>1, <2>2, <2>3 DEF OrderInv, AllBefore, Inside
  <2> QED BY <2>1, <2>2, <2>3, <2>4, <2>5 DEF OrderInv, AllBefore
<1>6. CASE DropContainer \/ \E p \in sending : DiscardPacket(p)
  <2>1. /\ outgoing' \subseteq outgoing /\ sending' \subseteq sending
        /\ UNCHANGED <<compressorRing, outputRing, written>>
    BY <1>6 DEF DropContainer, DiscardPacket, mainVars, compressorVars
  <2>2. Waiting' = Waiting /\ Inside' \subseteq Inside
    BY <2>1 DEF Inside, Waiting
  <2> QED BY <2>1, <2>2 DEF OrderInv, AllBefore
<1>7. CASE FreePacket \/ WriteFails
  <2>1. /\ outputRing # <<>> /\ outputRing' = Tail(outputRing)
        /\ UNCHANGED <<outgoing, compressorRing, sending, written>>
    BY <1>7 DEF FreePacket, WriteFails, mainVars, compressorVars
  <2>2. /\ Range(outputRing') \subseteq Range(outputRing)
        /\ Waiting' = Waiting /\ Inside' \subseteq Inside
    BY <2>1, RingRanges DEF Inside, Waiting
  <2>3. RankedSeq(outputRing')
    BY <2>1, RankedTail DEF OrderInv, TypeOK
  <2> QED BY <2>1, <2>2, <2>3 DEF OrderInv, AllBefore
<1>8. CASE CopySome \/ StartReset
  <2>1. /\ outgoing = {} /\ All' = All \cup outgoing'
        /\ UNCHANGED <<compressorRing, sending, outputRing, written>>
    BY <1>8, AllCopied
  <2>2. /\ Waiting' = Waiting /\ Inside' = Inside \cup outgoing'
    BY <2>1 DEF Inside, Waiting
  <2>3. AllBefore(All, outgoing')
    BY <1>8, NewestLast
  <2> QED BY <2>1, <2>2, <2>3 DEF OrderInv, AllBefore, All, Inside
<1>9. CASE FreeState
  <2>1. DOMAIN <<>> = {}
    OBVIOUS
  <2>2. /\ outgoing' = {} /\ sending' = {} /\ Waiting' = {} /\ Inside' = {}
        /\ Range(written') = {} /\ Range(outputRing') = {}
    BY <1>9, AllFreed, EmptyRange DEF Inside, Waiting
  <2> QED BY <1>9, <2>1, <2>2, AllFreed DEF OrderInv, RankedSeq, RankedSets, AllBefore
<1> QED BY <1>1, <1>2, <1>3, <1>4, <1>5, <1>6, <1>7, <1>8, <1>9, NextKinds
        DEF Moves, Drops

-----------------------------------------------------------------------------
(* Nothing is lost while "keepPackets" is set.                             *)

LEMMA KeepStep ==
  ASSUME TypeOK, PlaceInv, KeepInv, Next
  PROVE  KeepInv'
<1> SUFFICES ASSUME Promised'
             PROVE  copied' = All'
  BY DEF KeepInv
<1>1. CASE FreeState
  BY <1>1, AllFreed
<1>2. CASE ModuleInit
  <2>1. /\ copied = {} /\ outgoing = {} /\ sending = {}
        /\ compressorRing = <<>> /\ outputRing = <<>> /\ written = <<>>
    BY <1>2 DEF PlaceInv, ModuleInit
  <2>2. copied = All
    BY <2>1, EmptyRange DEF All, Inside, Waiting
  <2> QED BY <1>2, <2>2, AllQuiet, QuietStep DEF Quiet, copyHistory
<1>3. CASE ~FreeState /\ ~ModuleInit
  <2>1. Promised
    <3> USE DEF PlaceInv, mainVars, outputVars, clientVars, Next,
         MainThread, Compressor, Output, Clients, CopyPackets, PutContainer,
         DropContainer, NoReset, StartReset, PutReset, ModuleExit,
         JoinCompressor, JoinOutput, GetContainer, CompressorStops,
         CompressorExits, SendPacket, DiscardPacket, SendHeader,
         SendNoHeader, FreePacket, WritePacket, WriteFails, ExitFailed,
         OutputStops, OutputExits, StopOrStart, SetKeepPackets
    <3>1. kept
      BY <1>3, Zenon DEF Promised
    <3>2. ~failure
      BY <1>3, Zenon DEF Promised
    <3>3. outputPc' \in {"none", "waitSource"} => outputPc' = outputPc
      BY <1>3, SMT
    <3>4. headerSent' => headerSent \/ outputPc = "waitSource"
      BY <1>3, Zenon
    <3>5. headerSent' \/ outputPc' \in {"none", "waitSource"}
      BY Zenon DEF Promised
    <3>6. headerSent \/ outputPc \in {"none", "waitSource"}
      BY ONLY <3>3, <3>4, <3>5
    <3> QED BY ONLY <3>1, <3>2, <3>6, Zenon DEF Promised
  <2>2. ~Drops
    <3>1. /\ kept /\ kept' /\ ~failure' /\ ~failure
          /\ headerSent' \/ outputPc' \in {"none", "waitSource"}
      BY <2>1, Zenon DEF Promised
    <3>2. ~DropContainer
      BY <3>1, Zenon DEF DropContainer, PlaceInv
    <3>3. ~WriteFails /\ ~FreePacket
      BY <3>1, SMT DEF WriteFails, FreePacket, outputVars, PlaceInv
    <3>4. ~ \E p \in sending : DiscardPacket(p)
      BY <3>1, Zenon DEF DiscardPacket
    <3> QED BY <3>2, <3>3, <3>4, Zenon DEF Drops
  <2>3. copied = All
    BY <2>1 DEF KeepInv
  <2>4. CASE Quiet \/ CopyNone
    BY <2>3, <2>4, AllQuiet
  <2>5. CASE Moves
    BY <2>3, <2>5, AllMoves
  <2>6. CASE CopySome \/ StartReset
    BY <2>3, <2>6, AllCopied
  <2> QED BY <1>3, <2>2, <2>4, <2>5, <2>6, NextKinds
<1> QED BY <1>1, <1>2, <1>3

\* An Output thread that ended without a failure was told to; from then on
\* packets only move to where it would have taken them from.
LEMMA EndStep ==
  ASSUME TypeOK, PlaceInv, EndInv, Next
  PROVE  EndInv'
<1>1. /\ running' <=> status' = "RUNNING"
      /\ outputPc' = "putStop" => failure'
  <2> USE DEF EndInv, mainVars, outputVars
  <2>1. CASE MainThread
    BY <2>1, SMT DEF MainThread, ModuleInit, CopyPackets, PutContainer,
       DropContainer, NoReset, StartReset, PutReset, ModuleExit,
       JoinCompressor, JoinOutput, FreeState, TypeOK
  <2>2. CASE Compressor
    BY <2>2, SMT DEF Compressor, GetContainer, CompressorStops,
       CompressorExits, SendPacket, DiscardPacket
  <2>3. CASE Output
    BY <2>3, SMT DEF Output, SendHeader, SendNoHeader, FreePacket,
       WritePacket, WriteFails, ExitFailed, OutputStops, OutputExits
  <2>4. CASE Clients
    BY <2>4, SMT DEF Clients, StopOrStart, SetKeepPackets
  <2> QED BY <2>1, <2>2, <2>3, <2>4 DEF Next
<1>2. ASSUME outputPc' \in Ends, ~failure'
      PROVE  /\ ~running' /\ ~FreeState /\ ~ModuleInit /\ ~failure
             /\ outputPc' = "exited" => outputPc = "exited" \/ OutputExits
  <2>1. ~FreeState /\ ~ModuleInit
    BY <1>2 DEF FreeState, ModuleInit, Ends
  <2>2. ~failure
    BY <1>2, <2>1, Zenon DEF Next, MainThread, Compressor, Output, Clients,
       CopyPackets, PutContainer, DropContainer, NoReset, StartReset, PutReset,
       ModuleExit, JoinCompressor, JoinOutput, GetContainer, CompressorStops,
       CompressorExits, SendPacket, DiscardPacket, SendHeader, SendNoHeader,
       FreePacket, WritePacket, WriteFails, ExitFailed, OutputStops,
       OutputExits, StopOrStart, SetKeepPackets
  <2>3. ~WriteFails /\ ~ExitFailed
    BY <1>2, <2>2 DEF WriteFails, ExitFailed, EndInv
  <2>4. \/ outputPc' = outputPc
        \/ SendHeader \/ SendNoHeader \/ OutputStops \/ OutputExits
    BY <2>1, <2>3, Zenon DEF Next, MainThread, Compressor, Output, Clients,
       CopyPackets, PutContainer, DropContainer, NoReset, StartReset, PutReset,
       ModuleExit, JoinCompressor, JoinOutput, GetContainer, CompressorStops,
       CompressorExits, SendPacket, DiscardPacket, FreePacket, WritePacket,
       StopOrStart, SetKeepPackets, outputVars
  <2>5. running' => running
    BY <2>1, Zenon DEF Next, MainThread, Compressor, Output, Clients,
       CopyPackets, PutContainer, DropContainer, NoReset, StartReset, PutReset,
       ModuleExit, JoinCompressor, JoinOutput, GetContainer, CompressorStops,
       CompressorExits, SendPacket, DiscardPacket, SendHeader, SendNoHeader,
       FreePacket, WritePacket, WriteFails, ExitFailed, OutputStops,
       OutputExits, StopOrStart, SetKeepPackets
  <2>6. CASE outputPc' = outputPc
    BY <1>2, <2>1, <2>2, <2>5, <2>6 DEF EndInv, Ends
  <2>7. CASE SendHeader \/ SendNoHeader \/ OutputStops \/ OutputExits
    BY <1>2, <2>1, <2>2, <2>5, <2>7 DEF SendHeader, SendNoHeader, OutputStops,
       OutputExits, EndInv, Ends
  <2> QED BY <2>4, <2>6, <2>7
<1>3. ASSUME outputPc' = "exited", ~failure'
      PROVE  All' = Range(written') \cup unput'
  <2>1. /\ ~FreeState /\ ~ModuleInit /\ ~failure
        /\ outputPc = "exited" \/ OutputExits
    BY <1>2, <1>3 DEF Ends
  <2>2. CASE OutputExits
    <3>1. /\ outputRing = <<>> /\ All' = All /\ written' = written
          /\ unput' = outgoing \cup sending \cup Waiting
      BY <2>2, AllQuiet DEF OutputExits, Quiet, placeVars, Waiting
    <3>2. Range(outputRing) = {}
      BY <3>1, EmptyRange
    <3> QED BY <3>1, <3>2 DEF All, Inside
  <2>3. CASE outputPc = "exited"
    <3>1. All = Range(written) \cup unput
      BY <2>1, <2>3 DEF EndInv
    <3>2. ~running /\ status # "RUNNING"
      BY <2>1, <2>3 DEF EndInv, Ends
    <3>3. ~CopyPackets /\ ~StartReset /\ ~DropContainer
      BY <3>2 DEF CopyPackets, StartReset, DropContainer, PlaceInv
    <3>4. ~WritePacket /\ ~OutputExits /\ ~FreePacket /\ ~WriteFails
      BY <2>3 DEF WritePacket, Writing, OutputExits, FreePacket, WriteFails
    <3>5. ~ \E p \in sending : DiscardPacket(p)
      BY <2>1 DEF DiscardPacket
    <3>6. Quiet \/ (Moves /\ ~WritePacket)
      BY <2>1, <3>3, <3>4, <3>5, NextKinds DEF Drops, CopyNone, CopySome
    <3>7. UNCHANGED <<written, unput>>
      BY <3>4, <3>6, QuietStep
         DEF Quiet, Moves, placeVars, PutContainer, PutReset, GetContainer,
             SendPacket, ModuleInit, NoReset, ModuleExit, JoinCompressor,
             JoinOutput, CompressorStops, CompressorExits, SendHeader,
             SendNoHeader, ExitFailed, OutputStops, StopOrStart,
             SetKeepPackets, outputVars
    <3>8. All' = All
      BY <3>6, AllQuiet, AllMoves
    <3> QED BY <3>1, <3>7, <3>8
  <2> QED BY <2>1, <2>2, <2>3
<1> QED BY <1>1, <1>2, <1>3 DEF EndInv

-----------------------------------------------------------------------------
(* Theorems.                                                               *)

LEMMA StepIInv == IInv /\ [Next]_vars => IInv'
<1> SUFFICES ASSUME IInv, [Next]_vars PROVE IInv'
  OBVIOUS
<1>1. CASE Next
  <2>1. TypeOK /\ PlaceInv /\ BoundInv /\ UniformInv /\ KeepInv /\ EndInv
    BY DEF IInv
  <2>2. TypeOK'
    <3>1. PhaseTypes' /\ FlagTypes' /\ DataTypes' /\ HistoryTypes'
      BY <1>1, <2>1, TypeParts, PhaseStep, FlagStep, DataStep, HistoryStep
    <3> QED BY <3>1, Zenon
            DEF TypeOK, PhaseTypes, FlagTypes, DataTypes, HistoryTypes
  <2>3. PlaceInv' /\ BoundInv' /\ UniformInv' /\ OrderInv' /\ KeepInv'
        /\ EndInv'
    BY <1>1, <2>1, PlaceStep, BoundStep, UniformStep, OrderStep, KeepStep,
       EndStep
  <2> QED BY <2>2, <2>3 DEF IInv
<1>2. CASE UNCHANGED vars
  <2>1. All' = All /\ Inside' = Inside /\ Waiting' = Waiting
    BY <1>2 DEF vars, mainVars, compressorVars, All, Inside, Waiting
  <2>2. TypeOK'
    BY <1>2, Zenon DEF IInv, vars, mainVars, compressorVars, outputVars,
       clientVars, copyHistory, TypeOK
  <2>5. PlaceInv'
    BY <1>2, Zenon DEF IInv, vars, mainVars, compressorVars, outputVars,
       clientVars, copyHistory, PlaceInv
  <2>3. BoundInv' /\ UniformInv' /\ OrderInv'
    BY <1>2, <2>1 DEF IInv, vars, mainVars, compressorVars, copyHistory,
       BoundInv, UniformInv, OrderInv
  <2>4. KeepInv' /\ EndInv'
    <3>1. KeepInv'
      BY <1>2, <2>1, Zenon DEF IInv, vars, outputVars, clientVars, copyHistory,
         KeepInv, Promised
    <3>2. UNCHANGED <<running, status, outputPc, failure, written, unput>>
      BY <1>2 DEF vars, mainVars, outputVars
    <3>3. EndInv'
      BY <2>1, <3>2 DEF IInv, EndInv
    <3> QED BY <3>1, <3>3
  <2> QED BY <2>2, <2>5, <2>3, <2>4 DEF IInv
<1> QED BY <1>1, <1>2

\* The inductive invariant holds in every behaviour of the output module.
THEOREM Invariance == Spec => []IInv
<1>1. Init => IInv
  BY InitIInv
<1>2. IInv /\ [Next]_vars => IInv'
  BY StepIInv
<1> QED BY <1>1, <1>2, PTL DEF Spec

\* The types of the three threads' state; neither ring-buffer holds more than
\* it has room for, however large it is.
THEOREM TypeCorrect == Spec => []TypeOK
<1>1. IInv => TypeOK
  BY DEF IInv
<1> QED BY <1>1, Invariance, PTL

\* Whatever the sizes of the ring-buffers and the interleaving of the three
\* threads, packets are written in the order AEDAT 3.X asks for.
THEOREM OutputInTimeOrder == Spec => []TimeOrder
<1>1. IInv => TimeOrder
  <2> SUFFICES ASSUME IInv, NEW i \in 1 .. Len(written) - 1
               PROVE  Before(written[i], written[i + 1])
    BY DEF TimeOrder, Before
  <2>1. DOMAIN written = 1 .. Len(written) /\ Len(written) \in Nat
    BY LenProperties DEF IInv, TypeOK
  <2>2. i \in DOMAIN written /\ i + 1 \in DOMAIN written /\ i < i + 1
    BY <2>1
  <2> QED BY <2>2 DEF IInv, OrderInv, RankedSeq
<1> QED BY <1>1, Invariance, PTL

\* While "keepPackets" stays set, every copied packet is written or on its
\* way as long as the Output thread lives, and no packet is ever written twice.
\* What is lost is what the Compressor had not put when that thread ended.
THEOREM PacketsAreKept == Spec => []NothingLost
<1>1. IInv => NothingLost
  <2> SUFFICES ASSUME IInv PROVE NothingLost
    OBVIOUS
  <2>1. Promised => IF outputPc = "exited"
                    THEN ~running /\ copied = Range(written) \cup unput
                    ELSE copied = Range(written) \cup Inside
    <3>1. Promised => copied = All /\ ~failure
      BY DEF IInv, KeepInv, Promised
    <3>2. outputPc = "exited" /\ ~failure
            => ~running /\ All = Range(written) \cup unput
      BY DEF IInv, EndInv, Ends
    <3> QED BY <3>1, <3>2 DEF All
  <2>2. IsInjective(written)
    <3>1. DOMAIN written = 1 .. Len(written) /\ Len(written) \in Nat
      BY LenProperties DEF IInv, TypeOK
    <3> SUFFICES ASSUME NEW i \in DOMAIN written, NEW j \in DOMAIN written,
                        written[i] = written[j], i # j
                 PROVE  FALSE
      BY DEF IsInjective
    <3>2. i < j \/ j < i
      BY <3>1
    <3> QED BY <3>2 DEF IInv, OrderInv, RankedSeq, Before
  <2>3. Range(written) \cap Inside = {}
    BY DEF IInv, OrderInv, AllBefore, Before
  <2> QED BY <2>1, <2>2, <2>3 DEF NothingLost
<1> QED BY <1>1, Invariance, PTL

-----------------------------------------------------------------------------
(* Resets separate the epochs. While the Output thread may still write, a  *)
(* reset is kept for every epoch that has ended, written or on its way;    *)
(* and what comes after it in the order cannot be written before it.       *)

HasReset(P, e) == \E r \in P : r.epoch = e /\ r.index = 0

MayWrite == outputPc \in {"none", "waitSource", "write", "drain"}

SeparateInv ==
  /\ failure => ~MayWrite
  /\ mainPc = "put" => \A p \in outgoing : p.index # 0
  /\ mainPc = "putReset" => HasReset(outgoing, epoch)
  /\ MayWrite => \A e \in 0 .. epoch - 1 : HasReset(All, e)
  /\ \A p \in Range(written) : \A e \in 0 .. p.epoch - 1 :
       HasReset(Range(written), e)

LEMMA InitSeparate == Init => SeparateInv
<1> SUFFICES ASSUME Init PROVE SeparateInv
  OBVIOUS
<1>1. /\ mainPc = "pass" /\ epoch = 0 /\ written = <<>> /\ ~failure
  BY Zenon DEF Init
<1>2. Range(written) = {} BY <1>1, EmptyRange
<1> QED BY <1>1, <1>2 DEF SeparateInv

LEMMA MayWriteBefore ==
  ASSUME PlaceInv, Next, MayWrite', ~FreeState
  PROVE  MayWrite
<1>1. CASE ModuleInit BY <1>1 DEF ModuleInit, PlaceInv, MayWrite
<1>2. CASE ~ModuleInit
  BY <1>2, SMT DEF MayWrite, Next, MainThread, Compressor, Output,
     Clients, CopyPackets, PutContainer, DropContainer, NoReset, StartReset,
     PutReset, ModuleExit, JoinCompressor, JoinOutput, GetContainer,
     CompressorStops, CompressorExits, SendPacket, DiscardPacket, SendHeader,
     SendNoHeader, FreePacket, WritePacket, WriteFails, ExitFailed,
     OutputStops, OutputExits, StopOrStart, SetKeepPackets, outputVars
<1> QED BY <1>1, <1>2

LEMMA FailureStep ==
  ASSUME PlaceInv, SeparateInv, Next
  PROVE  failure' => ~MayWrite'
<1> SUFFICES ASSUME failure', ~FreeState, ~WriteFails PROVE ~MayWrite'
  BY DEF FreeState, WriteFails, MayWrite
<1>1. failure
  BY Zenon DEF Next, MainThread, Compressor, Output, Clients, ModuleInit,
     CopyPackets, PutContainer, DropContainer, NoReset, StartReset, PutReset,
     ModuleExit, JoinCompressor, JoinOutput, GetContainer, CompressorStops,
     CompressorExits, SendPacket, DiscardPacket, SendHeader, SendNoHeader,
     FreePacket, WritePacket, ExitFailed, OutputStops, OutputExits,
     StopOrStart, SetKeepPackets
<1>2. ~MayWrite BY <1>1 DEF SeparateInv
<1> QED BY <1>2, MayWriteBefore

\* Only packets of a container are ever dropped from a full ring-buffer.
LEMMA OutgoingStep ==
  ASSUME TypeOK, PlaceInv, SeparateInv, Next
  PROVE  /\ mainPc' = "put" => \A p \in outgoing' : p.index # 0
         /\ mainPc' = "putReset" => HasReset(outgoing', epoch')
<1>1. CASE CopySome
  <2>1. PICK n \in 1 .. MaxPackets : \E c \in [1 .. n -> 0 .. MaxTime] :
          \E I \in SUBSET OnTime(c) : outgoing' = Copy(c, containers', I)
    BY <1>1 DEF CopySome, CopyPackets
  <2>2. PICK c \in [1 .. n -> 0 .. MaxTime] :
          \E I \in SUBSET OnTime(c) : outgoing' = Copy(c, containers', I)
    BY <2>1
  <2>3. PICK I \in SUBSET OnTime(c) : outgoing' = Copy(c, containers', I)
    BY <2>2
  <2>4. \A i \in I : i \in 1 .. n BY DEF OnTime
  <2>5. \A p \in outgoing' : p.index # 0 BY <2>3, <2>4 DEF Copy
  <2> QED BY <1>1, <2>5 DEF CopySome
<1>2. CASE StartReset
  BY <1>2 DEF StartReset, HasReset
<1>3. CASE ~CopySome /\ ~StartReset
  <2>1. /\ mainPc' \in {"put", "putReset"} => mainPc' = mainPc
        /\ mainPc' \in {"put", "putReset"} => UNCHANGED <<outgoing, epoch>>
    BY <1>3 DEF Next, MainThread, Compressor, Output, Clients, ModuleInit,
       CopySome, CopyPackets, PutContainer, DropContainer, NoReset, PutReset,
       ModuleExit, JoinCompressor, JoinOutput, FreeState, GetContainer,
       CompressorStops, CompressorExits, SendPacket, DiscardPacket,
       SendHeader, SendNoHeader, FreePacket, WritePacket, WriteFails,
       ExitFailed, OutputStops, OutputExits, StopOrStart, SetKeepPackets,
       mainVars, copyHistory
  <2> QED BY <2>1 DEF SeparateInv, HasReset
<1> QED BY <1>1, <1>2, <1>3

LEMMA ResetsStep ==
  ASSUME TypeOK, PlaceInv, SeparateInv, Next, MayWrite'
  PROVE  \A e \in 0 .. epoch' - 1 : HasReset(All', e)
<1> USE DEF HasReset
<1>1. CASE FreeState BY <1>1 DEF FreeState
<1> SUFFICES ASSUME ~FreeState
             PROVE  \A e \in 0 .. epoch' - 1 : HasReset(All', e)
  BY <1>1
<1>2. /\ MayWrite /\ ~failure
      /\ epoch \in Nat
  BY MayWriteBefore, OutputPipelineAssumption DEF SeparateInv, TypeOK
<1>3. \A e \in 0 .. epoch - 1 : HasReset(All, e)
  BY <1>2 DEF SeparateInv
<1>4. CASE Quiet \/ CopyNone
  BY <1>3, <1>4, AllQuiet
<1>5. CASE PutReset
  <2>1. All' = All /\ epoch' = epoch + 1
    BY <1>5, AllMoves DEF Moves, PutReset
  <2>2. HasReset(All, epoch)
    BY <1>5 DEF PutReset, SeparateInv, All, Inside
  <2>3. \A e \in 0 .. epoch' - 1 : e \in 0 .. epoch - 1 \/ e = epoch
    BY <1>2, <2>1
  <2> QED BY <1>3, <2>1, <2>2, <2>3
<1>6. CASE Moves /\ ~PutReset
  <2>1. All' = All BY <1>6, AllMoves
  <2>2. epoch' = epoch
    BY <1>6 DEF Moves, PutContainer, GetContainer, WritePacket, SendPacket,
                copyHistory
  <2> QED BY <1>3, <2>1, <2>2
<1>7. CASE DropContainer
  <2>1. /\ UNCHANGED <<compressorRing, sending, outputRing, written, epoch>>
        /\ \A p \in outgoing : p.index # 0
    BY <1>7 DEF DropContainer, SeparateInv, compressorVars, copyHistory
  <2>2. \A p \in All : p \in outgoing \/ p \in All'
    BY <2>1 DEF All, Inside, Waiting
  <2> QED BY <1>3, <2>1, <2>2
<1>8. CASE Drops /\ ~DropContainer
  BY <1>2, <1>8 DEF Drops, FreePacket, WriteFails, DiscardPacket, outputVars,
                    MayWrite
<1>9. CASE CopySome \/ StartReset
  BY <1>3, <1>9, AllCopied
<1> QED BY <1>4, <1>5, <1>6, <1>7, <1>8, <1>9, NextKinds

\* A reset comes before all that it separates, wherever that is.
LEMMA WrittenStep ==
  ASSUME IInv, SeparateInv, Next,
         NEW p \in Range(written'), NEW e \in 0 .. p.epoch - 1
  PROVE  HasReset(Range(written'), e)
<1> USE DEF HasReset
<1> TypeOK /\ PlaceInv /\ BoundInv /\ OrderInv
  BY DEF IInv
<1>1. CASE UNCHANGED written
  BY <1>1 DEF SeparateInv
<1>2. CASE FreeState
  BY <1>2, AllFreed, EmptyRange
<1>3. CASE WritePacket
  <2> DEFINE h == Head(outputRing)
  <2>1. /\ outputRing # <<>> /\ written' = Append(written, h)
        /\ MayWrite
    BY <1>3 DEF WritePacket, Writing, MayWrite
  <2>2. /\ h \in Packets
        /\ Range(outputRing) = {h} \cup Range(Tail(outputRing))
        /\ Range(written') = Range(written) \cup {h}
    BY <2>1, RingRanges
  <2>3. CASE p \in Range(written)
    BY <2>2, <2>3 DEF SeparateInv
  <2>4. CASE p = h
    <3>1. h \in Range(outputRing) /\ h \in All
      BY <2>2 DEF All, Inside
    <3>2. h.epoch <= epoch /\ h.epoch \in Nat /\ epoch \in Nat
      <4>1. h.epoch \in Nat BY <2>2, PacketFields
      <4>2. epoch \in Nat BY OutputPipelineAssumption DEF TypeOK
      <4> QED BY <3>1, <4>1, <4>2 DEF BoundInv
    <3>3. e \in 0 .. epoch - 1 /\ e < h.epoch
      <4> HIDE DEF h
      <4> QED BY <2>4, <3>2
    <3>4. PICK r \in All : r.epoch = e /\ r.index = 0
      BY <2>1, <3>3 DEF SeparateInv
    <3>5. ~ Before(h, r)
      <4> HIDE DEF h
      <4> QED BY <3>2, <3>3, <3>4 DEF Before
    <3>6. h # r
      <4> HIDE DEF h
      <4> QED BY <3>3, <3>4
    <3>7. r \notin Range(Tail(outputRing))
      BY <2>1, <3>5, RankedTail DEF OrderInv, AllBefore, TypeOK
    <3>8. r \notin sending \cup Waiting \cup outgoing
      BY <3>1, <3>5 DEF OrderInv, AllBefore
    <3>9. r \in Range(written)
      BY <2>2, <3>4, <3>6, <3>7, <3>8 DEF All, Inside
    <3> QED BY <2>2, <3>4, <3>9
  <2> QED BY <2>2, <2>3, <2>4
<1>4. CASE ~WritePacket /\ ~FreeState
  <2>1. UNCHANGED written
    BY <1>4 DEF Next, MainThread, Compressor, Output, Clients, ModuleInit,
       CopyPackets, PutContainer, DropContainer, NoReset, StartReset,
       PutReset, ModuleExit, JoinCompressor, JoinOutput, GetContainer,
       CompressorStops, CompressorExits, SendPacket, DiscardPacket,
       SendHeader, SendNoHeader, FreePacket, WriteFails, ExitFailed,
       OutputStops, OutputExits, StopOrStart, SetKeepPackets
  <2> QED BY <1>1, <2>1
<1> QED BY <1>2, <1>3, <1>4

LEMMA SeparateStep == IInv /\ SeparateInv /\ [Next]_vars => SeparateInv'
<1> SUFFICES ASSUME IInv, SeparateInv, [Next]_vars PROVE SeparateInv'
  OBVIOUS
<1>1. CASE Next
  <2>1. TypeOK /\ PlaceInv BY DEF IInv
  <2>2. failure' => ~MayWrite' BY <1>1, <2>1, FailureStep
  <2>3. /\ mainPc' = "put" => \A p \in outgoing' : p.index # 0
        /\ mainPc' = "putReset" => HasReset(outgoing', epoch')
    BY <1>1, <2>1, OutgoingStep
  <2>4. MayWrite' => \A e \in 0 .. epoch' - 1 : HasReset(All', e)
    BY <1>1, <2>1, ResetsStep
  <2>5. \A p \in Range(written') : \A e \in 0 .. p.epoch - 1 :
          HasReset(Range(written'), e)
    BY <1>1, WrittenStep
  <2> QED BY <2>2, <2>3, <2>4, <2>5 DEF SeparateInv, HasReset
<1>2. CASE UNCHANGED vars
  <2>1. All' = All /\ UNCHANGED <<failure, mainPc, outgoing, epoch, written,
                                  outputPc>>
    BY <1>2 DEF vars, mainVars, compressorVars, outputVars, copyHistory,
       All, Inside, Waiting
  <2> QED BY <2>1 DEF SeparateInv, MayWrite, HasReset
<1> QED BY <1>1, <1>2

\* Nothing of a later epoch is written before the reset that began it: a
\* reset waits for room in the ring-buffers, unlike a container, and the
\* stages keep the order (caerOutputCommonReset).
THEOREM EpochsAreSeparated == Spec => []ResetsSeparateEpochs
<1>1. IInv /\ SeparateInv => ResetsSeparateEpochs
  <2> SUFFICES ASSUME IInv, SeparateInv,
                      NEW i \in 1 .. Len(written), written[i].epoch > 0
               PROVE  \E j \in 1 .. i - 1 :
                        /\ written[j].epoch = written[i].epoch - 1
                        /\ written[j].index = 0
    BY DEF ResetsSeparateEpochs
  <2>1. /\ DOMAIN written = 1 .. Len(written) /\ Len(written) \in Nat
        /\ written[i] \in Packets
    BY LenProperties, ElementOfSeq DEF IInv, TypeOK
  <2> DEFINE now == written[i].epoch
  <2>2. now \in Nat /\ now - 1 \in 0 .. now - 1
    BY <2>1, PacketFields
  <2>3. written[i] \in Range(written) BY <2>1 DEF Range
  <2>4. HasReset(Range(written), now - 1)
    BY <2>2, <2>3 DEF SeparateInv
  <2>5. PICK j \in 1 .. Len(written) :
          written[j].epoch = now - 1 /\ written[j].index = 0
    BY <2>1, <2>4 DEF HasReset, Range
  <2>6. ~ i < j
    <3>1. i < j => Before(written[i], written[j])
      BY <2>1 DEF IInv, OrderInv, RankedSeq
    <3>2. ~ Before(written[i], written[j])
      BY <2>2, <2>5 DEF Before
    <3> QED BY <3>1, <3>2
  <2>7. i # j BY <2>2, <2>5
  <2>8. j \in 1 .. i - 1 BY <2>1, <2>6, <2>7
  <2> QED BY <2>5, <2>8
<1>2. Init => SeparateInv BY InitSeparate
<1>3. IInv /\ SeparateInv /\ [Next]_vars => SeparateInv'
  BY SeparateStep
<1> QED BY <1>1, <1>2, <1>3, Invariance, PTL DEF Spec
=============================================================================
