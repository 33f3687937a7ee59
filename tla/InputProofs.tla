---------------------------- MODULE InputProofs -----------------------------
(***************************************************************************)
(* Proofs about the input modules. InputPipeline, for any stream, any size *)
(* of the ring-buffers and any clients: types, the counters of available   *)
(* data, that every execution is one of PacketStream, and what has been    *)
(* delivered when the input ends. Device, for any settings that clients    *)
(* put and any number of puts and pulls: types, and that the device and the*)
(* tree agree on the settings. AedatReader, for any stream that the codec  *)
(* can restore, any sizes of the buffers and of a header: which packets are*)
(* read and which may be lost. The three components share no variable and  *)
(* no constant; each theorem names the specification it is about.          *)
(***************************************************************************)
EXTENDS InputPipeline, Device, AedatReader, SequenceTheorems, FiniteSetTheorems,
        WellFoundedInduction, TLAPS

Packet == 1 .. NumPackets

\* The places of an Init that could not create the Reader.
InitFails == {"ringsFreed", "joinAlone", "undefined"}
Stopped   == mainPc \in {"pass"} \cup InitFails /\ status = "STOPPED"

\* Which threads exist in which phase of the module's life, and that the
\* Reader's state tells of its end.
LifeInv ==
  /\ mainPc = "pass" /\ status = "STOPPED"
       => readerPc = "none" /\ assemblerPc = "none"
  /\ mainPc = "joinAssembler" => readerPc = "exited"
  /\ mainPc = "cleanUp" => readerPc = "exited" /\ assemblerPc = "exited"
  /\ mainPc \in {"joinReader", "joinAssembler", "cleanUp"} => ~running
  /\ mainPc \in {"notifyMainloop", "countModule"} => status = "RUNNING"
  /\ mainPc \in InitFails
       => /\ readerPc = "none" /\ status = "STOPPED"
          /\ assemblerPc \in {"get", "checkReader", "exited", "undefined"}
  /\ Stopped => readerState = "READER_OK" /\ packetRing = <<>>
  /\ readerState # "READER_OK" => readerPc = "exited"
  /\ assemblerPc \in {"waitConsumed", "stopParent"}
       => readerState # "READER_OK"

\* A stopped module has nothing in its ring-buffers.
EmptyInv == Stopped => containerRing = <<>>

\* Either counter is the number of containers in the ring-buffer, apart from
\* one that was put and is not counted yet, and one that was taken and is
\* still counted.
Bit(b) == IF b THEN 1 ELSE 0
CounterInv ==
  /\ dataAvailableModule =
       Len(containerRing)
         + Bit(mainPc \in {"notifyMainloop", "countModule"})
         - Bit(assemblerPc = "countModule")
  /\ dataAvailable =
       Len(containerRing)
         + Bit(mainPc = "notifyMainloop")
         - Bit(assemblerPc \in {"countModule", "notifyMainloop"})

IInv == TypeOK /\ LifeInv /\ EmptyInv /\ CounterInv /\ ConsumedBeforeStop

-----------------------------------------------------------------------------
(* Sequences and ring-buffers.                                             *)

\* Put: one element more.
LEMMA PutElement ==
  ASSUME NEW S, NEW s \in Seq(S), NEW e \in S
  PROVE  /\ Append(s, e) \in Seq(S)
         /\ Len(Append(s, e)) = Len(s) + 1
         /\ Len(s) \in Nat
         /\ Append(s, e) # <<>>
OBVIOUS

\* Get: one element less.
LEMMA GetElement ==
  ASSUME NEW S, NEW s \in Seq(S), s # <<>>
  PROVE  /\ Head(s) \in S
         /\ Tail(s) \in Seq(S)
         /\ Len(Tail(s)) = Len(s) - 1
         /\ Len(s) \in Nat \ {0}
BY HeadTailProperties

\* An empty ring-buffer is one of length zero.
LEMMA LenZero ==
  ASSUME NEW S, NEW s \in Seq(S)
  PROVE  /\ Len(s) \in Nat
         /\ s = <<>> <=> Len(s) = 0
BY EmptySeq, LenProperties

LEMMA NothingInside ==
  /\ <<>> \in Seq(1 .. NumPackets)
  /\ <<>> \in Seq(Seq(1 .. NumPackets))
  /\ Len(<<>>) = 0
BY EmptySeq

\* Cutting a sequence in two.
LEMMA CutSeq ==
  ASSUME NEW S, NEW s \in Seq(S), NEW k \in 1 .. Len(s)
  PROVE  /\ SubSeq(s, 1, k) \in Seq(S)
         /\ SubSeq(s, k + 1, Len(s)) \in Seq(S)
<1>1. \A i \in 1 .. Len(s) : s[i] \in S
  BY ElementOfSeq
<1>2. Len(s) \in Nat
  BY LenProperties
<1>3. (\A i \in 1 .. k : s[i] \in S) /\ (\A i \in k + 1 .. Len(s) : s[i] \in S)
  BY <1>1, <1>2
<1> QED BY <1>2, <1>3, SubSeqProperties

\* Consecutive packets.
LEMMA FreshPackets ==
  ASSUME NEW p \in 0 .. NumPackets, NEW n \in 1 .. NumPackets - p,
         NumPackets \in Nat
  PROVE  [i \in 1 .. n |-> p + i] \in Seq(Packet)
<1>1. [i \in 1 .. n |-> p + i] \in [1 .. n -> Packet]
  BY DEF Packet
<1> QED BY <1>1, n \in Nat, SeqDef

-----------------------------------------------------------------------------
(* Types.                                                                  *)

LEMMA TypeInit == Init => TypeOK
<1> SUFFICES ASSUME Init PROVE TypeOK
  OBVIOUS
<1> USE InputPipelineAssumption, NothingInside DEF Init
<1>1. /\ readerPc \in {"none", "read", "put", "exited"}
      /\ assemblerPc \in AssemblerPlaces
      /\ mainPc \in MainPlaces /\ status \in {"STOPPED", "RUNNING"}
      /\ readerState \in {"READER_OK"} \cup ReaderErrors
  BY DEF AssemblerPlaces, MainPlaces
<1>2. /\ force \in BOOLEAN /\ running \in BOOLEAN /\ flag \in BOOLEAN
      /\ pause \in BOOLEAN /\ keepPackets \in BOOLEAN /\ kept \in BOOLEAN
  OBVIOUS
<1>3. /\ parsed \in 0 .. NumPackets
      /\ dataAvailableModule \in Int /\ dataAvailable \in Int
  OBVIOUS
<1>4. /\ buffered \in Seq(1 .. NumPackets)
      /\ accumulated \in Seq(1 .. NumPackets)
      /\ container \in Seq(1 .. NumPackets)
      /\ packetRing \in Seq(1 .. NumPackets)
      /\ containerRing \in Seq(Seq(1 .. NumPackets))
      /\ delivered \in Seq(1 .. NumPackets)
  OBVIOUS
<1>5. Len(packetRing) <= RingSize /\ Len(containerRing) <= RingSize
  OBVIOUS
<1> QED
  BY <1>1, <1>2, <1>3, <1>4, <1>5
     DEF TypeOK, PlacesOK, FlagsOK, NumbersOK, SequencesOK

LEMMA PlacesStep == PlacesOK /\ [Next]_vars => PlacesOK'
<1> SUFFICES ASSUME PlacesOK, [Next]_vars PROVE PlacesOK'
  OBVIOUS
<1> USE InputPipelineAssumption
    DEF PlacesOK, AssemblerPlaces, MainPlaces, ReaderErrors, readerVars,
        assemblerVars, mainVars, counters, clientVars, historyVars
<1>1. CASE Reader
  BY <1>1 DEF Reader, ReadBuffer, ReadFails, ReaderStops, PutPacket,
              PutPacketGivesUp, EndBuffer
<1>2. CASE Assembler
  BY <1>2 DEF Assembler, AssemblerStops, GetPacket, GetNothing,
              GetFromFreedRing, CheckReader, GenerateContainer, EndCommit,
              PutContainer, DropContainer, CountModule, NotifyMainloop,
              Consumed, StopParent
<1>3. CASE MainThread
  BY <1>3 DEF MainThread, ModuleInit, ModuleRun, RunNotifiesMainloop,
              RunCountsModule, ModuleExit, JoinReader, JoinAssembler,
              DrainContainer, FreeState, ReaderNotCreated, StopAssembler,
              JoinAssemblerAlone
<1>4. CASE Clients \/ UNCHANGED vars
  BY <1>4 DEF Clients, StopOrStart, SetPause, SetKeepPackets, vars
<1> QED BY <1>1, <1>2, <1>3, <1>4, Zenon DEF Next

LEMMA FlagsStep == FlagsOK /\ [Next]_vars => FlagsOK'
<1> SUFFICES ASSUME FlagsOK, [Next]_vars PROVE FlagsOK'
  BY Zenon
<1> USE DEF FlagsOK, readerVars, assemblerVars, mainVars, counters, clientVars, historyVars
<1>1. CASE Reader
  BY <1>1, ZenonT(30)
     DEF Reader, ReadBuffer, ReadFails, ReaderStops, PutPacket,
         PutPacketGivesUp, EndBuffer
<1>2. CASE Assembler
  BY <1>2, ZenonT(30)
     DEF Assembler, AssemblerStops, GetPacket, GetNothing, GetFromFreedRing, CheckReader,
         GenerateContainer, EndCommit, PutContainer, DropContainer,
         CountModule, NotifyMainloop, Consumed, StopParent
<1>3. CASE MainThread
  BY <1>3, ZenonT(30)
     DEF MainThread, ModuleInit, ModuleRun, RunNotifiesMainloop,
         RunCountsModule, ModuleExit, JoinReader, JoinAssembler,
         DrainContainer, FreeState, ReaderNotCreated, StopAssembler,
         JoinAssemblerAlone
<1>4. CASE Clients \/ UNCHANGED vars
  BY <1>4, Zenon DEF Clients, StopOrStart, SetPause, SetKeepPackets, vars
<1> QED BY <1>1, <1>2, <1>3, <1>4, Zenon DEF Next

LEMMA SequencesStep ==
  TypeOK /\ [Next]_vars => SequencesOK'
<1> SUFFICES ASSUME TypeOK, [Next]_vars PROVE SequencesOK'
  OBVIOUS
<1> USE InputPipelineAssumption, NothingInside
    DEF TypeOK, SequencesOK, NumbersOK, readerVars, assemblerVars, mainVars,
        counters, clientVars, historyVars, Full
<1>1. CASE ReadBuffer
  <2>1. PICK n \in 1 .. NumPackets - parsed :
          /\ buffered' = [i \in 1 .. n |-> parsed + i]
          /\ parsed' = parsed + n
    BY <1>1 DEF ReadBuffer
  <2>2. buffered' \in Seq(1 .. NumPackets)
    BY <2>1, FreshPackets DEF Packet
  <2> QED BY <1>1, <2>1, <2>2 DEF ReadBuffer
<1>2. CASE PutPacket
  <2>1. /\ buffered \in Seq(1 .. NumPackets) /\ buffered # <<>>
        /\ packetRing \in Seq(1 .. NumPackets)
        /\ packetRing' = Append(packetRing, Head(buffered))
        /\ buffered' = Tail(buffered)
    BY <1>2 DEF PutPacket
  <2>2. Head(buffered) \in 1 .. NumPackets /\ buffered' \in Seq(1 .. NumPackets)
    BY ONLY <2>1, GetElement
  <2>3. packetRing' \in Seq(1 .. NumPackets)
    BY ONLY <2>1, <2>2, PutElement
  <2> QED BY <1>2, <2>2, <2>3 DEF PutPacket
<1>3. CASE ReadFails \/ ReaderStops \/ PutPacketGivesUp \/ EndBuffer
  <2>1. CASE ReadFails BY <2>1 DEF ReadFails
  <2>2. CASE ReaderStops BY <2>2 DEF ReaderStops
  <2>3. CASE PutPacketGivesUp BY <2>3 DEF PutPacketGivesUp
  <2>4. CASE EndBuffer BY <2>4 DEF EndBuffer
  <2> QED BY <1>3, <2>1, <2>2, <2>3, <2>4
<1>4. CASE GetPacket
  <2>1. /\ packetRing \in Seq(1 .. NumPackets) /\ packetRing # <<>>
        /\ accumulated \in Seq(1 .. NumPackets)
        /\ accumulated' = Append(accumulated, Head(packetRing))
        /\ packetRing' = Tail(packetRing)
    BY <1>4 DEF GetPacket
  <2>2. /\ Head(packetRing) \in 1 .. NumPackets
        /\ packetRing' \in Seq(1 .. NumPackets)
    BY ONLY <2>1, GetElement
  <2>3. accumulated' \in Seq(1 .. NumPackets)
    BY ONLY <2>1, <2>2, PutElement
  <2> QED BY <1>4, <2>2, <2>3 DEF GetPacket
<1>5. CASE GenerateContainer
  <2>1. PICK k \in 1 .. Len(accumulated) :
          /\ container' = SubSeq(accumulated, 1, k)
          /\ accumulated' = SubSeq(accumulated, k + 1, Len(accumulated))
    BY <1>5 DEF GenerateContainer
  <2>2. /\ container' \in Seq(1 .. NumPackets)
        /\ accumulated' \in Seq(1 .. NumPackets)
    BY <2>1, CutSeq
  <2> QED BY <1>5, <2>2 DEF GenerateContainer
<1>6. CASE PutContainer
  <2>1. containerRing' \in Seq(Seq(1 .. NumPackets))
    BY <1>6, PutElement DEF PutContainer
  <2>2. Len(containerRing') <= RingSize
    BY <1>6, PutElement DEF PutContainer
  <2> QED BY <1>6, <2>1, <2>2 DEF PutContainer
<1>7. CASE AssemblerStops \/ GetNothing \/ GetFromFreedRing \/ CheckReader \/ EndCommit
           \/ DropContainer \/ Consumed \/ StopParent
  <2>1. CASE AssemblerStops BY <2>1 DEF AssemblerStops
  <2>2. CASE GetNothing BY <2>2 DEF GetNothing
  <2>3. CASE CheckReader BY <2>3 DEF CheckReader
  <2>4. CASE EndCommit BY <2>4 DEF EndCommit
  <2>5. CASE DropContainer BY <2>5 DEF DropContainer
  <2>6. CASE Consumed BY <2>6 DEF Consumed
  <2>7. CASE StopParent BY <2>7 DEF StopParent
  <2>8. CASE GetFromFreedRing BY <2>8 DEF GetFromFreedRing
  <2> QED BY <1>7, <2>1, <2>2, <2>3, <2>4, <2>5, <2>6, <2>7, <2>8
<1>8. CASE CountModule \/ NotifyMainloop \/ RunNotifiesMainloop
           \/ RunCountsModule
  BY <1>8 DEF CountModule, NotifyMainloop, RunNotifiesMainloop,
              RunCountsModule
<1>9. CASE ModuleInit \/ ModuleExit \/ JoinReader \/ JoinAssembler
           \/ ReaderNotCreated \/ StopAssembler \/ JoinAssemblerAlone
  <2>1. CASE ModuleInit BY <2>1 DEF ModuleInit
  <2>2. CASE ModuleExit BY <2>2 DEF ModuleExit
  <2>3. CASE JoinReader BY <2>3 DEF JoinReader
  <2>4. CASE JoinAssembler BY <2>4 DEF JoinAssembler
  <2>5. CASE ReaderNotCreated BY <2>5 DEF ReaderNotCreated
  <2>6. CASE StopAssembler BY <2>6 DEF StopAssembler
  <2>7. CASE JoinAssemblerAlone BY <2>7 DEF JoinAssemblerAlone
  <2> QED BY <1>9, <2>1, <2>2, <2>3, <2>4, <2>5, <2>6, <2>7
<1>10. CASE ModuleRun
  <2>1. /\ Head(containerRing) \in Seq(1 .. NumPackets)
        /\ Tail(containerRing) \in Seq(Seq(1 .. NumPackets))
        /\ Len(Tail(containerRing)) <= RingSize
    BY <1>10, GetElement DEF ModuleRun
  <2>2. delivered' \in Seq(1 .. NumPackets)
    BY <1>10, <2>1, ConcatProperties DEF ModuleRun
  <2> QED BY <1>10, <2>1, <2>2 DEF ModuleRun
<1>11. CASE DrainContainer
  <2>1. /\ Tail(containerRing) \in Seq(Seq(1 .. NumPackets))
        /\ Len(Tail(containerRing)) <= RingSize
    BY <1>11, GetElement DEF DrainContainer
  <2> QED BY <1>11, <2>1 DEF DrainContainer
<1>12. CASE FreeState
  BY <1>12 DEF FreeState
<1>13. CASE Clients
  BY <1>13 DEF Clients, StopOrStart, SetPause, SetKeepPackets
<1>14. CASE UNCHANGED vars
  BY <1>14 DEF vars
<1> HIDE DEF SequencesOK
<1> QED BY <1>1, <1>2, <1>3, <1>4, <1>5, <1>6, <1>7, <1>8, <1>9, <1>10,
           <1>11, <1>12, <1>13, <1>14
        DEF Next, Reader, Assembler, MainThread

LEMMA NumbersStep == TypeOK /\ [Next]_vars => NumbersOK'
<1> SUFFICES ASSUME TypeOK, [Next]_vars PROVE NumbersOK'
  OBVIOUS
<1> USE InputPipelineAssumption
    DEF TypeOK, NumbersOK, readerVars, assemblerVars, mainVars, counters,
        clientVars, historyVars
<1>1. CASE Reader
  BY <1>1 DEF Reader, ReadBuffer, ReadFails, ReaderStops, PutPacket,
              PutPacketGivesUp, EndBuffer
<1>2. CASE Assembler
  <2>1. Len(buffered) \in Nat BY LenZero DEF SequencesOK
  <2> QED BY <1>2, <2>1
      DEF Assembler, AssemblerStops, GetPacket, GetNothing,
          GetFromFreedRing, CheckReader, GenerateContainer, EndCommit,
          PutContainer, DropContainer, CountModule, NotifyMainloop, Consumed,
          StopParent
<1>3. CASE MainThread
  BY <1>3 DEF MainThread, ModuleInit, ModuleRun, RunNotifiesMainloop,
              RunCountsModule, ModuleExit, JoinReader, JoinAssembler,
              DrainContainer, FreeState, ReaderNotCreated, StopAssembler,
              JoinAssemblerAlone
<1>4. CASE Clients \/ UNCHANGED vars
  BY <1>4 DEF Clients, StopOrStart, SetPause, SetKeepPackets, vars
<1> QED BY <1>1, <1>2, <1>3, <1>4 DEF Next

LEMMA TypeStep == TypeOK /\ [Next]_vars => TypeOK'
BY PlacesStep, FlagsStep, SequencesStep, NumbersStep DEF TypeOK
-----------------------------------------------------------------------------
(* The life of the threads.                                                *)

LEMMA LifeStep == TypeOK /\ LifeInv /\ [Next]_vars => LifeInv'
<1> SUFFICES ASSUME TypeOK, LifeInv, [Next]_vars PROVE LifeInv'
  OBVIOUS
<1> USE DEF LifeInv, InitFails, Stopped, TypeOK, FlagsOK, readerVars,
            assemblerVars, mainVars, counters, clientVars, historyVars
<1>1. CASE Reader
  BY <1>1 DEF Reader, ReadBuffer, ReadFails, ReaderStops, PutPacket,
              PutPacketGivesUp, EndBuffer
<1>2. CASE Assembler
  <2>1. CASE AssemblerStops BY <2>1 DEF AssemblerStops
  <2>2. CASE GetPacket \/ GetNothing
    BY <2>2 DEF GetPacket, GetNothing, SequencesOK
  <2>3. CASE GetFromFreedRing BY <2>3 DEF GetFromFreedRing
  <2>4. CASE CheckReader BY <2>4 DEF CheckReader
  <2>5. CASE GenerateContainer \/ EndCommit
    BY <2>5 DEF GenerateContainer, EndCommit
  <2>6. CASE PutContainer \/ DropContainer
    BY <2>6 DEF PutContainer, DropContainer
  <2>7. CASE CountModule \/ NotifyMainloop
    BY <2>7 DEF CountModule, NotifyMainloop
  <2>8. CASE Consumed \/ StopParent
    BY <2>8 DEF Consumed, StopParent
  <2> QED BY <1>2, <2>1, <2>2, <2>3, <2>4, <2>5, <2>6, <2>7, <2>8
          DEF Assembler
<1>3. CASE MainThread
  BY <1>3 DEF MainThread, ModuleInit, ModuleRun, RunNotifiesMainloop,
              RunCountsModule, ModuleExit, JoinReader, JoinAssembler,
              DrainContainer, FreeState, ReaderNotCreated, StopAssembler,
              JoinAssemblerAlone
<1>4. CASE Clients
  BY <1>4 DEF Clients, StopOrStart, SetPause, SetKeepPackets
<1>5. CASE UNCHANGED vars
  BY <1>5 DEF vars
<1> QED BY <1>1, <1>2, <1>3, <1>4, <1>5 DEF Next

-----------------------------------------------------------------------------
(* The counters.                                                           *)

\* Nothing but these steps touches the ring-buffer of containers, a counter,
\* or the places that the counters' invariants look at.
DataVars ==
  <<containerRing, dataAvailableModule, dataAvailable, assemblerPc, mainPc,
    status, running>>

DataInv == EmptyInv /\ CounterInv /\ ConsumedBeforeStop

LEMMA DataUnchanged == DataInv /\ UNCHANGED DataVars => DataInv'
BY DEF DataInv, DataVars, EmptyInv, Stopped, CounterInv, ConsumedBeforeStop

LEMMA DataAssembler ==
  ASSUME TypeOK, LifeInv, DataInv, Assembler
  PROVE  DataInv'
<1>0. /\ Len(containerRing) \in Nat
      /\ containerRing = <<>> <=> Len(containerRing) = 0
  BY LenZero DEF TypeOK, SequencesOK
<1> USE <1>0 DEF DataInv, EmptyInv, Stopped, InitFails, CounterInv, Bit,
                 ConsumedBeforeStop, LifeInv, TypeOK, NumbersOK, counters,
                 mainVars
<1>1. CASE AssemblerStops \/ GetPacket \/ GetNothing \/ GetFromFreedRing \/ CheckReader
           \/ GenerateContainer \/ EndCommit \/ DropContainer \/ StopParent
  BY <1>1 DEF AssemblerStops, GetPacket, GetNothing, GetFromFreedRing, CheckReader,
              GenerateContainer, EndCommit, DropContainer, StopParent
<1>2. CASE PutContainer
  <2>1. Len(containerRing') = Len(containerRing) + 1
    BY <1>2, PutElement DEF PutContainer, SequencesOK
  <2> QED BY <1>2, <2>1 DEF PutContainer
<1>3. CASE CountModule
  BY <1>3 DEF CountModule
<1>4. CASE NotifyMainloop
  BY <1>4 DEF NotifyMainloop
<1>5. CASE Consumed
  BY <1>5 DEF Consumed
<1> QED BY <1>1, <1>2, <1>3, <1>4, <1>5 DEF Assembler

LEMMA DataMainThread ==
  ASSUME TypeOK, LifeInv, DataInv, MainThread
  PROVE  DataInv'
<1>0. /\ Len(containerRing) \in Nat
      /\ containerRing = <<>> <=> Len(containerRing) = 0
  BY LenZero DEF TypeOK, SequencesOK
<1> USE <1>0 DEF DataInv, EmptyInv, Stopped, InitFails, CounterInv, Bit,
                 ConsumedBeforeStop, LifeInv, TypeOK, NumbersOK, counters,
                 readerVars, assemblerVars
<1>1. CASE ModuleInit
  BY <1>1 DEF ModuleInit
<1>2. CASE ModuleRun \/ DrainContainer
  <2>1. Len(containerRing') = Len(containerRing) - 1
    BY <1>2, GetElement DEF ModuleRun, DrainContainer, SequencesOK
  <2>2. containerRing # <<>> /\ containerRing' = Tail(containerRing)
    BY <1>2 DEF ModuleRun, DrainContainer
  <2>3. CASE ModuleRun      BY <2>1, <2>2, <2>3 DEF ModuleRun
  <2>4. CASE DrainContainer BY <2>1, <2>2, <2>4 DEF DrainContainer, mainVars
  <2> QED BY <1>2, <2>3, <2>4
<1>3. CASE RunNotifiesMainloop
  BY <1>3 DEF RunNotifiesMainloop
<1>4. CASE RunCountsModule
  BY <1>4 DEF RunCountsModule
<1>5. CASE ModuleExit    BY <1>5 DEF ModuleExit
<1>6. CASE JoinReader    BY <1>6 DEF JoinReader
<1>7. CASE JoinAssembler BY <1>7 DEF JoinAssembler
<1>8. CASE FreeState     BY <1>8 DEF FreeState
<1>9. CASE ReaderNotCreated \/ StopAssembler \/ JoinAssemblerAlone
  BY <1>9 DEF ReaderNotCreated, StopAssembler, JoinAssemblerAlone, mainVars
<1> QED BY <1>1, <1>2, <1>3, <1>4, <1>5, <1>6, <1>7, <1>8, <1>9
        DEF MainThread

LEMMA DataStep == TypeOK /\ LifeInv /\ DataInv /\ [Next]_vars => DataInv'
<1> SUFFICES ASSUME TypeOK, LifeInv, DataInv, [Next]_vars PROVE DataInv'
  OBVIOUS
<1>1. CASE Reader
  <2>1. UNCHANGED DataVars
    BY <1>1 DEF Reader, ReadBuffer, ReadFails, ReaderStops, PutPacket,
                PutPacketGivesUp, EndBuffer, DataVars, assemblerVars,
                mainVars, counters
  <2> QED BY <2>1, DataUnchanged
<1>2. CASE Clients \/ UNCHANGED vars
  <2>1. UNCHANGED DataVars
    BY <1>2 DEF Clients, StopOrStart, SetPause, SetKeepPackets, DataVars,
                vars, assemblerVars, mainVars, counters
  <2> QED BY <2>1, DataUnchanged
<1> QED BY <1>1, <1>2, DataAssembler, DataMainThread DEF Next

-----------------------------------------------------------------------------
LEMMA InitEstablishes == Init => IInv
BY TypeInit DEF Init, IInv, LifeInv, InitFails, Stopped, EmptyInv, CounterInv,
                Bit, ConsumedBeforeStop

\* The inductive invariant holds in every reachable state.
THEOREM Invariance == Spec => []IInv
<1>1. IInv /\ [Next]_vars => IInv'
  BY TypeStep, LifeStep, DataStep DEF IInv, DataInv
<1> QED BY <1>1, InitEstablishes, PTL DEF Spec

\* Every variable of the pipeline stays within its type, and no ring-buffer
\* holds more than it has room for.
THEOREM TypeCorrect == Spec => []TypeOK
<1>1. IInv => TypeOK BY DEF IInv
<1> QED BY <1>1, Invariance, PTL

\* The mainloop's counter never hides a container that was announced.
THEOREM AnnouncedSeen == Spec => []AnnouncedDataIsSeen
<1>1. IInv => AnnouncedDataIsSeen
  <2> SUFFICES ASSUME IInv PROVE AnnouncedDataIsSeen
    OBVIOUS
  <2>1. /\ Len(containerRing) \in Nat
        /\ containerRing = <<>> <=> Len(containerRing) = 0
    BY LenZero DEF IInv, TypeOK, SequencesOK
  <2> QED BY <2>1 DEF IInv, CounterInv, Bit, AnnouncedDataIsSeen
<1> QED BY <1>1, Invariance, PTL

\* Stopping a module takes all of its data out of both counters.
THEOREM StopLeavesNothing == Spec => []NothingLeftBehind
<1>1. IInv => NothingLeftBehind
  BY EmptySeq DEF IInv, LifeInv, CounterInv, Bit, NothingLeftBehind
<1> QED BY <1>1, Invariance, PTL

\* Both counters at once, as the model checker is asked for them.
THEOREM CountersAgree == Spec => []CountersMatchData
  BY AnnouncedSeen, StopLeavesNothing, PTL DEF CountersMatchData

\* At the end of its input a module stops itself only after the mainloop has
\* consumed every container.
THEOREM ConsumedFirst == Spec => []ConsumedBeforeStop
<1>1. IInv => ConsumedBeforeStop BY DEF IInv
<1> QED BY <1>1, Invariance, PTL

-----------------------------------------------------------------------------
(* The pipeline as a stream of packets: what FlattenSeq and concatenation   *)
(* do, so that a step's effect on Inside can be computed.                  *)

LEMMA LeastNatural ==
  ASSUME NEW S, S \subseteq Nat, S # {}
  PROVE  \E x \in S : \A y \in S : x <= y
<1> DEFINE Segments == {0 .. n - 1 : n \in S}
<1>1. \A n \in S : 0 .. n - 1 \in SUBSET Nat /\ IsFiniteSet(0 .. n - 1)
  BY FS_Interval
<1>2. Segments \subseteq FiniteSubsetsOf(Nat) /\ Segments # {}
  BY <1>1 DEF FiniteSubsetsOf
<1>3. PICK X \in Segments : \A Y \in Segments :
        <<Y, X>> \notin StrictSubsetOrdering(Nat)
  <2> HIDE DEF Segments
  <2> QED BY <1>2, FS_StrictSubsetOrderingWellFounded, WFMin
<1>4. PICK x \in S : X = 0 .. x - 1
  OBVIOUS
<1>5. ASSUME NEW y \in S PROVE x <= y
  <2> SUFFICES ASSUME y < x PROVE FALSE
    OBVIOUS
  <2> DEFINE Y == 0 .. y - 1
  <2>1. Y \in Segments OBVIOUS
  <2>2. y \in X /\ y \notin Y
    <3>1. x \in Nat /\ y \in Nat OBVIOUS
    <3> QED BY <1>4, <3>1
  <2>3. Y \subseteq X /\ X \subseteq Nat
    <3>1. x \in Nat /\ y \in Nat OBVIOUS
    <3> HIDE DEF Segments
    <3> QED BY <1>4, <3>1
  <2>4. <<Y, X>> \in (SUBSET Nat) \X (SUBSET Nat) BY <2>3
  <2>5. <<Y, X>> \in StrictSubsetOrdering(Nat)
    <3> HIDE DEF Y
    <3> QED BY <2>2, <2>3, <2>4 DEF StrictSubsetOrdering
  <2> QED BY <1>3, <2>1, <2>5
<1> QED BY <1>5

\* f holds what the first n sequences of s amount to, one after the other.
Concatenates(f, n, s) ==
  \A i \in 1 .. n : f[i] = IF i = 1 THEN s[i] ELSE f[i - 1] \o s[i]

LEMMA ConcatenationsExist ==
  ASSUME NEW S, NEW s \in Seq(Seq(S)), NEW m \in 0 .. Len(s)
  PROVE  \E f \in [1 .. m -> Seq(S)] : Concatenates(f, m, s)
<1> DEFINE Bad == {n \in 0 .. Len(s) :
                     ~ \E f \in [1 .. n -> Seq(S)] : Concatenates(f, n, s)}
<1>0. Len(s) \in Nat /\ \A i \in 1 .. Len(s) : s[i] \in Seq(S)
  BY LenProperties, ElementOfSeq
<1>1. SUFFICES ASSUME Bad # {} PROVE FALSE
  OBVIOUS
<1>2. PICK n \in Bad : \A k \in Bad : n <= k
  <2>1. Bad \subseteq Nat BY <1>0
  <2> HIDE DEF Bad
  <2> QED BY <1>1, <2>1, LeastNatural
<1>3. n # 0
  <2>1. [i \in 1 .. 0 |-> <<>>] \in [1 .. 0 -> Seq(S)]
        /\ Concatenates([i \in 1 .. 0 |-> <<>>], 0, s)
    BY DEF Concatenates
  <2> QED BY <2>1
<1>4. n - 1 \in 0 .. Len(s) /\ n - 1 \notin Bad /\ n \in 1 .. Len(s)
  <2>1. n \in 0 .. Len(s) BY <1>2
  <2>2. n \in 1 .. Len(s) /\ n - 1 \in 0 .. Len(s) BY <2>1, <1>0, <1>3
  <2>3. ~ (n <= n - 1) BY <2>2, <1>0
  <2> HIDE DEF Bad
  <2> QED BY <2>2, <2>3, <1>2
<1>5. PICK f \in [1 .. n - 1 -> Seq(S)] : Concatenates(f, n - 1, s)
  BY <1>4
<1> DEFINE v == IF n = 1 THEN s[n] ELSE f[n - 1] \o s[n]
           g == [i \in 1 .. n |-> IF i = n THEN v ELSE f[i]]
<1>6. v \in Seq(S)
  <2>1. CASE n = 1 BY <2>1, <1>0, <1>4
  <2>2. CASE n # 1
    <3>1. f[n - 1] \in Seq(S) /\ s[n] \in Seq(S)
      BY <2>2, <1>0, <1>4
    <3> QED BY <2>2, <3>1, ConcatProperties
  <2> QED BY <2>1, <2>2
<1>7. g \in [1 .. n -> Seq(S)]
  BY <1>4, <1>6
<1>8. Concatenates(g, n, s)
  <2> SUFFICES ASSUME NEW i \in 1 .. n
               PROVE  g[i] = IF i = 1 THEN s[i] ELSE g[i - 1] \o s[i]
    BY DEF Concatenates
  <2>1. CASE i = n
    <3>1. n # 1 => g[n - 1] = f[n - 1]
      BY <1>4
    <3> QED BY <2>1, <3>1
  <2>2. CASE i # n
    <3>1. i \in 1 .. n - 1 /\ g[i] = f[i] /\ (i # 1 => g[i - 1] = f[i - 1])
      BY <2>2, <1>4
    <3> QED BY <3>1, <1>5 DEF Concatenates
  <2> QED BY <2>1, <2>2
<1> QED BY <1>7, <1>8

LEMMA ConcatenationsAgree ==
  ASSUME NEW s, NEW f, NEW g, NEW m \in Nat, Concatenates(f, m, s),
         Concatenates(g, m, s)
  PROVE  \A i \in 1 .. m : f[i] = g[i]
<1> DEFINE Bad == {i \in 1 .. m : f[i] # g[i]}
<1>1. SUFFICES ASSUME Bad # {} PROVE FALSE
  OBVIOUS
<1>2. PICK n \in Bad : \A k \in Bad : n <= k
  <2>1. Bad \subseteq Nat OBVIOUS
  <2> HIDE DEF Bad
  <2> QED BY <1>1, <2>1, LeastNatural
<1>3. n # 1 => n - 1 \in 1 .. m /\ n - 1 \notin Bad
  BY <1>2
<1> QED BY <1>2, <1>3 DEF Concatenates

LEMMA FlattenIsLast ==
  ASSUME NEW S, NEW s \in Seq(Seq(S)), NEW f, s # <<>>,
         Concatenates(f, Len(s), s)
  PROVE  FlattenSeq(s) = f[Len(s)]
<1> DEFINE n == Len(s)
           Flatten(h) == h = [i \in 1 .. n |-> IF i = 1 THEN s[i]
                                               ELSE h[i - 1] \o s[i]]
           c == CHOOSE h : Flatten(h)
<1>1. n \in Nat \ {0}
  BY EmptySeq
<1>2. FlattenSeq(s) = c[n]
  BY <1>1 DEF FlattenSeq
<1>3. \E h : Flatten(h)
  <2>1. PICK h \in [1 .. n -> Seq(S)] : Concatenates(h, n, s)
    <3>1. n \in 0 .. Len(s) BY <1>1
    <3> HIDE DEF n
    <3> QED BY ONLY <3>1, s \in Seq(Seq(S)), ConcatenationsExist
  <2>2. h = [i \in 1 .. n |-> IF i = 1 THEN s[i] ELSE h[i - 1] \o s[i]]
    BY <2>1 DEF Concatenates
  <2> QED BY <2>2
<1>4. Concatenates(c, n, s)
  <2>1. Flatten(c)
    BY <1>3
  <2> HIDE DEF c
  <2> QED BY <2>1 DEF Concatenates
<1> HIDE DEF c
<1> QED BY <1>1, <1>2, <1>4, ConcatenationsAgree

LEMMA FlattenType ==
  ASSUME NEW S, NEW s \in Seq(Seq(S))
  PROVE  FlattenSeq(s) \in Seq(S)
<1>1. CASE s = <<>>
  BY <1>1, EmptySeq DEF FlattenSeq
<1>2. CASE s # <<>>
  <2>1. Len(s) \in Nat \ {0}
    BY <1>2, EmptySeq
  <2>2. PICK f \in [1 .. Len(s) -> Seq(S)] : Concatenates(f, Len(s), s)
    <3>1. Len(s) \in 0 .. Len(s) BY <2>1
    <3> QED BY ONLY <3>1, s \in Seq(Seq(S)), ConcatenationsExist
  <2>3. Len(s) \in 1 .. Len(s)
    BY <2>1
  <2>4. f[Len(s)] \in Seq(S)
    BY <2>3
  <2> QED BY <1>2, <2>2, <2>4, FlattenIsLast
<1> QED BY <1>1, <1>2

LEMMA FlattenAppend ==
  ASSUME NEW S, NEW s \in Seq(Seq(S)), NEW c \in Seq(S)
  PROVE  FlattenSeq(Append(s, c)) = FlattenSeq(s) \o c
<1> DEFINE t == Append(s, c)
           n == Len(s)
<1>1. /\ t \in Seq(Seq(S)) /\ t # <<>> /\ Len(t) = n + 1 /\ n \in Nat
      /\ \A i \in 1 .. n : t[i] = s[i]
      /\ t[n + 1] = c
  BY AppendProperties, LenProperties
<1> HIDE DEF t
<1>2. PICK f \in [1 .. n + 1 -> Seq(S)] : Concatenates(f, n + 1, t)
  <2>1. n + 1 \in 0 .. Len(t) BY <1>1
  <2> HIDE DEF n
  <2> QED BY <1>1, <2>1, ConcatenationsExist
<1>3. FlattenSeq(t) = f[n + 1]
  BY <1>1, <1>2, FlattenIsLast
<1>4. CASE s = <<>>
  <2>1. n = 0 BY <1>4, EmptySeq
  <2>2. f[n + 1] = c BY <1>1, <1>2, <2>1 DEF Concatenates
  <2>3. FlattenSeq(s) = <<>> BY <1>4, <2>1 DEF FlattenSeq
  <2> QED BY <1>3, <2>2, <2>3, ConcatEmptySeq DEF t
<1>5. CASE s # <<>>
  <2>1. n \in Nat \ {0} BY <1>5, EmptySeq
  <2>2. Concatenates(f, n, s)
    <3> HIDE DEF n
    <3> SUFFICES ASSUME NEW i \in 1 .. n
                 PROVE  f[i] = IF i = 1 THEN s[i] ELSE f[i - 1] \o s[i]
      BY DEF Concatenates
    <3>1. i \in 1 .. n + 1 /\ t[i] = s[i]
      BY <1>1, <2>1
    <3> QED BY <1>2, <3>1 DEF Concatenates
  <2>3. f[n] = FlattenSeq(s) BY <1>5, <2>2, FlattenIsLast
  <2>4. f[n + 1] = f[n] \o t[n + 1]
    <3> HIDE DEF n
    <3>1. n + 1 \in 1 .. n + 1 /\ n + 1 # 1 /\ (n + 1) - 1 = n
      BY <2>1
    <3> QED BY <1>2, <3>1 DEF Concatenates
  <2> QED BY <1>1, <1>3, <2>3, <2>4 DEF t
<1> QED BY <1>4, <1>5

LEMMA Concatenation ==
  \A S : \A s, t, u \in Seq(S) : (s \o t) \o u = s \o (t \o u)
BY ConcatAssociative

LEMMA FlattenHead ==
  ASSUME NEW S, NEW s \in Seq(Seq(S)), s # <<>>
  PROVE  FlattenSeq(s) = Head(s) \o FlattenSeq(Tail(s))
<1> DEFINE rest == Tail(s)
           n == Len(rest)
           h == Head(s)
<1>1. /\ rest \in Seq(Seq(S)) /\ n \in Nat /\ Len(s) = n + 1
      /\ h \in Seq(S) /\ h = s[1]
      /\ \A i \in 1 .. n : rest[i] = s[i + 1] /\ rest[i] \in Seq(S)
  <2>1. rest \in Seq(Seq(S)) /\ h \in Seq(S) /\ n = Len(s) - 1
        /\ \A i \in 1 .. n : rest[i] = s[i + 1]
    BY HeadTailProperties
  <2>2. Len(s) \in Nat \ {0} BY EmptySeq
  <2>3. \A i \in 1 .. n : rest[i] \in Seq(S)
    BY <2>1, ElementOfSeq
  <2>4. h = s[1] OBVIOUS
  <2>5. n \in Nat /\ Len(s) = n + 1
    <3> HIDE DEF n
    <3> QED BY <2>1, <2>2
  <2> QED BY <2>1, <2>3, <2>4, <2>5
<1> HIDE DEF rest, h
<1>7. \A x, y \in Seq(S) : (h \o x) \o y = h \o (x \o y)
  <2>1. h \in Seq(S) BY <1>1
  <2> QED BY <2>1, Concatenation, SMTT(30)
<1>2. PICK f \in [1 .. n + 1 -> Seq(S)] : Concatenates(f, n + 1, s)
  <2>1. n + 1 \in 0 .. Len(s) BY <1>1
  <2> HIDE DEF n
  <2> QED BY <2>1, ConcatenationsExist
<1>3. FlattenSeq(s) = f[n + 1]
  BY <1>1, <1>2, FlattenIsLast
<1>4. f[1] = h
  BY <1>1, <1>2 DEF Concatenates
<1>5. CASE rest = <<>>
  <2>1. n = 0 BY <1>5, EmptySeq
  <2>2. FlattenSeq(rest) = <<>> BY <1>5, <2>1 DEF FlattenSeq
  <2>3. FlattenSeq(s) = h BY <1>3, <1>4, <2>1
  <2>4. h = h \o <<>> BY <1>1, ConcatEmptySeq
  <2> QED BY <2>2, <2>3, <2>4 DEF rest, h
<1>6. CASE rest # <<>>
  <2>1. n \in Nat \ {0} BY <1>1, <1>6, EmptySeq
  <2>2. PICK g \in [1 .. n -> Seq(S)] : Concatenates(g, n, rest)
    <3>1. n \in 0 .. Len(rest) BY <1>1
    <3> HIDE DEF n
    <3> QED BY <1>1, <3>1, ConcatenationsExist
  <2>3. FlattenSeq(rest) = g[n]
    BY <1>1, <1>6, <2>2, FlattenIsLast
  <2> DEFINE Bad == {i \in 1 .. n : f[i + 1] # h \o g[i]}
  <2>4. SUFFICES ASSUME Bad # {} PROVE FALSE
    <3>1. n \notin Bad => f[n + 1] = h \o g[n] BY <2>1
    <3> QED BY <1>3, <2>3, <3>1 DEF rest, h
  <2>5. PICK k : k \in Bad /\ \A i \in Bad : k <= i
    <3>1. Bad \subseteq Nat OBVIOUS
    <3> HIDE DEF Bad
    <3> QED BY <2>4, <3>1, LeastNatural
  <2> HIDE DEF n
  <2>6. k \in 1 .. n /\ f[k + 1] # h \o g[k]
    BY <2>5
  <2>7. f[k + 1] = f[k] \o rest[k]
    <3>1. k + 1 \in 1 .. n + 1 /\ k + 1 # 1 /\ (k + 1) - 1 = k
      BY <2>1, <2>6
    <3> QED BY <1>1, <1>2, <2>6, <3>1 DEF Concatenates
  <2>8. k # 1
    BY <1>4, <2>2, <2>6, <2>7 DEF Concatenates
  <2>9. k - 1 \in 1 .. n /\ ~ (k <= k - 1)
    BY <2>1, <2>6, <2>8
  <2>10. f[k] = h \o g[k - 1]
    <3>1. k - 1 \notin Bad
      <4> HIDE DEF Bad
      <4> QED BY <2>5, <2>9
    <3>2. (k - 1) + 1 = k BY <2>6
    <3> QED BY <2>9, <3>1, <3>2
  <2>11. g[k] = g[k - 1] \o rest[k]
    BY <2>2, <2>6, <2>8 DEF Concatenates
  <2>12. g[k - 1] \in Seq(S) /\ rest[k] \in Seq(S)
    BY <1>1, <2>2, <2>6, <2>9
  <2>13. (h \o g[k - 1]) \o rest[k] = h \o (g[k - 1] \o rest[k])
    BY <1>7, <2>12
  <2> QED BY <2>6, <2>7, <2>10, <2>11, <2>13
<1> QED BY <1>5, <1>6

LEMMA MoveFront ==
  ASSUME NEW S, NEW s \in Seq(S), NEW t \in Seq(S), t # <<>>
  PROVE  Append(s, Head(t)) \o Tail(t) = s \o t
<1>1. /\ Head(t) \in S /\ Tail(t) \in Seq(S) /\ Len(Tail(t)) = Len(t) - 1
      /\ \A i \in 1 .. Len(Tail(t)) : Tail(t)[i] = t[i + 1]
      /\ Len(t) \in Nat \ {0} /\ Len(s) \in Nat /\ Head(t) = t[1]
  BY HeadTailProperties, EmptySeq, LenProperties
<1> DEFINE a == Append(s, Head(t))
           b == Tail(t)
<1>2. /\ a \in Seq(S) /\ Len(a) = Len(s) + 1
      /\ \A i \in 1 .. Len(s) : a[i] = s[i]
      /\ a[Len(s) + 1] = t[1]
  BY <1>1, AppendProperties
<1>3. /\ b \in Seq(S) /\ Len(b) = Len(t) - 1
      /\ \A i \in 1 .. Len(b) : b[i] = t[i + 1]
  BY <1>1
<1> HIDE DEF a, b
<1> DEFINE u == a \o b
           v == s \o t
<1>4. /\ u \in Seq(S) /\ Len(u) = Len(a) + Len(b)
      /\ \A i \in 1 .. Len(a) + Len(b) :
           u[i] = IF i <= Len(a) THEN a[i] ELSE b[i - Len(a)]
  BY <1>2, <1>3, ConcatProperties
<1>5. /\ v \in Seq(S) /\ Len(v) = Len(s) + Len(t)
      /\ \A i \in 1 .. Len(s) + Len(t) :
           v[i] = IF i <= Len(s) THEN s[i] ELSE t[i - Len(s)]
  BY ConcatProperties
<1> HIDE DEF u, v
<1>6. Len(u) = Len(v)
  BY <1>1, <1>2, <1>3, <1>4, <1>5
<1>7. ASSUME NEW i \in 1 .. Len(u) PROVE u[i] = v[i]
  <2>1. i \in 1 .. Len(a) + Len(b) /\ i \in 1 .. Len(s) + Len(t)
    BY <1>4, <1>5, <1>6
  <2>2. CASE i <= Len(s)
    BY <1>1, <1>2, <1>4, <1>5, <2>1, <2>2
  <2>3. CASE i = Len(s) + 1
    BY <1>1, <1>2, <1>4, <1>5, <2>1, <2>3
  <2>4. CASE i > Len(s) + 1
    <3>1. u[i] = b[i - Len(a)] /\ v[i] = t[i - Len(s)]
      BY <1>1, <1>2, <1>4, <1>5, <2>1, <2>4
    <3>2. i - Len(a) \in 1 .. Len(b) /\ (i - Len(a)) + 1 = i - Len(s)
      BY <1>1, <1>2, <1>3, <2>1, <2>4
    <3> QED BY <1>3, <3>1, <3>2
  <2> QED BY <1>1, <2>1, <2>2, <2>3, <2>4
<1>8. u = v
  BY <1>4, <1>5, <1>6, <1>7, SeqEqual
<1> QED BY <1>8 DEF u, v, a, b

LEMMA CutJoins ==
  ASSUME NEW S, NEW s \in Seq(S), NEW k \in 1 .. Len(s)
  PROVE  SubSeq(s, 1, k) \o SubSeq(s, k + 1, Len(s)) = s
<1>1. Len(s) \in Nat /\ 1 \in 1 .. Len(s) + 1 /\ k \in 1 - 1 .. Len(s)
      /\ Len(s) \in k .. Len(s)
  BY LenProperties
<1> QED BY <1>1, ConcatAdjacentSubSeq, SubSeqFull

LEMMA ConcatParts ==
  ASSUME NEW S, NEW s \in Seq(S), NEW t \in Seq(S)
  PROVE  /\ SubSeq(s \o t, 1, Len(s)) = s
         /\ SubSeq(s \o t, Len(s) + 1, Len(s \o t)) = t
         /\ s \o t \in Seq(S) /\ Len(s \o t) = Len(s) + Len(t)
<1> DEFINE q == s \o t
           m == Len(s)
           n == Len(t)
<1>1. /\ q \in Seq(S) /\ Len(q) = m + n
      /\ \A i \in 1 .. m + n : q[i] = IF i <= m THEN s[i] ELSE t[i - m]
      /\ m \in Nat /\ n \in Nat
      /\ \A i \in 1 .. m : s[i] \in S
      /\ \A i \in 1 .. n : t[i] \in S
  BY ConcatProperties, LenProperties, ElementOfSeq
<1>2. m = Len(s) /\ n = Len(t) OBVIOUS
<1> HIDE DEF q, m, n
<1> DEFINE u == SubSeq(q, 1, m)
           v == SubSeq(q, m + 1, m + n)
<1>3. /\ u \in Seq(S) /\ Len(u) = m
      /\ \A i \in 1 .. m : u[i] = s[i]
  <2>1. \A i \in 1 .. m : q[i] \in S /\ q[i] = s[i]
    BY <1>1
  <2>2. /\ u \in Seq(S) /\ Len(u) = IF 1 <= m THEN m - 1 + 1 ELSE 0
        /\ \A i \in 1 .. m - 1 + 1 : u[i] = q[1 + i - 1]
    <3>1. 1 \in Int /\ m \in Int BY <1>1
    <3> QED BY <2>1, <3>1, SubSeqProperties
  <2> HIDE DEF u
  <2>3. Len(u) = m BY <1>1, <2>2
  <2>4. ASSUME NEW i \in 1 .. m PROVE u[i] = s[i]
    <3>1. i \in 1 .. m - 1 + 1 /\ 1 + i - 1 = i BY <1>1
    <3> QED BY <2>1, <2>2, <3>1
  <2> QED BY <2>2, <2>3, <2>4
<1>4. /\ v \in Seq(S) /\ Len(v) = n
      /\ \A i \in 1 .. n : v[i] = t[i]
  <2>1. \A i \in m + 1 .. m + n : q[i] \in S /\ q[i] = t[i - m]
    BY <1>1
  <2>2. /\ v \in Seq(S)
        /\ Len(v) = IF m + 1 <= m + n THEN (m + n) - (m + 1) + 1 ELSE 0
        /\ \A i \in 1 .. (m + n) - (m + 1) + 1 : v[i] = q[(m + 1) + i - 1]
    <3>1. m + 1 \in Int /\ m + n \in Int BY <1>1
    <3> QED BY <2>1, <3>1, SubSeqProperties
  <2> HIDE DEF v
  <2>3. Len(v) = n BY <1>1, <2>2
  <2>4. ASSUME NEW i \in 1 .. n PROVE v[i] = t[i]
    <3>0. m \in Int /\ n \in Int /\ i \in Int /\ 1 <= i /\ i <= n
      BY <1>1
    <3>1. i \in 1 .. (m + n) - (m + 1) + 1 /\ (m + 1) + i - 1 = m + i
          /\ m + i \in m + 1 .. m + n /\ (m + i) - m = i
      BY <3>0
    <3> QED BY <2>1, <2>2, <3>1
  <2> QED BY <2>2, <2>3, <2>4
<1> HIDE DEF u, v
<1>5. u = s
  BY <1>2, <1>3, SeqEqual
<1>6. v = t
  BY <1>2, <1>4, SeqEqual
<1>7. SubSeq(q, 1, m) = s /\ SubSeq(q, m + 1, Len(q)) = t
  BY <1>1, <1>5, <1>6 DEF u, v
<1> QED BY <1>1, <1>7 DEF q, m, n

\* q is what is left of p after some consecutive packets were dropped.
Drops(p, q) ==
  \E i \in 1 .. Len(p) : \E k \in i .. Len(p) :
    q = SubSeq(p, 1, i - 1) \o SubSeq(p, k + 1, Len(p))

\* Dropping the middle of a sequence.
LEMMA DropMiddle ==
  ASSUME NEW S, NEW s \in Seq(S), NEW m \in Seq(S), NEW t \in Seq(S),
         m # <<>>
  PROVE  Drops((s \o m) \o t, s \o t)
<1> DEFINE p == s \o m
           r == m \o t
           q == p \o t
<1>1. p \in Seq(S) /\ Len(p) = Len(s) + Len(m) /\ r \in Seq(S)
  BY ConcatParts
<1>2. q = s \o r
  BY ConcatAssociative
<1>3. SubSeq(q, 1, Len(s)) = s
  <2> HIDE DEF r, q
  <2> QED BY <1>1, <1>2, ConcatParts
<1>4. SubSeq(q, Len(p) + 1, Len(q)) = t /\ Len(q) = Len(p) + Len(t)
  <2>1. p \in Seq(S) BY <1>1
  <2>2. q = p \o t OBVIOUS
  <2> HIDE DEF p, q, r
  <2> QED BY <2>1, <2>2, ConcatParts
<1>5. Len(s) \in Nat /\ Len(m) \in Nat \ {0} /\ Len(t) \in Nat
  BY EmptySeq, LenProperties
<1> HIDE DEF p, r, q
<1> DEFINE i == Len(s) + 1
           k == Len(p)
<1>6. i \in 1 .. Len(q) /\ k \in i .. Len(q) /\ i - 1 = Len(s)
  BY <1>1, <1>4, <1>5
<1>7. s \o t = SubSeq(q, 1, i - 1) \o SubSeq(q, k + 1, Len(q))
  BY <1>3, <1>4, <1>6
<1> HIDE DEF i, k
<1>8. \E j \in 1 .. Len(q) : \E l \in j .. Len(q) :
        s \o t = SubSeq(q, 1, j - 1) \o SubSeq(q, l + 1, Len(q))
  BY <1>6, <1>7, Zenon
<1> QED BY <1>8 DEF Drops, q, p

-----------------------------------------------------------------------------
\* Concatenation by its laws alone: the prover need not look inside.
Cat(s, t) == s \o t

LEMMA CatLaws ==
  ASSUME NEW S, NEW s \in Seq(S), NEW t \in Seq(S)
  PROVE  /\ Cat(s, t) \in Seq(S)
         /\ Cat(s, <<>>) = s /\ Cat(<<>>, s) = s
BY ConcatProperties, ConcatEmptySeq DEF Cat

LEMMA CatAssociative ==
  ASSUME NEW S, NEW s \in Seq(S), NEW t \in Seq(S), NEW u \in Seq(S)
  PROVE  Cat(Cat(s, t), u) = Cat(s, Cat(t, u))
BY ConcatAssociative, SMTT(30) DEF Cat

LEMMA CatMoved ==
  ASSUME NEW S, NEW s \in Seq(S), NEW t \in Seq(S), t # <<>>
  PROVE  /\ Append(s, Head(t)) \in Seq(S) /\ Tail(t) \in Seq(S)
         /\ Cat(Append(s, Head(t)), Tail(t)) = Cat(s, t)
<1>1. Append(s, Head(t)) \in Seq(S) /\ Tail(t) \in Seq(S)
  BY HeadTailProperties, AppendProperties
<1>2. Append(s, Head(t)) \o Tail(t) = s \o t
  BY MoveFront
<1> QED BY <1>1, <1>2 DEF Cat

LEMMA CatCut ==
  ASSUME NEW S, NEW s \in Seq(S), NEW k \in 1 .. Len(s)
  PROVE  Cat(SubSeq(s, 1, k), SubSeq(s, k + 1, Len(s))) = s
BY CutJoins, Zenon DEF Cat

LEMMA CatFlatten ==
  ASSUME NEW S, NEW r \in Seq(Seq(S))
  PROVE  /\ FlattenSeq(r) \in Seq(S)
         /\ \A c \in Seq(S) : FlattenSeq(Append(r, c)) = Cat(FlattenSeq(r), c)
         /\ r # <<>> => FlattenSeq(r) = Cat(Head(r), FlattenSeq(Tail(r)))
<1>1. ASSUME NEW c \in Seq(S)
      PROVE  FlattenSeq(Append(r, c)) = Cat(FlattenSeq(r), c)
  BY FlattenAppend, Zenon DEF Cat
<1>2. ASSUME r # <<>>
      PROVE  FlattenSeq(r) = Cat(Head(r), FlattenSeq(Tail(r)))
  BY <1>2, FlattenHead, Zenon DEF Cat
<1> QED BY <1>1, <1>2, FlattenType

\* The stages of the pipeline in a row, the one nearest the mainloop first.
Line(r, c, a, p, b) == Cat(Cat(Cat(Cat(FlattenSeq(r), c), a), p), b)

LEMMA LineType ==
  ASSUME NEW S, NEW r \in Seq(Seq(S)), NEW c \in Seq(S), NEW a \in Seq(S),
         NEW p \in Seq(S), NEW b \in Seq(S)
  PROVE  Line(r, c, a, p, b) \in Seq(S)
BY CatFlatten, CatLaws DEF Line

LEMMA LineOfNothing == Line(<<>>, <<>>, <<>>, <<>>, <<>>) = <<>>
<1>1. FlattenSeq(<<>>) = <<>>
  BY EmptySeq DEF FlattenSeq
<1>2. Cat(<<>>, <<>>) = <<>>
  BY EmptySeq, CatLaws
<1> QED BY <1>1, <1>2, Zenon DEF Line

LEMMA LineReadBuffer ==
  ASSUME NEW S, NEW r \in Seq(Seq(S)), NEW c \in Seq(S), NEW a \in Seq(S),
         NEW p \in Seq(S), NEW b \in Seq(S)
  PROVE  Line(r, c, a, p, b) = Cat(Line(r, c, a, p, <<>>), b)
BY CatFlatten, CatLaws DEF Line

LEMMA LinePutPacket ==
  ASSUME NEW S, NEW r \in Seq(Seq(S)), NEW c \in Seq(S), NEW a \in Seq(S),
         NEW p \in Seq(S), NEW b \in Seq(S), b # <<>>
  PROVE  Line(r, c, a, Append(p, Head(b)), Tail(b)) = Line(r, c, a, p, b)
<1> DEFINE x == Cat(Cat(FlattenSeq(r), c), a)
           q == Append(p, Head(b))
           d == Tail(b)
<1>1. x \in Seq(S)
  BY CatFlatten, CatLaws
<1>2. q \in Seq(S) /\ d \in Seq(S) /\ Cat(q, d) = Cat(p, b)
  BY CatMoved
<1> HIDE DEF x, q, d
<1>3. Cat(Cat(x, q), d) = Cat(Cat(x, p), b)
  BY <1>1, <1>2, CatAssociative
<1> QED BY <1>3 DEF Line, x, q, d

LEMMA LineGetPacket ==
  ASSUME NEW S, NEW r \in Seq(Seq(S)), NEW c \in Seq(S), NEW a \in Seq(S),
         NEW p \in Seq(S), NEW b \in Seq(S), p # <<>>
  PROVE  Line(r, c, Append(a, Head(p)), Tail(p), b) = Line(r, c, a, p, b)
<1> DEFINE x == Cat(FlattenSeq(r), c)
           q == Append(a, Head(p))
           d == Tail(p)
<1>1. x \in Seq(S)
  BY CatFlatten, CatLaws
<1>2. q \in Seq(S) /\ d \in Seq(S) /\ Cat(q, d) = Cat(a, p)
  BY CatMoved
<1> HIDE DEF x, q, d
<1>3. Cat(Cat(x, q), d) = Cat(Cat(x, a), p)
  BY <1>1, <1>2, CatAssociative
<1> QED BY <1>3 DEF Line, x, q, d

LEMMA LineGenerateContainer ==
  ASSUME NEW S, NEW r \in Seq(Seq(S)), NEW a \in Seq(S),
         NEW p \in Seq(S), NEW b \in Seq(S), NEW k \in 1 .. Len(a)
  PROVE  Line(r, SubSeq(a, 1, k), SubSeq(a, k + 1, Len(a)), p, b)
           = Line(r, <<>>, a, p, b)
<1> DEFINE x == FlattenSeq(r)
           q == SubSeq(a, 1, k)
           d == SubSeq(a, k + 1, Len(a))
<1>1. x \in Seq(S)
  BY CatFlatten
<1>2. q \in Seq(S) /\ d \in Seq(S) /\ Cat(q, d) = a
  BY CutSeq, CatCut
<1> HIDE DEF x, q, d
<1>3. Cat(Cat(x, q), d) = Cat(Cat(x, <<>>), a)
  BY <1>1, <1>2, CatAssociative, CatLaws
<1> QED BY <1>3 DEF Line, x, q, d

LEMMA LinePutContainer ==
  ASSUME NEW S, NEW r \in Seq(Seq(S)), NEW c \in Seq(S), NEW a \in Seq(S),
         NEW p \in Seq(S), NEW b \in Seq(S)
  PROVE  Line(Append(r, c), <<>>, a, p, b) = Line(r, c, a, p, b)
<1>1. /\ FlattenSeq(Append(r, c)) = Cat(FlattenSeq(r), c)
      /\ Cat(FlattenSeq(r), c) \in Seq(S)
  BY CatFlatten, CatLaws
<1>2. Cat(Cat(FlattenSeq(r), c), <<>>) = Cat(FlattenSeq(r), c)
  BY <1>1, CatLaws
<1> QED BY <1>1, <1>2 DEF Line

LEMMA LineTakeContainer ==
  ASSUME NEW S, NEW r \in Seq(Seq(S)), NEW c \in Seq(S), NEW a \in Seq(S),
         NEW p \in Seq(S), NEW b \in Seq(S), r # <<>>
  PROVE  /\ Line(r, c, a, p, b) = Cat(Head(r), Line(Tail(r), c, a, p, b))
         /\ Head(r) \in Seq(S) /\ Line(Tail(r), c, a, p, b) \in Seq(S)
<1> DEFINE h == Head(r)
           d == Tail(r)
           w == FlattenSeq(d)
           x == Cat(w, c)
           y == Cat(x, a)
           z == Cat(y, p)
<1>1. h \in Seq(S) /\ d \in Seq(Seq(S))
  BY HeadTailProperties
<1>2. w \in Seq(S) /\ FlattenSeq(r) = Cat(h, w)
  BY <1>1, CatFlatten
<1> HIDE DEF h, d, w
<1>3. x \in Seq(S) BY <1>2, CatLaws
<1>4. y \in Seq(S) BY <1>3, CatLaws
<1>5. z \in Seq(S) BY <1>4, CatLaws
<1>6. /\ Cat(Cat(h, w), c) = Cat(h, x)
      /\ Cat(Cat(h, x), a) = Cat(h, y)
      /\ Cat(Cat(h, y), p) = Cat(h, z)
      /\ Cat(Cat(h, z), b) = Cat(h, Cat(z, b))
  BY <1>1, <1>2, <1>3, <1>4, <1>5, CatAssociative
<1>7. Cat(z, b) \in Seq(S) BY <1>5, CatLaws
<1> QED BY <1>1, <1>2, <1>6, <1>7 DEF Line, h, d, w

LEMMA InsideIsLine ==
  /\ Inside = Line(containerRing, container, accumulated, packetRing, buffered)
  /\ Inside' = Line(containerRing', container', accumulated', packetRing',
                    buffered')
BY Zenon DEF Inside, Line, Cat

-----------------------------------------------------------------------------
(* The refinement of PacketStream.                                         *)

\* Where packets can be, and when no stage may drop any.
StreamInv ==
  /\ readerPc # "put" => buffered = <<>>
  /\ assemblerPc # "put" => container = <<>>
  /\ Stopped
       => /\ parsed = 0
          /\ buffered = <<>> /\ accumulated = <<>> /\ packetRing = <<>>
          /\ container = <<>>
  /\ kept => keepPackets
  /\ assemblerPc = "put" /\ kept => force

LEMMA StreamInvInit == Init => StreamInv
BY DEF Init, StreamInv, Stopped

LEMMA StreamInvStep ==
  ASSUME TypeOK, LifeInv, StreamInv, [Next]_vars
  PROVE  StreamInv'
<1> USE DEF StreamInv, readerVars, assemblerVars, mainVars, clientVars, historyVars
<1>1. CASE Reader
  <2>1. /\ readerPc # "none"
        /\ UNCHANGED <<mainPc, status, container, assemblerPc, kept,
                       keepPackets, force>>
    BY <1>1, Zenon
       DEF Reader, ReadBuffer, ReadFails, ReaderStops, PutPacket,
           PutPacketGivesUp, EndBuffer
  <2>3. ~ Stopped'
    BY <2>1 DEF LifeInv, InitFails, Stopped
  <2>2. readerPc' # "put" => buffered' = <<>>
    BY <1>1, Zenon
       DEF Reader, ReadBuffer, ReadFails, ReaderStops, PutPacket,
           PutPacketGivesUp, EndBuffer
  <2> QED BY <2>1, <2>2, <2>3, Zenon
<1>2. CASE Assembler
  <2>1. UNCHANGED <<parsed, buffered, readerPc, status, kept, keepPackets>>
    BY <1>2, Zenon
       DEF Assembler, AssemblerStops, GetPacket, GetNothing, GetFromFreedRing,
           CheckReader, GenerateContainer, EndCommit, PutContainer,
           DropContainer, CountModule, NotifyMainloop, Consumed, StopParent
  <2>7. CASE Stopped'
    <3>1. Stopped
      <4>1. mainPc' = mainPc \/ mainPc \in {"ringsFreed", "joinAlone"}
        BY <1>2, Zenon
           DEF Assembler, AssemblerStops, GetPacket, GetNothing,
               GetFromFreedRing, CheckReader, GenerateContainer, EndCommit,
               PutContainer, DropContainer, CountModule, NotifyMainloop,
               Consumed, StopParent
      <4> QED BY <2>1, <2>7, <4>1 DEF Stopped, InitFails
    <3>2. assemblerPc \in {"get", "checkReader"}
      <4>1. assemblerPc \notin {"none", "exited", "undefined"}
        BY <1>2, Zenon
           DEF Assembler, AssemblerStops, GetPacket, GetNothing,
               GetFromFreedRing, CheckReader, GenerateContainer, EndCommit,
               PutContainer, DropContainer, CountModule, NotifyMainloop,
               Consumed, StopParent
      <4> QED BY <3>1, <4>1 DEF Stopped, InitFails, LifeInv
    <3>3. AssemblerStops \/ GetNothing \/ GetFromFreedRing \/ CheckReader
      BY <1>2, <3>1, <3>2
         DEF Assembler, GetPacket, GenerateContainer, EndCommit, PutContainer,
             DropContainer, CountModule, NotifyMainloop, Consumed, StopParent
    <3>4. /\ UNCHANGED <<accumulated, container, packetRing>>
          /\ assemblerPc' # "put"
      BY <3>3 DEF AssemblerStops, GetNothing, GetFromFreedRing, CheckReader
    <3> QED BY <2>1, <3>1, <3>4
  <2>2. /\ assemblerPc' # "put" => container' = <<>>
        /\ assemblerPc' = "put" /\ kept => force'
    BY <1>2, Zenon
       DEF Assembler, AssemblerStops, GetPacket, GetNothing, GetFromFreedRing, CheckReader,
           GenerateContainer, EndCommit, PutContainer, DropContainer,
           CountModule, NotifyMainloop, Consumed, StopParent
  <2>3. /\ buffered' = buffered /\ readerPc' = readerPc
        /\ kept' = kept /\ keepPackets' = keepPackets
    BY <2>1
  <2>4. readerPc' # "put" => buffered' = <<>>
    BY <2>3
  <2>5. kept' => keepPackets'
    BY <2>3, Zenon
  <2>6. assemblerPc' = "put" /\ kept' => force'
    BY <2>2, <2>3, Zenon
  <2> QED BY <2>1, <2>2, <2>4, <2>5, <2>6, <2>7, Zenon
<1>3. CASE MainThread
  <2>1. CASE ModuleInit
    BY <2>1, Zenon DEF ModuleInit, Stopped
  <2>2. CASE FreeState
    BY <2>2, Zenon DEF FreeState
  <2>3. CASE ModuleRun \/ RunNotifiesMainloop \/ RunCountsModule
             \/ ModuleExit \/ JoinReader \/ JoinAssembler \/ DrainContainer
    <3>1. UNCHANGED <<buffered, readerPc, container, assemblerPc, force,
                      kept, keepPackets>>
      BY <2>3, Zenon
         DEF ModuleRun, RunNotifiesMainloop, RunCountsModule, ModuleExit,
             JoinReader, JoinAssembler, DrainContainer
    <3>2. ~ Stopped'
      BY <2>3
         DEF ModuleRun, RunNotifiesMainloop, RunCountsModule, ModuleExit,
             JoinReader, JoinAssembler, DrainContainer, LifeInv, Stopped,
             InitFails
    <3> QED BY <3>1, <3>2, Zenon
  <2>4. CASE ReaderNotCreated \/ StopAssembler \/ JoinAssemblerAlone
    <3>1. /\ Stopped /\ assemblerPc # "put" /\ assemblerPc' # "put"
          /\ UNCHANGED <<parsed, buffered, accumulated, container, packetRing,
                         readerPc, keepPackets>>
          /\ kept' = kept \/ kept' = keepPackets
      BY <2>4 DEF ReaderNotCreated, StopAssembler, JoinAssemblerAlone, LifeInv,
                  Stopped, InitFails, historyVars
    <3> QED BY <3>1
  <2> QED BY <1>3, <2>1, <2>2, <2>3, <2>4 DEF MainThread
<1>4. CASE Clients
  <2>1. PICK b \in BOOLEAN : StopOrStart(b) \/ SetPause(b) \/ SetKeepPackets(b)
    BY <1>4 DEF Clients
  <2>2. CASE StopOrStart(b) BY <2>2, Zenon DEF StopOrStart, Stopped
  <2>3. CASE SetPause(b) BY <2>3, Zenon DEF SetPause, Stopped
  <2>4. CASE SetKeepPackets(b) BY <2>4, Zenon DEF SetKeepPackets, Stopped
  <2> QED BY <2>1, <2>2, <2>3, <2>4
<1>5. CASE UNCHANGED vars
  BY <1>5, Zenon DEF vars, Stopped
<1> QED BY <1>1, <1>2, <1>3, <1>4, <1>5 DEF Next

\* q is what is left of p after d was taken from its front.
Takes(p, d, q) ==
  \E k \in 1 .. Len(p) : d = SubSeq(p, 1, k) /\ q = SubSeq(p, k + 1, Len(p))

LEMMA CatDropped ==
  ASSUME NEW S, NEW s \in Seq(S), NEW m \in Seq(S), NEW t \in Seq(S),
         m # <<>>
  PROVE  Drops(Cat(Cat(s, m), t), Cat(s, t))
BY DropMiddle, Zenon DEF Cat

LEMMA CatTaken ==
  ASSUME NEW S, NEW s \in Seq(S), NEW t \in Seq(S), s # <<>>
  PROVE  Takes(Cat(s, t), s, t)
<1> DEFINE q == s \o t
<1>1. /\ SubSeq(q, 1, Len(s)) = s
      /\ SubSeq(q, Len(s) + 1, Len(q)) = t
      /\ Len(q) = Len(s) + Len(t)
  BY ConcatParts
<1>2. Len(s) \in Nat \ {0} /\ Len(t) \in Nat
  BY EmptySeq, LenProperties
<1> HIDE DEF q
<1>3. Len(s) \in 1 .. Len(q)
  BY <1>1, <1>2
<1>4. Takes(q, s, t)
  BY <1>1, <1>3, Zenon DEF Takes
<1> QED BY <1>4 DEF Cat, q

LEMMA LineDropBuffer ==
  ASSUME NEW S, NEW r \in Seq(Seq(S)), NEW c \in Seq(S), NEW a \in Seq(S),
         NEW p \in Seq(S), NEW b \in Seq(S), b # <<>>
  PROVE  Drops(Line(r, c, a, p, b), Line(r, c, a, p, <<>>))
<1> DEFINE x == Cat(Cat(Cat(FlattenSeq(r), c), a), p)
<1>1. x \in Seq(S) /\ Cat(x, b) \in Seq(S) /\ <<>> \in Seq(S)
  BY CatFlatten, CatLaws, EmptySeq
<1> HIDE DEF x
<1>2. Drops(Cat(Cat(x, b), <<>>), Cat(x, <<>>))
  BY <1>1, CatDropped
<1>3. Cat(Cat(x, b), <<>>) = Cat(x, b)
  BY <1>1, CatLaws
<1> QED BY <1>2, <1>3 DEF Line, x

LEMMA LineDropContainer ==
  ASSUME NEW S, NEW r \in Seq(Seq(S)), NEW c \in Seq(S), NEW a \in Seq(S),
         NEW p \in Seq(S), NEW b \in Seq(S), c # <<>>
  PROVE  Drops(Line(r, c, a, p, b), Line(r, <<>>, a, p, b))
<1> DEFINE w == FlattenSeq(r)
           y == Cat(a, p)
           z == Cat(y, b)
<1>1. w \in Seq(S) /\ y \in Seq(S)
  BY CatFlatten, CatLaws
<1> HIDE DEF w, y
<1>2. z \in Seq(S)
  BY <1>1, CatLaws
<1> HIDE DEF z
<1>3. ASSUME NEW x \in Seq(S)
      PROVE  Cat(Cat(Cat(x, a), p), b) = Cat(x, z)
  <2>1. Cat(Cat(x, a), p) = Cat(x, y)
    BY CatAssociative DEF y
  <2>2. Cat(Cat(x, y), b) = Cat(x, z)
    BY <1>1, CatAssociative DEF z
  <2> QED BY <2>1, <2>2
<1>4. Cat(w, c) \in Seq(S) /\ Cat(w, <<>>) = w
  BY <1>1, CatLaws
<1>5. Drops(Cat(Cat(w, c), z), Cat(w, z))
  BY <1>1, <1>2, CatDropped
<1>6. Line(r, c, a, p, b) = Cat(Cat(w, c), z)
  BY <1>3, <1>4 DEF Line, w
<1>7. Line(r, <<>>, a, p, b) = Cat(w, z)
  BY <1>1, <1>3, <1>4 DEF Line, w
<1> QED BY <1>5, <1>6, <1>7

\* A container leaves the ring-buffer: for the mainloop, or dropped.
LEMMA LineWithoutHead ==
  ASSUME NEW S, NEW r \in Seq(Seq(S)), NEW c \in Seq(S), NEW a \in Seq(S),
         NEW p \in Seq(S), NEW b \in Seq(S), r # <<>>
  PROVE  IF Head(r) = <<>>
         THEN Line(Tail(r), c, a, p, b) = Line(r, c, a, p, b)
         ELSE /\ Takes(Line(r, c, a, p, b), Head(r), Line(Tail(r), c, a, p, b))
              /\ Drops(Line(r, c, a, p, b), Line(Tail(r), c, a, p, b))
<1> DEFINE h == Head(r)
           l == Line(Tail(r), c, a, p, b)
<1>1. Line(r, c, a, p, b) = Cat(h, l) /\ h \in Seq(S) /\ l \in Seq(S)
  BY LineTakeContainer, SMTT(30)
<1> HIDE DEF h, l
<1>2. Cat(<<>>, h) = h /\ Cat(<<>>, l) = l /\ <<>> \in Seq(S)
  BY <1>1, CatLaws, EmptySeq
<1>3. h = <<>> => l = Line(r, c, a, p, b)
  BY <1>1, <1>2
<1>4. ASSUME h # <<>>
      PROVE  Takes(Cat(h, l), h, l) /\ Drops(Cat(h, l), l)
  <2>1. Takes(Cat(h, l), h, l)
    BY <1>1, <1>4, CatTaken
  <2>2. Drops(Cat(Cat(<<>>, h), l), Cat(<<>>, l))
    BY <1>1, <1>2, <1>4, CatDropped
  <2> QED BY <1>2, <2>1, <2>2
<1> QED BY <1>1, <1>3, <1>4 DEF h, l

\* A step that moves no packet between stages, and does not change which
\* packets may be dropped.
StreamVars ==
  <<parsed, containerRing, container, accumulated, packetRing, buffered,
    delivered, kept, running>>

LEMMA QuietStep ==
  ASSUME UNCHANGED StreamVars
  PROVE  UNCHANGED Stream!streamVars
<1>1. Inside' = Inside
  BY InsideIsLine DEF StreamVars
<1>2. (kept /\ running)' = (kept /\ running)
  BY DEF StreamVars
<1>3. parsed' = parsed /\ delivered' = delivered
  BY DEF StreamVars
<1> QED BY <1>1, <1>2, <1>3, Zenon DEF Stream!streamVars

\* Packets move from one stage to the next: nothing changes outside.
LEMMA InnerStep ==
  ASSUME Inside' = Inside, UNCHANGED <<parsed, delivered, kept, running>>
  PROVE  UNCHANGED Stream!streamVars
<1>1. /\ parsed' = parsed /\ delivered' = delivered
      /\ kept' = kept /\ running' = running
  OBVIOUS
<1>2. (kept /\ running)' = (kept /\ running)
  BY <1>1
<1> QED BY <1>1, <1>2, Zenon DEF Stream!streamVars

LEMMA DropStep ==
  ASSUME ~ (kept /\ running), Drops(Inside, Inside'),
         UNCHANGED <<parsed, delivered, kept, running>>
  PROVE  Stream!Drop
<1>1. /\ parsed' = parsed /\ delivered' = delivered
      /\ kept' = kept /\ running' = running
  OBVIOUS
<1>2. (kept /\ running)' = (kept /\ running)
  BY <1>1
<1>3. \E i \in 1 .. Len(Inside) : \E k \in i .. Len(Inside) :
        Inside' = SubSeq(Inside, 1, i - 1)
                    \o SubSeq(Inside, k + 1, Len(Inside))
  BY Zenon DEF Drops
<1> QED BY <1>1, <1>2, <1>3, Zenon DEF Stream!Drop

\* The Reader reads, and may drop what it has not put.
LEMMA ReaderRefines ==
  ASSUME TypeOK, StreamInv, Reader
  PROVE  Stream!StreamNext \/ UNCHANGED Stream!streamVars
<1> USE DEF TypeOK, SequencesOK, assemblerVars, historyVars
<1>1. CASE ReadBuffer
  <2>1. PICK n \in 1 .. NumPackets - parsed :
          /\ buffered' = [i \in 1 .. n |-> parsed + i]
          /\ parsed' = parsed + n
    BY <1>1 DEF ReadBuffer
  <2>2. /\ buffered = <<>> /\ delivered' = delivered
        /\ kept' = kept /\ running' = running
        /\ containerRing' = containerRing /\ container' = container
        /\ accumulated' = accumulated /\ packetRing' = packetRing
    BY <1>1 DEF ReadBuffer, StreamInv
  <2>3. buffered' \in Seq(1 .. NumPackets)
    BY <2>1, FreshPackets, InputPipelineAssumption DEF NumbersOK, Packet
  <2>4. Inside' = Cat(Inside, buffered')
    BY <2>2, <2>3, InsideIsLine, LineReadBuffer
  <2>5. Inside' = Inside \o [i \in 1 .. n |-> parsed + i]
    BY <2>1, <2>4, Zenon DEF Cat
  <2>6. (kept /\ running)' = (kept /\ running)
    BY <2>2
  <2>7. Stream!Read
    BY <2>1, <2>2, <2>5, <2>6, Zenon DEF Stream!Read
  <2> QED BY <2>7 DEF Stream!StreamNext
<1>2. CASE PutPacket
  <2>1. /\ buffered # <<>>
        /\ packetRing' = Append(packetRing, Head(buffered))
        /\ buffered' = Tail(buffered)
        /\ containerRing' = containerRing /\ container' = container
        /\ accumulated' = accumulated
        /\ UNCHANGED <<parsed, delivered, kept, running>>
    BY <1>2 DEF PutPacket
  <2>2. Inside' = Inside
    BY <2>1, InsideIsLine, LinePutPacket
  <2> QED BY <2>1, <2>2, InnerStep
<1>3. CASE PutPacketGivesUp
  <2>1. /\ buffered # <<>> /\ ~running
        /\ buffered' = <<>>
        /\ packetRing' = packetRing
        /\ containerRing' = containerRing /\ container' = container
        /\ accumulated' = accumulated
        /\ UNCHANGED <<parsed, delivered, kept, running>>
    BY <1>3 DEF PutPacketGivesUp
  <2>2. Drops(Inside, Inside')
    BY <2>1, InsideIsLine, LineDropBuffer
  <2>3. Stream!Drop
    BY <2>1, <2>2, DropStep
  <2> QED BY <2>3 DEF Stream!StreamNext
<1>4. CASE ReadFails \/ ReaderStops \/ EndBuffer
  <2>1. UNCHANGED StreamVars
    BY <1>4 DEF ReadFails, ReaderStops, EndBuffer, StreamVars
  <2> QED BY <2>1, QuietStep
<1> QED BY <1>1, <1>2, <1>3, <1>4 DEF Reader

\* The Assembler moves packets, and may drop a container.
LEMMA AssemblerRefines ==
  ASSUME TypeOK, StreamInv, Assembler
  PROVE  Stream!StreamNext \/ UNCHANGED Stream!streamVars
<1> USE DEF TypeOK, SequencesOK, readerVars, historyVars
<1>1. CASE GetPacket
  <2>1. /\ packetRing # <<>>
        /\ accumulated' = Append(accumulated, Head(packetRing))
        /\ packetRing' = Tail(packetRing)
        /\ containerRing' = containerRing /\ container' = container
        /\ buffered' = buffered
        /\ UNCHANGED <<parsed, delivered, kept, running>>
    BY <1>1 DEF GetPacket
  <2>2. Inside' = Inside
    BY <2>1, InsideIsLine, LineGetPacket
  <2> QED BY <2>1, <2>2, InnerStep
<1>2. CASE GenerateContainer
  <2>1. PICK k \in 1 .. Len(accumulated) :
          /\ container' = SubSeq(accumulated, 1, k)
          /\ accumulated' = SubSeq(accumulated, k + 1, Len(accumulated))
    BY <1>2 DEF GenerateContainer
  <2>2. /\ container = <<>>
        /\ packetRing' = packetRing /\ containerRing' = containerRing
        /\ buffered' = buffered
        /\ UNCHANGED <<parsed, delivered, kept, running>>
    BY <1>2 DEF GenerateContainer, StreamInv
  <2>3. Inside' = Inside
    BY <2>1, <2>2, InsideIsLine, LineGenerateContainer
  <2> QED BY <2>2, <2>3, InnerStep
<1>3. CASE PutContainer
  <2>1. /\ containerRing' = Append(containerRing, container)
        /\ container' = <<>>
        /\ accumulated' = accumulated
        /\ packetRing' = packetRing /\ buffered' = buffered
        /\ UNCHANGED <<parsed, delivered, kept, running>>
    BY <1>3 DEF PutContainer
  <2>2. Inside' = Inside
    BY <2>1, InsideIsLine, LinePutContainer
  <2> QED BY <2>1, <2>2, InnerStep
<1>4. CASE DropContainer
  <2>1. /\ container' = <<>>
        /\ containerRing' = containerRing /\ accumulated' = accumulated
        /\ packetRing' = packetRing /\ buffered' = buffered
        /\ UNCHANGED <<parsed, delivered, kept, running>>
    BY <1>4 DEF DropContainer
  <2>2. ~ (kept /\ running)
    BY <1>4, Zenon DEF DropContainer, StreamInv
  <2>3. CASE container = <<>>
    BY <2>1, <2>3, InsideIsLine, InnerStep
  <2>4. CASE container # <<>>
    <3>1. Drops(Inside, Inside')
      BY <2>1, <2>4, InsideIsLine, LineDropContainer
    <3>2. Stream!Drop
      BY <2>1, <2>2, <3>1, DropStep
    <3> QED BY <3>2 DEF Stream!StreamNext
  <2> QED BY <2>3, <2>4
<1>5. CASE AssemblerStops \/ GetNothing \/ GetFromFreedRing \/ CheckReader
           \/ EndCommit
           \/ CountModule \/ NotifyMainloop \/ Consumed \/ StopParent
  <2>1. UNCHANGED StreamVars
    BY <1>5 DEF AssemblerStops, GetNothing, GetFromFreedRing, CheckReader,
                EndCommit, CountModule, NotifyMainloop, Consumed, StopParent,
                StreamVars, historyVars
  <2> QED BY <2>1, QuietStep
<1> QED BY <1>1, <1>2, <1>3, <1>4, <1>5 DEF Assembler

LEMMA RestartStep ==
  ASSUME parsed' = 0, Inside' = <<>>, delivered' = <<>>
  PROVE  Stream!Restart
<1>1. (kept /\ running)' \in BOOLEAN
  OBVIOUS
<1> QED BY <1>1, Zenon DEF Stream!Restart

\* Dropping is allowed from now on, or as much as it was.
LEMMA AllowStep ==
  ASSUME (kept /\ running)' = FALSE \/ (kept /\ running)' = (kept /\ running),
         Inside' = Inside, parsed' = parsed, delivered' = delivered
  PROVE  Stream!AllowDrops \/ UNCHANGED Stream!streamVars
BY Zenon DEF Stream!AllowDrops, Stream!streamVars

\* The mainloop starts and ends a run, and takes the oldest packets.
LEMMA MainThreadRefines ==
  ASSUME TypeOK, LifeInv, EmptyInv, StreamInv, MainThread
  PROVE  Stream!StreamNext \/ UNCHANGED Stream!streamVars
<1> USE DEF TypeOK, SequencesOK, readerVars, assemblerVars, historyVars,
            Stopped, InitFails
<1>1. CASE ModuleInit
  <2>1. /\ parsed' = 0 /\ delivered' = <<>>
        /\ buffered' = <<>> /\ accumulated' = <<>> /\ container' = <<>>
        /\ packetRing' = <<>> /\ containerRing' = <<>>
    BY <1>1 DEF ModuleInit, StreamInv, EmptyInv
  <2>2. Inside' = <<>>
    BY <2>1, InsideIsLine, LineOfNothing
  <2>3. Stream!Restart
    BY <2>1, <2>2, RestartStep
  <2> QED BY <2>3 DEF Stream!StreamNext
<1>2. CASE FreeState
  <2>1. /\ parsed' = 0 /\ delivered' = <<>>
        /\ buffered' = <<>> /\ accumulated' = <<>> /\ container' = <<>>
        /\ packetRing' = <<>> /\ containerRing' = <<>>
    BY <1>2 DEF FreeState
  <2>2. Inside' = <<>>
    BY <2>1, InsideIsLine, LineOfNothing
  <2>3. Stream!Restart
    BY <2>1, <2>2, RestartStep
  <2> QED BY <2>3 DEF Stream!StreamNext
<1>3. CASE ModuleRun
  <2>1. /\ containerRing # <<>>
        /\ delivered' = delivered \o Head(containerRing)
        /\ containerRing' = Tail(containerRing)
        /\ buffered' = buffered /\ accumulated' = accumulated
        /\ container' = container /\ packetRing' = packetRing
        /\ parsed' = parsed /\ kept' = kept /\ running' = running
    BY <1>3 DEF ModuleRun
  <2>2. IF Head(containerRing) = <<>>
        THEN Inside' = Inside
        ELSE Takes(Inside, Head(containerRing), Inside')
    BY <2>1, InsideIsLine, LineWithoutHead
  <2>3. CASE Head(containerRing) = <<>>
    <3>1. delivered' = delivered
      BY <2>1, <2>3, ConcatEmptySeq
    <3> QED BY <2>1, <2>2, <2>3, <3>1, InnerStep
  <2>4. CASE Head(containerRing) # <<>>
    <3>1. PICK k \in 1 .. Len(Inside) :
            /\ Head(containerRing) = SubSeq(Inside, 1, k)
            /\ Inside' = SubSeq(Inside, k + 1, Len(Inside))
      BY <2>2, <2>4, Zenon DEF Takes
    <3>2. delivered' = delivered \o SubSeq(Inside, 1, k)
      BY <2>1, <3>1, Zenon
    <3>3. (kept /\ running)' = (kept /\ running)
      BY <2>1
    <3>4. Stream!Deliver
      BY <2>1, <3>1, <3>2, <3>3, Zenon DEF Stream!Deliver
    <3> QED BY <3>4 DEF Stream!StreamNext
  <2> QED BY <2>3, <2>4
<1>4. CASE DrainContainer
  <2>1. /\ containerRing # <<>> /\ ~running
        /\ containerRing' = Tail(containerRing)
        /\ buffered' = buffered /\ accumulated' = accumulated
        /\ container' = container /\ packetRing' = packetRing
        /\ UNCHANGED <<parsed, delivered, kept, running>>
    BY <1>4 DEF DrainContainer, LifeInv
  <2>2. Inside' = Inside \/ Drops(Inside, Inside')
    BY <2>1, InsideIsLine, LineWithoutHead
  <2>3. CASE Inside' = Inside
    BY <2>1, <2>3, InnerStep
  <2>4. CASE Drops(Inside, Inside')
    <3>1. Stream!Drop
      BY <2>1, <2>4, DropStep
    <3> QED BY <3>1 DEF Stream!StreamNext
  <2> QED BY <2>2, <2>3, <2>4
<1>5. CASE ModuleExit
  <2>1. /\ running' = FALSE
        /\ containerRing' = containerRing /\ container' = container
        /\ accumulated' = accumulated /\ packetRing' = packetRing
        /\ buffered' = buffered
        /\ parsed' = parsed /\ delivered' = delivered
    BY <1>5 DEF ModuleExit
  <2>2. (kept /\ running)' = FALSE
    BY <2>1
  <2>3. Inside' = Inside
    BY <2>1, InsideIsLine
  <2>4. Stream!AllowDrops \/ UNCHANGED Stream!streamVars
    BY <2>1, <2>2, <2>3, AllowStep
  <2> QED BY <2>4 DEF Stream!StreamNext
<1>6. CASE RunNotifiesMainloop \/ RunCountsModule \/ JoinReader
           \/ JoinAssembler
  <2>1. UNCHANGED StreamVars
    BY <1>6 DEF RunNotifiesMainloop, RunCountsModule, JoinReader,
                JoinAssembler, StreamVars
  <2> QED BY <2>1, QuietStep
<1>7. CASE ReaderNotCreated
  <2>1. /\ parsed' = 0 /\ delivered' = <<>>
        /\ buffered' = <<>> /\ accumulated' = <<>> /\ container' = <<>>
        /\ packetRing' = <<>> /\ containerRing' = <<>>
    BY <1>7 DEF ReaderNotCreated, StreamInv, EmptyInv
  <2>2. Inside' = <<>>
    BY <2>1, InsideIsLine, LineOfNothing
  <2>3. Stream!Restart
    BY <2>1, <2>2, RestartStep
  <2> QED BY <2>3 DEF Stream!StreamNext
<1>8. CASE StopAssembler
  <2>1. /\ running' = FALSE
        /\ containerRing' = containerRing /\ container' = container
        /\ accumulated' = accumulated /\ packetRing' = packetRing
        /\ buffered' = buffered
        /\ parsed' = parsed /\ delivered' = delivered
    BY <1>8 DEF StopAssembler
  <2>2. (kept /\ running)' = FALSE
    BY <2>1
  <2>3. Inside' = Inside
    BY <2>1, InsideIsLine
  <2>4. Stream!AllowDrops \/ UNCHANGED Stream!streamVars
    BY <2>1, <2>2, <2>3, AllowStep
  <2> QED BY <2>4 DEF Stream!StreamNext
<1>9. CASE JoinAssemblerAlone
  <2>1. UNCHANGED StreamVars
    BY <1>9 DEF JoinAssemblerAlone, StreamVars
  <2> QED BY <2>1, QuietStep
<1> QED BY <1>1, <1>2, <1>3, <1>4, <1>5, <1>6, <1>7, <1>8, <1>9 DEF MainThread

LEMMA ClientsRefine ==
  ASSUME TypeOK, Clients
  PROVE  Stream!StreamNext \/ UNCHANGED Stream!streamVars
<1>1. PICK b \in BOOLEAN : StopOrStart(b) \/ SetPause(b) \/ SetKeepPackets(b)
  BY DEF Clients
<1> USE DEF readerVars, assemblerVars, historyVars
<1>2. CASE StopOrStart(b) \/ SetPause(b)
  <2>1. UNCHANGED StreamVars
    BY <1>2 DEF StopOrStart, SetPause, StreamVars
  <2> QED BY <2>1, QuietStep
<1>3. CASE SetKeepPackets(b)
  <2>1. /\ kept' = (kept /\ b) /\ running' = running
        /\ containerRing' = containerRing /\ container' = container
        /\ accumulated' = accumulated /\ packetRing' = packetRing
        /\ buffered' = buffered
        /\ parsed' = parsed /\ delivered' = delivered
    BY <1>3 DEF SetKeepPackets
  <2>2. (kept /\ running)' = FALSE \/ (kept /\ running)' = (kept /\ running)
    BY <2>1 DEF TypeOK, FlagsOK
  <2>3. Inside' = Inside
    BY <2>1, InsideIsLine
  <2>4. Stream!AllowDrops \/ UNCHANGED Stream!streamVars
    BY <2>1, <2>2, <2>3, AllowStep
  <2> QED BY <2>4 DEF Stream!StreamNext
<1> QED BY <1>1, <1>2, <1>3

LEMMA StepRefines ==
  IInv /\ StreamInv /\ [Next]_vars => [Stream!StreamNext]_Stream!streamVars
<1> SUFFICES ASSUME IInv, StreamInv, [Next]_vars
             PROVE  Stream!StreamNext \/ UNCHANGED Stream!streamVars
  OBVIOUS
<1>1. TypeOK /\ LifeInv /\ EmptyInv
  BY DEF IInv
<1>2. CASE UNCHANGED vars
  <2>1. UNCHANGED StreamVars
    BY <1>2 DEF vars, readerVars, assemblerVars, historyVars, StreamVars
  <2> QED BY <2>1, QuietStep
<1> QED BY <1>1, <1>2, ReaderRefines, AssemblerRefines, MainThreadRefines,
           ClientsRefine
        DEF Next

THEOREM StreamInvariance == Spec => []StreamInv
<1>1. IInv /\ StreamInv /\ [Next]_vars => StreamInv'
  BY StreamInvStep DEF IInv
<1> QED BY <1>1, StreamInvInit, Invariance, PTL DEF Spec

\* What the mainloop receives is a stream of packets: in the order they were
\* read, each at most once, and without a gap while "keepPackets" is set and
\* the module runs, whatever the three threads and the clients do.
THEOREM ImplementsStream == Spec => ImplementsPacketStream
<1>1. Init => Stream!StreamInit
  <2> SUFFICES ASSUME Init PROVE Stream!StreamInit
    OBVIOUS
  <2>1. Inside = <<>>
    BY InsideIsLine, LineOfNothing DEF Init
  <2> QED BY <2>1 DEF Init, Stream!StreamInit
<1> QED
  BY <1>1, StepRefines, StreamInvariance, Invariance, PTL
     DEF Spec, ImplementsPacketStream, Stream!StreamSpec

-----------------------------------------------------------------------------
(* The end of the input.                                                   *)

Numbers(n) == [packet \in 1 .. n |-> packet]

\* While nothing may be dropped, all that was read is delivered or on its
\* way: this is a matter of the stream, whatever implements it.
NoGapInv == kept /\ running => delivered \o Inside = Numbers(parsed)

\* What the Reader still holds are the last packets it read; what it has put
\* since the Assembler's last look comes after that look.
LookInv ==
  /\ \A i \in 1 .. Len(buffered) : buffered[i] = parsed - Len(buffered) + i
  /\ assemblerPc \in {"checkReader", "waitConsumed", "stopParent"}
       => /\ lastPut <= parsed - Len(buffered)
          /\ \A i \in 1 .. Len(packetRing) : packetRing[i] > lastPut

LEMMA NumbersGrow ==
  ASSUME NEW p \in Nat, NEW n \in Nat
  PROVE  Numbers(p) \o [i \in 1 .. n |-> p + i] = Numbers(p + n)
<1> DEFINE f == [i \in 1 .. n |-> p + i]
<1>1. Numbers(p) \in Seq(Nat) /\ Len(Numbers(p)) = p
  BY DEF Numbers
<1>2. f \in Seq(Nat) /\ Len(f) = n /\ \A i \in 1 .. n : f[i] = p + i
  OBVIOUS
<1> HIDE DEF f
<1>3. Numbers(p + n) \in Seq(Nat) /\ Len(Numbers(p + n)) = p + n
  BY DEF Numbers
<1>4. /\ Numbers(p) \o f \in Seq(Nat) /\ Len(Numbers(p) \o f) = p + n
      /\ \A i \in 1 .. p + n :
           (Numbers(p) \o f)[i] = IF i <= p THEN Numbers(p)[i] ELSE f[i - p]
  <2>1. /\ Numbers(p) \o f \in Seq(Nat)
        /\ Len(Numbers(p) \o f) = Len(Numbers(p)) + Len(f)
        /\ \A i \in 1 .. Len(Numbers(p)) + Len(f) :
             (Numbers(p) \o f)[i] = IF i <= Len(Numbers(p)) THEN Numbers(p)[i]
                                   ELSE f[i - Len(Numbers(p))]
    BY <1>1, <1>2, ConcatProperties, Zenon
  <2> QED BY <1>1, <1>2, <2>1, Zenon
<1>5. \A i \in 1 .. p + n : (Numbers(p) \o f)[i] = Numbers(p + n)[i]
  <2> SUFFICES ASSUME NEW i \in 1 .. p + n
               PROVE  (Numbers(p) \o f)[i] = Numbers(p + n)[i]
    OBVIOUS
  <2>1. Numbers(p + n)[i] = i
    BY DEF Numbers
  <2>2. CASE i <= p
    <3>1. Numbers(p)[i] = i BY <2>2 DEF Numbers
    <3> QED BY <1>4, <2>1, <2>2, <3>1
  <2>3. CASE ~ (i <= p)
    <3>1. i - p \in 1 .. n BY <2>3
    <3>2. f[i - p] = i BY <1>2, <3>1
    <3> QED BY <1>4, <2>1, <2>3, <3>2
  <2> QED BY <2>2, <2>3
<1>6. Numbers(p) \o f = Numbers(p + n)
  BY <1>3, <1>4, <1>5, SeqEqual
<1> QED BY <1>6 DEF f

LEMMA InsideType ==
  ASSUME TypeOK
  PROVE  /\ Inside \in Seq(1 .. NumPackets) /\ delivered \in Seq(1 .. NumPackets)
         /\ parsed \in Nat
BY InsideIsLine, LineType, InputPipelineAssumption DEF TypeOK, SequencesOK, NumbersOK

LEMMA NoGapStep ==
  ASSUME TypeOK, NoGapInv, [Stream!StreamNext]_Stream!streamVars
  PROVE  NoGapInv'
<1>0. /\ Inside \in Seq(1 .. NumPackets) /\ delivered \in Seq(1 .. NumPackets)
      /\ parsed \in Nat
  BY InsideType
<1>1. CASE Stream!Read
  <2>1. PICK n \in 1 .. NumPackets - parsed :
          /\ parsed' = parsed + n
          /\ Inside' = Inside \o [i \in 1 .. n |-> parsed + i]
          /\ delivered' = delivered
          /\ (kept /\ running)' = (kept /\ running)
    BY <1>1 DEF Stream!Read
  <2> DEFINE fresh == [i \in 1 .. n |-> parsed + i]
  <2>2. parsed \in 0 .. NumPackets /\ NumPackets \in Nat
    BY InputPipelineAssumption DEF TypeOK, NumbersOK
  <2>3. fresh \in Seq(1 .. NumPackets)
    BY <2>2, FreshPackets DEF Packet
  <2>4. delivered \o (Inside \o fresh) = (delivered \o Inside) \o fresh
    <3> HIDE DEF fresh
    <3> QED BY <1>0, <2>3, ConcatAssociative
  <2>5. n \in Nat BY <2>2
  <2>6. Numbers(parsed) \o fresh = Numbers(parsed + n)
    BY <1>0, <2>5, NumbersGrow
  <2> HIDE DEF fresh
  <2>7. Inside' = Inside \o fresh
    BY <2>1 DEF fresh
  <2>8. kept' /\ running' => kept /\ running
    BY <2>1
  <2>9. kept' /\ running' => delivered' \o Inside' = Numbers(parsed')
    BY <2>1, <2>4, <2>6, <2>7, <2>8, Zenon DEF NoGapInv
  <2> QED BY <2>9 DEF NoGapInv
<1>2. CASE Stream!Deliver
  <2>1. PICK k \in 1 .. Len(Inside) :
          /\ delivered' = delivered \o SubSeq(Inside, 1, k)
          /\ Inside' = SubSeq(Inside, k + 1, Len(Inside))
          /\ parsed' = parsed
          /\ (kept /\ running)' = (kept /\ running)
    BY <1>2 DEF Stream!Deliver
  <2>2. SubSeq(Inside, 1, k) \o SubSeq(Inside, k + 1, Len(Inside)) = Inside
    BY <1>0, CutJoins
  <2>3. /\ SubSeq(Inside, 1, k) \in Seq(1 .. NumPackets)
        /\ SubSeq(Inside, k + 1, Len(Inside)) \in Seq(1 .. NumPackets)
    BY <1>0, CutSeq
  <2>4. delivered' \o Inside' = delivered \o Inside
    <3> DEFINE s == SubSeq(Inside, 1, k)
               t == SubSeq(Inside, k + 1, Len(Inside))
    <3>1. (delivered \o s) \o t = delivered \o (s \o t)
      <4> HIDE DEF s, t
      <4>1. s \in Seq(1 .. NumPackets) /\ t \in Seq(1 .. NumPackets)
        BY <2>3 DEF s, t
      <4> QED BY <1>0, <4>1, ConcatAssociative
    <3>2. delivered' = delivered \o s /\ Inside' = t /\ s \o t = Inside
      BY <2>1, <2>2
    <3> HIDE DEF s, t
    <3> QED BY <3>1, <3>2, Zenon
  <2> QED BY <2>1, <2>4 DEF NoGapInv
<1>3. CASE Stream!Drop
  <2>1. ~ (kept' /\ running') BY <1>3 DEF Stream!Drop
  <2> QED BY <2>1 DEF NoGapInv
<1>4. CASE Stream!AllowDrops
  <2>1. ~ (kept' /\ running') BY <1>4 DEF Stream!AllowDrops
  <2> QED BY <2>1 DEF NoGapInv
<1>5. CASE Stream!Restart
  <2>1. parsed' = 0 /\ Inside' = <<>> /\ delivered' = <<>>
    BY <1>5 DEF Stream!Restart
  <2>2. <<>> \o <<>> = <<>> BY EmptySeq, ConcatEmptySeq
  <2>3. Numbers(0) = <<>> BY DEF Numbers
  <2> QED BY <2>1, <2>2, <2>3, Zenon DEF NoGapInv
<1>6. CASE UNCHANGED Stream!streamVars
  <2>1. /\ parsed' = parsed /\ Inside' = Inside /\ delivered' = delivered
        /\ (kept /\ running)' = (kept /\ running)
    BY <1>6 DEF Stream!streamVars
  <2> QED BY <2>1 DEF NoGapInv
<1> QED BY <1>1, <1>2, <1>3, <1>4, <1>5, <1>6 DEF Stream!StreamNext

LEMMA LookStep ==
  ASSUME TypeOK, LifeInv, StreamInv, LookInv, [Next]_vars
  PROVE  LookInv'
<1>0. /\ Len(buffered) \in Nat /\ Len(packetRing) \in Nat
      /\ parsed \in Int /\ lastPut \in Int
      /\ \A i \in 1 .. Len(buffered) : buffered[i] \in Int
      /\ \A i \in 1 .. Len(packetRing) : packetRing[i] \in Int
  BY LenZero, InputPipelineAssumption DEF TypeOK, SequencesOK, NumbersOK
<1> USE DEF historyVars
<1>1. CASE ReadBuffer
  <2>1. PICK n \in 1 .. NumPackets - parsed :
          buffered' = [i \in 1 .. n |-> parsed + i] /\ parsed' = parsed + n
    BY <1>1 DEF ReadBuffer
  <2>2. /\ buffered = <<>>
        /\ UNCHANGED <<assemblerPc, packetRing, lastPut>>
    BY <1>1 DEF ReadBuffer, StreamInv, assemblerVars
  <2>3. n \in Nat BY InputPipelineAssumption DEF TypeOK, NumbersOK
  <2>4. Len(buffered') = n /\ \A i \in 1 .. n : buffered'[i] = parsed + i
    BY <2>1, <2>3
  <2>5. Len(buffered) = 0 BY <2>2
  <2> QED BY <1>0, <2>1, <2>2, <2>3, <2>4, <2>5 DEF LookInv
<1>2. CASE PutPacket
  <2>1. /\ buffered # <<>> /\ buffered' = Tail(buffered)
        /\ packetRing' = Append(packetRing, Head(buffered))
        /\ UNCHANGED <<parsed, assemblerPc, lastPut>>
    BY <1>2 DEF PutPacket, assemblerVars
  <2>2. /\ Len(buffered') = Len(buffered) - 1 /\ Len(buffered) > 0
        /\ Head(buffered) = buffered[1]
        /\ \A i \in 1 .. Len(buffered') : buffered'[i] = buffered[i + 1]
    BY <2>1, HeadTailProperties DEF TypeOK, SequencesOK
  <2>3. /\ Len(packetRing') = Len(packetRing) + 1
        /\ \A i \in 1 .. Len(packetRing) : packetRing'[i] = packetRing[i]
        /\ packetRing'[Len(packetRing) + 1] = Head(buffered)
    <3>1. Head(buffered) \in 1 .. NumPackets
      BY <2>1, GetElement DEF TypeOK, SequencesOK
    <3> QED BY <2>1, <3>1, AppendProperties DEF TypeOK, SequencesOK
  <2>4. \A i \in 1 .. Len(buffered') :
          buffered'[i] = parsed' - Len(buffered') + i
    <3> SUFFICES ASSUME NEW i \in 1 .. Len(buffered')
                 PROVE  buffered'[i] = parsed' - Len(buffered') + i
      OBVIOUS
    <3>1. i + 1 \in 1 .. Len(buffered) BY <1>0, <2>2
    <3> QED BY <1>0, <2>1, <2>2, <3>1 DEF LookInv
  <2>5. ASSUME assemblerPc \in {"checkReader", "waitConsumed", "stopParent"}
        PROVE  /\ lastPut <= parsed' - Len(buffered')
               /\ \A i \in 1 .. Len(packetRing') : packetRing'[i] > lastPut
    <3>1. Head(buffered) = parsed - Len(buffered) + 1
      BY <1>0, <2>2 DEF LookInv
    <3>2. Head(buffered) > lastPut BY <1>0, <2>5, <3>1 DEF LookInv
    <3>3. \A i \in 1 .. Len(packetRing') : packetRing'[i] > lastPut
      BY <1>0, <2>3, <2>5, <3>2 DEF LookInv
    <3> QED BY <1>0, <2>1, <2>2, <2>5, <3>3 DEF LookInv
  <2> QED BY <2>1, <2>4, <2>5 DEF LookInv
<1>3. CASE PutPacketGivesUp
  <2>1. /\ buffered' = <<>> /\ Len(buffered') = 0
        /\ UNCHANGED <<parsed, assemblerPc, packetRing, lastPut>>
    BY <1>3 DEF PutPacketGivesUp, assemblerVars
  <2> QED BY <1>0, <2>1 DEF LookInv
<1>4. CASE ReadFails \/ ReaderStops \/ EndBuffer \/ Clients \/ UNCHANGED vars
  <2>1. UNCHANGED <<parsed, buffered, assemblerPc, packetRing, lastPut>>
    BY <1>4 DEF ReadFails, ReaderStops, EndBuffer, Clients, StopOrStart,
                SetPause, SetKeepPackets, vars, readerVars, assemblerVars
  <2> QED BY <2>1 DEF LookInv
<1>5. CASE GetNothing
  <2>1. /\ packetRing' = <<>> /\ Len(packetRing') = 0
        /\ lastPut' = parsed - Len(buffered)
        /\ UNCHANGED <<parsed, buffered>>
    BY <1>5 DEF GetNothing, readerVars
  <2> QED BY <1>0, <2>1 DEF LookInv
<1>6. CASE GetPacket
  <2>1. /\ UNCHANGED <<parsed, buffered>>
        /\ assemblerPc' \notin {"checkReader", "waitConsumed", "stopParent"}
    BY <1>6 DEF GetPacket, readerVars
  <2> QED BY <2>1 DEF LookInv
<1>7. CASE Assembler /\ ~ GetNothing /\ ~ GetPacket
  <2>1. /\ UNCHANGED <<parsed, buffered, packetRing, lastPut>>
        /\ assemblerPc' \in {"checkReader", "waitConsumed", "stopParent"}
             => assemblerPc \in {"checkReader", "waitConsumed", "stopParent"}
    BY <1>7
       DEF Assembler, AssemblerStops, GetFromFreedRing, CheckReader,
           GenerateContainer, EndCommit, PutContainer, DropContainer,
           CountModule, NotifyMainloop, Consumed, StopParent, readerVars
  <2> QED BY <2>1 DEF LookInv
<1>8. CASE MainThread
  <2>1. CASE FreeState
    <3>1. /\ buffered' = <<>> /\ Len(buffered') = 0
          /\ assemblerPc' = "none"
      BY <2>1 DEF FreeState
    <3> QED BY <3>1 DEF LookInv
  <2>2. CASE ModuleInit \/ ReaderNotCreated \/ StopAssembler
             \/ JoinAssemblerAlone
    <3>1. /\ UNCHANGED <<parsed, buffered, packetRing>>
          /\ \/ UNCHANGED <<assemblerPc, lastPut>>
             \/ assemblerPc' \notin {"checkReader", "waitConsumed", "stopParent"}
      BY <2>2 DEF ModuleInit, ReaderNotCreated, StopAssembler,
                  JoinAssemblerAlone, readerVars, assemblerVars
    <3> QED BY <3>1 DEF LookInv
  <2>3. CASE ModuleRun \/ RunNotifiesMainloop \/ RunCountsModule \/ ModuleExit
             \/ JoinReader \/ JoinAssembler \/ DrainContainer
    <3>1. UNCHANGED <<parsed, buffered, packetRing, assemblerPc, lastPut>>
      BY <2>3 DEF ModuleRun, RunNotifiesMainloop, RunCountsModule, ModuleExit,
                  JoinReader, JoinAssembler, DrainContainer, readerVars,
                  assemblerVars
    <3> QED BY <3>1 DEF LookInv
  <2> QED BY <1>8, <2>1, <2>2, <2>3 DEF MainThread
<1> QED BY <1>1, <1>2, <1>3, <1>4, <1>5, <1>6, <1>7, <1>8 DEF Next, Reader

\* When the source ends or fails while "keepPackets" is set, nothing is
\* missing of what the Reader handed over before the Assembler's last look,
\* but for what the Assembler holds.
THEOREM EndDeliversAll == Spec => []EndOfInputDelivers
<1>1. Init => NoGapInv /\ LookInv
  <2> SUFFICES ASSUME Init PROVE NoGapInv /\ LookInv
    OBVIOUS
  <2>1. Len(buffered) = 0 BY DEF Init
  <2> QED BY <2>1 DEF Init, NoGapInv, LookInv
<1>2. IInv /\ StreamInv /\ NoGapInv /\ LookInv /\ [Next]_vars
        => NoGapInv' /\ LookInv'
  BY StepRefines, NoGapStep, LookStep DEF IInv
<1>3. IInv /\ StreamInv /\ NoGapInv /\ LookInv => EndOfInputDelivers
  <2> SUFFICES ASSUME IInv, StreamInv, NoGapInv, LookInv,
                      assemblerPc = "stopParent", running, kept
               PROVE  /\ delivered \o accumulated \o packetRing
                           = Numbers(parsed)
                      /\ \A i \in 1 .. Len(packetRing) : packetRing[i] > lastPut
    BY DEF EndOfInputDelivers, Numbers
  <2>1. containerRing = <<>> /\ container = <<>> /\ buffered = <<>>
    BY DEF IInv, ConsumedBeforeStop, StreamInv, LifeInv
  <2>2. /\ delivered \in Seq(1 .. NumPackets)
        /\ accumulated \in Seq(1 .. NumPackets)
        /\ packetRing \in Seq(1 .. NumPackets)
    BY DEF IInv, TypeOK, SequencesOK
  <2>3. FlattenSeq(<<>>) = <<>>
    BY EmptySeq DEF FlattenSeq
  <2>4. /\ Cat(<<>>, <<>>) = <<>> /\ Cat(<<>>, accumulated) = accumulated
        /\ Cat(accumulated, packetRing) \in Seq(1 .. NumPackets)
    BY <2>2, CatLaws, EmptySeq
  <2>5. Inside = Cat(accumulated, packetRing)
    <3>1. Cat(Cat(accumulated, packetRing), <<>>)
            = Cat(accumulated, packetRing)
      BY <2>4, CatLaws
    <3>2. Inside = Line(<<>>, <<>>, accumulated, packetRing, <<>>)
      BY <2>1, InsideIsLine, Zenon
    <3> QED BY <2>3, <2>4, <3>1, <3>2, Zenon DEF Line
  <2>6. (delivered \o accumulated) \o packetRing = delivered \o Inside
    BY <2>2, <2>5, ConcatAssociative DEF Cat
  <2> QED BY <2>6 DEF NoGapInv, LookInv
<1> QED BY <1>1, <1>2, <1>3, Invariance, StreamInvariance, PTL DEF Spec

-----------------------------------------------------------------------------
(* Device. First the listeners.                                            *)

\* Every setting of a driver belongs to a node that has a listener.
LEMMA NodesAreKnown ==
  ASSUME NEW d \in Drivers, NEW s \in SettingsOf(d)
  PROVE  s[1] \in {"bias", "chip", "mux", "dvs", "aps", "imu", "ext", "usb",
                   "serial", "system", "log"}
  BY DEF Drivers, SettingsOf, SystemSettings, LogSettings, BiasSettings,
     CoarseFine, SSN, ChipSettings, MuxSettings, DVSSettings, APSSettings,
     Exposure, AutoExposure, TransferTime, IMUSettings, Standby, SampleRate,
     ExtSettings, RisingEdges2, USBSettings, BufferSize, DVS128Settings,
     EDVSSettings

\* What a listener sends are settings of the tree with their values there, but
\* for the settings it mishears; a setting it does not mishear is among them.
LEMMA ListenerSends ==
  ASSUME NEW d \in Drivers, NEW S \in SUBSET SettingsOf(d),
         NEW a, DOMAIN a = S, \A t \in S : a[t] \in Int,
         NEW s \in S
  PROVE  /\ DOMAIN Listener(a, s) \subseteq S
         /\ \A t \in DOMAIN Listener(a, s) : Listener(a, s)[t] \in Int
         /\ \A t \in DOMAIN Listener(a, s) \ Misheard : Listener(a, s)[t] = a[t]
         /\ s \notin Misheard => s \in DOMAIN Listener(a, s)
         /\ Exposure \in DOMAIN Listener(a, s) => s = Exposure
         /\ AutoExposure \in DOMAIN Listener(a, s) => s = AutoExposure
<1> USE DEF Misheard, CoarseFine, SSN, Exposure, AutoExposure, TransferTime,
        Standby, SampleRate, RisingEdges2, BufferSize
<1>1. CASE s[1] = "bias"
  <2>1. Listener(a, s) = biasConfigListener(a, s)
    BY <1>1 DEF Listener
  <2>2. CASE s \in CoarseFine
    BY <1>1, <2>1, <2>2 DEF biasConfigListener
  <2>3. CASE s \notin CoarseFine /\ s = SSN
    BY <1>1, <2>1, <2>3 DEF biasConfigListener
  <2>4. CASE s \notin CoarseFine /\ s # SSN
    BY <1>1, <2>1, <2>4 DEF biasConfigListener, One
  <2> QED BY <2>2, <2>3, <2>4
<1>2. CASE s[1] = "imu"
  <2>1. Listener(a, s) = imuConfigListener(a, s)
    BY <1>2 DEF Listener
  <2>2. CASE s \in Standby
    BY <1>2, <2>1, <2>2 DEF imuConfigListener
  <2>3. CASE s \notin Standby
    BY <1>2, <2>1, <2>3 DEF imuConfigListener, AsByte, One
  <2> QED BY <2>2, <2>3
<1>3. CASE s[1] = "aps"
  <2>1. Listener(a, s) = apsConfigListener(a, s)
    BY <1>3 DEF Listener
  <2> QED BY <1>3, <2>1 DEF apsConfigListener, AsShort, One
<1>4. CASE s[1] = "ext"
  <2>1. Listener(a, s) = extInputConfigListener(a, s)
    BY <1>4 DEF Listener
  <2> QED BY <1>4, <2>1 DEF extInputConfigListener, One
<1>5. CASE s[1] = "system"
  <2>1. Listener(a, s) = systemConfigListener(a, s)
    BY <1>5 DEF Listener
  <2> QED BY <1>5, <2>1 DEF systemConfigListener, One
<1>6. CASE s[1] \in {"chip", "mux", "dvs", "usb", "serial", "log"}
  <2>1. Listener(a, s) = One(s, a[s])
    BY <1>6 DEF Listener, chipConfigListener, muxConfigListener,
       One, dvsConfigListener, usbConfigListener, serialConfigListener,
       logLevelListener
  <2> QED BY <1>6, <2>1 DEF One
<1> QED BY <1>1, <1>2, <1>3, <1>4, <1>5, <1>6, NodesAreKnown
-----------------------------------------------------------------------------
(* The invariant.                                                          *)

\* Exposure and automatic exposure are watched together; both devices and
\* attributes hold values that the exposure may have.
ExposureType ==
  /\ Exposure \in settings <=> AutoExposure \in settings
  /\ Exposure \in settings => device[Exposure] \in {0, 1}

\* What the mainloop has left to send, to listen to or to remove, and when
\* there are listeners and a thread.
PlacesInv ==
  /\ pc = "send" => todo \subseteq settings
  /\ pc \in {"listen", "remove"} => todo \subseteq Nodes
  /\ pc \in {"close", "restart", "stopped", "send"} => thread = "off"
  /\ pc \notin {"listen", "run", "remove"} => listening = {}
  /\ pc = "listen" => Nodes \ todo \subseteq listening
  /\ pc = "run" => Nodes \subseteq listening
  /\ pc = "remove" => listening \subseteq todo

\* The server is inside the listener of the exposure, which is not removed
\* under it, and automatic exposure is off: nobody changes what it has read.
ServerInv ==
  serverPc # "idle" =>
    /\ AutoExposure \in settings /\ "aps" \in listening
    /\ device[AutoExposure] = 0
    /\ serverPc = "putExposure" => got.server = device[Exposure]

\* What has been sent, and not been put since, is as in the tree.
SentInv ==
  pc = "send" =>
    \A s \in settings \ (late \cup Misheard \cup todo) : device[s] = attribute[s]

\* So it is with the listeners, while the device has its exposure from the tree.
AppliedInv ==
  pc \in {"listen", "run"} /\ handle = "open" =>
    \A s \in settings \ (late \cup Misheard) :
      (s = Exposure => serverPc = "idle" /\ device[AutoExposure] = 0)
      => device[s] = attribute[s]

\* What Exit has read is what the device has, and then what the tree has.
CoherentInv ==
  ~drifted =>
    /\ Exposure \in settings
    /\ pc \in {"putExposure", "stopData", "close", "restart", "stopped"}
    /\ IF pc = "putExposure" THEN got.main = device[Exposure]
       ELSE attribute[Exposure] = device[Exposure]

DeviceInv ==
  /\ DeviceTypeOK /\ ExposureType /\ PlacesInv /\ ServerInv /\ SentInv /\ AppliedInv
  /\ CoherentInv

LEMMA ExposureValues == Values(Exposure) = {0, 1}
  BY DEF Values, Exposure, TransferTime, SampleRate

LEMMA ValuesAreInts == \A s : Values(s) \subseteq Int
  BY DEF Values

\* What a put makes its listener send.
LEMMA PutIsSent ==
  ASSUME DeviceTypeOK, NEW s \in settings, NEW v \in Values(s), Put(s, v),
         s[1] \in listening
  PROVE  /\ device' \in [settings -> Int]
         /\ \A t \in settings \ Misheard :
              \/ device'[t] = attribute'[t]
              \/ t # s /\ device'[t] = device[t]
         /\ late' \subseteq late
         /\ \A t \in late \ late' : device'[t] = attribute'[t] \/ t \in Misheard
         /\ s \notin Misheard => s \notin late'
         /\ \A t \in {Exposure, AutoExposure} \cap settings :
              device'[t] = IF t = s THEN v ELSE device[t]
<1> DEFINE sent == Listener(attribute', s)
<1>1. /\ attribute' = [attribute EXCEPT ![s] = v]
      /\ device' = After(sent) /\ late' = late \ DOMAIN sent
  BY DEF Put
<1>2. DOMAIN attribute' = settings /\ \A t \in settings : attribute'[t] \in Int
  BY <1>1, ValuesAreInts DEF DeviceTypeOK
<1>3. /\ DOMAIN sent \subseteq settings
      /\ \A t \in DOMAIN sent : sent[t] \in Int
      /\ \A t \in DOMAIN sent \ Misheard : sent[t] = attribute'[t]
      /\ s \notin Misheard => s \in DOMAIN sent
      /\ Exposure \in DOMAIN sent => s = Exposure
      /\ AutoExposure \in DOMAIN sent => s = AutoExposure
  <2>1. settings \in SUBSET SettingsOf(driver) /\ driver \in Drivers
    BY DEF DeviceTypeOK
  <2> QED BY <1>2, <2>1, ListenerSends
<1>4. Exposure \notin Misheard /\ AutoExposure \notin Misheard
  BY DEF Misheard, Exposure, AutoExposure, SSN, RisingEdges2, TransferTime,
     SampleRate, BufferSize
<1> HIDE DEF sent
<1>5. device' \in [settings -> Int]
  BY <1>1, <1>3 DEF After, DeviceTypeOK
<1>6. \A t \in settings \ Misheard :
        \/ device'[t] = attribute'[t]
        \/ t # s /\ device'[t] = device[t]
  BY <1>1, <1>3 DEF After
<1>7. \A t \in late \ late' : device'[t] = attribute'[t] \/ t \in Misheard
  BY <1>1, <1>3 DEF After
<1>8. \A t \in {Exposure, AutoExposure} \cap settings :
        device'[t] = IF t = s THEN v ELSE device[t]
  BY <1>1, <1>3, <1>4 DEF After, DeviceTypeOK
<1> QED BY <1>1, <1>3, <1>5, <1>6, <1>7, <1>8

LEMMA ListenerPutIsSent ==
  ASSUME DeviceTypeOK, ExposureType, ServerInv, ListenerPutExposure
  PROVE  /\ Exposure \in settings
         /\ attribute' = [attribute EXCEPT ![Exposure] = got.server]
         /\ device' = [device EXCEPT ![Exposure] = got.server]
         /\ device' = device
         /\ got.server = device[Exposure]
         /\ late' = late \ {Exposure}
<1>1. /\ serverPc = "putExposure" /\ got.server = device[Exposure]
      /\ Exposure \in settings
      /\ device \in [settings -> Int]
  BY DEF ListenerPutExposure, ServerInv, ExposureType, DeviceTypeOK
<1>2. /\ attribute' = [attribute EXCEPT ![Exposure] = got.server]
      /\ late' = late \ {Exposure}
  BY DEF ListenerPutExposure
<1>3. device' = device
  <2>1. CASE attribute[Exposure] # got.server
    <3>1. device' = After(One(Exposure, attribute'[Exposure]))
      BY <2>1 DEF ListenerPutExposure, apsConfigListener, Exposure, TransferTime
    <3>2. attribute'[Exposure] = device[Exposure]
      BY <1>1, <1>2 DEF DeviceTypeOK
    <3> QED BY <1>1, <3>1, <3>2 DEF After, One
  <2>2. CASE attribute[Exposure] = got.server
    BY <2>2 DEF ListenerPutExposure
  <2> QED BY <2>1, <2>2
<1> QED BY <1>1, <1>2, <1>3

-----------------------------------------------------------------------------
(* Types.                                                                  *)

LEMMA InitTypes == DeviceInit => DeviceTypeOK /\ ExposureType
<1> SUFFICES ASSUME DeviceInit PROVE DeviceTypeOK /\ ExposureType
  OBVIOUS
<1>1. PICK w \in Watched : driver = w.driver /\ settings = w.settings
  BY DEF DeviceInit
<1>2. /\ driver \in Drivers /\ settings \subseteq SettingsOf(driver)
      /\ Exposure \in settings <=> AutoExposure \in settings
  BY <1>1, DeviceAssumption
<1>3. /\ DOMAIN attribute = settings /\ device = attribute
      /\ \A s \in settings : attribute[s] \in Values(s)
      /\ attribute \in [settings -> UNION {Values(s) : s \in settings}]
  BY DEF DeviceInit
<1>4. device \in [settings -> Int]
  BY <1>3, ValuesAreInts
<1>5. Exposure \in settings => device[Exposure] \in {0, 1}
  BY <1>3, ExposureValues
<1>6. got \in [{"main", "server"} -> Values(Exposure)]
  BY ExposureValues DEF DeviceInit
<1>7. /\ MaxPuts \in Nat /\ MaxPulls \in Nat
      /\ puts = 0 /\ pulls = 0
  BY DeviceAssumption DEF DeviceInit
<1>8. /\ restarts \in BOOLEAN /\ runs \in BOOLEAN /\ sourceInfo \in BOOLEAN
      /\ plugged \in BOOLEAN /\ drifted \in BOOLEAN /\ overruled \in BOOLEAN
  BY Zenon DEF DeviceInit
<1>9. /\ listening = {} /\ handle = "closed" /\ thread = "off"
      /\ pc = "stopped" /\ serverPc = "idle" /\ late = {}
  BY DEF DeviceInit
<1> QED BY <1>2, <1>3, <1>4, <1>5, <1>6, <1>7, <1>8, <1>9, SMT
        DEF DeviceTypeOK, ExposureType

\* The parts of the types that a step may change one by one.
TreeType ==
  /\ DOMAIN attribute = settings
  /\ \A s \in settings : attribute[s] \in Values(s)
HardwareType ==
  /\ handle \in {"closed", "open", "dead"}
  /\ device \in [settings -> Int]
  /\ thread \in {"off", "running", "ended"}
StepsType ==
  /\ pc \in {"stopped", "send", "listen", "run", "remove", "putExposure",
             "stopData", "close", "restart"}
  /\ serverPc \in {"idle", "getExposure", "putExposure"}
  /\ got \in [{"main", "server"} -> Values(Exposure)]
BooleanType ==
  /\ restarts \in BOOLEAN /\ runs \in BOOLEAN /\ sourceInfo \in BOOLEAN
  /\ plugged \in BOOLEAN /\ drifted \in BOOLEAN /\ overruled \in BOOLEAN

LEMMA ModuleStays == [DeviceNext]_deviceVars => UNCHANGED module
<1> SUFFICES ASSUME [DeviceNext]_deviceVars PROVE UNCHANGED module
  OBVIOUS
<1>1. CASE Mainloop
  BY <1>1 DEF Mainloop, OpenDevice, SendSetting, StartData, Listen, Exit,
     RemoveListener, GetExposure, PutExposure, StopData, Close, Restart
<1>2. CASE \E s \in settings : \E v \in Values(s) : Put(s, v)
  BY <1>2 DEF Put
<1>3. CASE \E b \in BOOLEAN : PutRunning(b)
  BY <1>3 DEF PutRunning
<1>4. CASE ServerListener
  BY <1>4 DEF ServerListener, ListenerGetExposure, ListenerPutExposure
<1>5. CASE \E v \in Values(Exposure) : Adjust(v)
  BY <1>5 DEF Adjust
<1>6. CASE Notice \/ Pull \/ PlugIn
  BY <1>6 DEF Notice, Pull, PlugIn
<1>7. CASE UNCHANGED deviceVars
  BY <1>7 DEF deviceVars
<1> QED BY <1>1, <1>2, <1>3, <1>4, <1>5, <1>6, <1>7 DEF DeviceNext

LEMMA BooleansStep == BooleanType /\ [DeviceNext]_deviceVars => BooleanType'
<1> SUFFICES ASSUME BooleanType, [DeviceNext]_deviceVars PROVE BooleanType'
  OBVIOUS
<1> USE DEF BooleanType, module, tree, hardware, steps, history
<1>1. CASE Mainloop
  BY <1>1, ZenonT(30) DEF Mainloop, OpenDevice, SendSetting, StartData, Listen,
     Exit, RemoveListener, GetExposure, PutExposure, StopData, Close, Restart
<1>2. CASE \E s \in settings : \E v \in Values(s) : Put(s, v)
  BY <1>2, Zenon DEF Put
<1>3. CASE \E b \in BOOLEAN : PutRunning(b)
  BY <1>3, Zenon DEF PutRunning
<1>4. CASE ServerListener
  BY <1>4, Zenon DEF ServerListener, ListenerGetExposure, ListenerPutExposure
<1>5. CASE \E v \in Values(Exposure) : Adjust(v)
  BY <1>5, Zenon DEF Adjust
<1>6. CASE Notice \/ Pull \/ PlugIn
  BY <1>6, Zenon DEF Notice, Pull, PlugIn
<1>7. CASE UNCHANGED deviceVars
  BY <1>7, Zenon DEF deviceVars
<1> QED BY <1>1, <1>2, <1>3, <1>4, <1>5, <1>6, <1>7 DEF DeviceNext

DataType ==
  /\ TreeType /\ HardwareType /\ StepsType /\ ExposureType
  /\ listening \subseteq Nodes /\ late \subseteq settings
  /\ puts \in 0 .. MaxPuts /\ pulls \in 0 .. MaxPulls

LEMMA TypeParts ==
  DeviceTypeOK /\ ExposureType
  <=> /\ driver \in Drivers /\ settings \subseteq SettingsOf(driver)
      /\ BooleanType /\ DataType
  BY Zenon DEF DeviceTypeOK, BooleanType, DataType, TreeType, HardwareType, StepsType

LEMMA DeviceDataStep ==
  DeviceTypeOK /\ ExposureType /\ PlacesInv /\ ServerInv /\ [DeviceNext]_deviceVars
  => DataType'
<1> SUFFICES ASSUME DeviceTypeOK, ExposureType, PlacesInv, ServerInv,
                    [DeviceNext]_deviceVars
             PROVE  DataType'
  OBVIOUS
<1> USE DEF module, tree, hardware, steps, history
<1>1. DataType /\ settings' = settings /\ Nodes' = Nodes
  BY TypeParts, ModuleStays DEF Nodes
<1>2. /\ \A s \in settings : Values(s) \subseteq Int
      /\ Values(Exposure) = {0, 1}
      /\ MaxPuts \in Nat /\ MaxPulls \in Nat
  BY ValuesAreInts, ExposureValues, DeviceAssumption
<1>3. CASE OpenDevice
  <2>1. /\ device' \in [settings -> UNION {Values(s) : s \in settings}]
        /\ \A s \in settings : device'[s] \in Values(s)
    BY <1>3 DEF OpenDevice
  <2>2. HardwareType' /\ ExposureType'
    BY <1>1, <1>2, <1>3, <2>1 DEF OpenDevice, DataType, HardwareType, ExposureType
  <2> QED BY <1>1, <1>2, <1>3, <2>2 DEF OpenDevice, DataType, TreeType, StepsType
<1>4. CASE SendSetting
  <2>1. PICK s \in todo : /\ device' = [device EXCEPT ![s] = attribute[s]]
                          /\ late' = late \ {s}
    BY <1>4 DEF SendSetting
  <2>2. s \in settings /\ attribute[s] \in Values(s)
    BY <1>1, <1>4 DEF SendSetting, PlacesInv, DataType, TreeType
  <2>3. HardwareType' /\ ExposureType'
    BY <1>1, <1>2, <1>4, <2>1, <2>2
    DEF SendSetting, DataType, HardwareType, ExposureType
  <2> QED BY <1>1, <1>2, <1>4, <2>1, <2>3 DEF SendSetting, DataType, TreeType, StepsType
<1>5. CASE StartData
  BY <1>1, <1>2, <1>5
  DEF StartData, DataType, TreeType, HardwareType, ExposureType, StepsType
<1>6. CASE Listen
  BY <1>1, <1>2, <1>6
  DEF Listen, DataType, TreeType, HardwareType, ExposureType, StepsType, PlacesInv
<1>7. CASE Exit \/ RemoveListener
  BY <1>1, <1>2, <1>7
  DEF Exit, RemoveListener, DataType, TreeType, HardwareType, ExposureType, StepsType
<1>8. CASE GetExposure
  BY <1>1, <1>2, <1>8
  DEF GetExposure, DataType, TreeType, HardwareType, ExposureType, StepsType
<1>9. CASE PutExposure
  BY <1>1, <1>2, <1>9
  DEF PutExposure, DataType, TreeType, HardwareType, ExposureType, StepsType
<1>10. CASE StopData \/ Close \/ Restart
  BY <1>1, <1>2, <1>10 DEF StopData, Close, Restart, DataType, TreeType,
     HardwareType, ExposureType, StepsType
<1>11. ASSUME NEW s \in settings, NEW v \in Values(s), Put(s, v) PROVE DataType'
  <2>1. TreeType'
    BY <1>1, <1>2, <1>11 DEF Put, DataType, TreeType
  <2>2. /\ device' \in [settings -> Int] /\ late' \subseteq settings
        /\ Exposure \in settings => device'[Exposure] \in {0, 1}
    <3>1. CASE s[1] \in listening
      BY <1>1, <1>2, <1>11, <3>1, PutIsSent DEF DataType, HardwareType, ExposureType
    <3>2. CASE s[1] \notin listening
      BY <1>1, <1>11, <3>2 DEF Put, DataType, HardwareType, ExposureType
    <3> QED BY <3>1, <3>2
  <2>3. StepsType' /\ handle' = handle /\ thread' = thread
    BY <1>1, <1>11 DEF Put, DataType, StepsType
  <2>4. puts' \in 0 .. MaxPuts /\ pulls' = pulls /\ listening' = listening
    BY <1>1, <1>2, <1>11 DEF Put, DataType
  <2> QED BY <1>1, <2>1, <2>2, <2>3, <2>4 DEF DataType, HardwareType, ExposureType
<1>12. ASSUME NEW b \in BOOLEAN, PutRunning(b) PROVE DataType'
  BY <1>1, <1>2, <1>12 DEF PutRunning, DataType, TreeType, HardwareType,
     ExposureType, StepsType
<1>13. CASE ListenerGetExposure
  BY <1>1, <1>2, <1>13 DEF ListenerGetExposure, ServerInv, DataType, TreeType,
     HardwareType, ExposureType, StepsType
<1>14. CASE ListenerPutExposure
  <2>1. /\ attribute' = [attribute EXCEPT ![Exposure] = got.server]
        /\ device' = device /\ late' \subseteq late
    BY <1>14, ListenerPutIsSent
  <2> QED BY <1>1, <1>2, <1>14, <2>1 DEF ListenerPutExposure, DataType, TreeType,
          HardwareType, ExposureType, StepsType
<1>15. ASSUME NEW v \in Values(Exposure), Adjust(v) PROVE DataType'
  BY <1>1, <1>2, <1>15 DEF Adjust, DataType, TreeType, HardwareType,
     ExposureType, StepsType
<1>16. CASE Notice \/ Pull \/ PlugIn
  BY <1>1, <1>2, <1>16 DEF Notice, Pull, PlugIn, DataType, TreeType,
     HardwareType, ExposureType, StepsType
<1>17. CASE UNCHANGED deviceVars
  BY <1>1, <1>17
        DEF deviceVars, DataType, TreeType, HardwareType, ExposureType, StepsType
<1> QED BY <1>3, <1>4, <1>5, <1>6, <1>7, <1>8, <1>9, <1>10, <1>11, <1>12, <1>13,
        <1>14, <1>15, <1>16, <1>17 DEF DeviceNext, Mainloop, ServerListener

-----------------------------------------------------------------------------
(* The mainloop's places and the server's.                                 *)

LEMMA DevicePlacesStep ==
  DeviceTypeOK /\ PlacesInv /\ ServerInv /\ [DeviceNext]_deviceVars => PlacesInv'
<1> SUFFICES ASSUME DeviceTypeOK, PlacesInv, ServerInv, [DeviceNext]_deviceVars
             PROVE  PlacesInv'
  OBVIOUS
<1> USE DEF PlacesInv, module, tree, hardware, steps, history
<1>1. settings' = settings /\ Nodes' = Nodes /\ listening \subseteq Nodes
  BY ModuleStays DEF Nodes, DeviceTypeOK
<1>2. CASE OpenDevice
  BY <1>1, <1>2 DEF OpenDevice
<1>3. CASE SendSetting
  BY <1>1, <1>3 DEF SendSetting
<1>4. CASE StartData
  BY <1>1, <1>4 DEF StartData
<1>5. CASE Listen
  BY <1>1, <1>5 DEF Listen
<1>6. CASE Exit
  BY <1>1, <1>6 DEF Exit
<1>7. CASE RemoveListener
  BY <1>1, <1>7 DEF RemoveListener
<1>8. CASE GetExposure
  BY <1>1, <1>8 DEF GetExposure
<1>9. CASE PutExposure \/ StopData \/ Close \/ Restart
  <2>1. thread' = IF pc = "stopData" THEN "off" ELSE thread
    BY <1>9 DEF PutExposure, StopData, Close, Restart
  <2>2. pc = "restart" => thread = "off"
    OBVIOUS
  <2> QED BY <1>1, <1>9, <2>1, <2>2 DEF PutExposure, StopData, Close, Restart
<1>10. ASSUME NEW s \in settings, NEW v \in Values(s), Put(s, v) PROVE PlacesInv'
  BY <1>1, <1>10 DEF Put
<1>11. ASSUME NEW b \in BOOLEAN, PutRunning(b) PROVE PlacesInv'
  BY <1>1, <1>11 DEF PutRunning
<1>12. CASE ServerListener
  BY <1>1, <1>12 DEF ServerListener, ListenerGetExposure, ListenerPutExposure
<1>13. ASSUME NEW v \in Values(Exposure), Adjust(v) PROVE PlacesInv'
  BY <1>1, <1>13 DEF Adjust
<1>14. CASE Notice \/ Pull \/ PlugIn
  BY <1>1, <1>14 DEF Notice, Pull, PlugIn
<1>15. CASE UNCHANGED deviceVars
  BY <1>1, <1>15 DEF deviceVars
<1> QED BY <1>2, <1>3, <1>4, <1>5, <1>6, <1>7, <1>8, <1>9, <1>10, <1>11, <1>12,
        <1>13, <1>14, <1>15 DEF DeviceNext, Mainloop

LEMMA ServerStep ==
  DeviceTypeOK /\ ExposureType /\ PlacesInv /\ ServerInv /\ [DeviceNext]_deviceVars
  => ServerInv'
<1> SUFFICES ASSUME DeviceTypeOK, ExposureType, PlacesInv, ServerInv,
                    [DeviceNext]_deviceVars
             PROVE  ServerInv'
  OBVIOUS
<1> USE DEF ServerInv, module, tree, hardware, steps, history
<1>1. /\ settings' = settings
      /\ Exposure \in settings <=> AutoExposure \in settings
      /\ device \in [settings -> Int]
      /\ got \in [{"main", "server"} -> Values(Exposure)]
  BY ModuleStays DEF ExposureType, DeviceTypeOK
<1>2. serverPc # "idle" => pc \in {"listen", "run", "remove"}
  BY DEF PlacesInv
<1>3. CASE OpenDevice \/ SendSetting \/ PutExposure \/ StopData \/ Close \/ Restart
  BY <1>1, <1>2, <1>3
  DEF OpenDevice, SendSetting, PutExposure, StopData, Close, Restart
<1>4. CASE StartData \/ Listen \/ Exit
  BY <1>1, <1>2, <1>4 DEF StartData, Listen, Exit
<1>5. CASE RemoveListener
  BY <1>1, <1>5 DEF RemoveListener
<1>6. CASE GetExposure
  BY <1>1, <1>6 DEF GetExposure, PlacesInv
<1>7. ASSUME NEW s \in settings, NEW v \in Values(s), Put(s, v) PROVE ServerInv'
  <2>1. CASE s[1] \in listening
    <3>1. \A t \in {Exposure, AutoExposure} \cap settings :
            device'[t] = IF t = s THEN v ELSE device[t]
      BY <1>7, <2>1, PutIsSent
    <3>2. AutoExposure[1] = "aps"
      BY DEF AutoExposure
    <3>3. /\ listening' = listening
          /\ serverPc' # "idle" => /\ serverPc' = "getExposure"
                                   /\ s = AutoExposure /\ v = 0
      BY <1>7, <2>1 DEF Put
    <3> QED BY <1>1, <2>1, <3>1, <3>2, <3>3
  <2>2. CASE s[1] \notin listening
    BY <1>1, <1>7, <2>2 DEF Put
  <2> QED BY <2>1, <2>2
<1>8. ASSUME NEW b \in BOOLEAN, PutRunning(b) PROVE ServerInv'
  BY <1>1, <1>8 DEF PutRunning
<1>9. CASE ServerListener
  BY <1>1, <1>9 DEF ServerListener, ListenerGetExposure, ListenerPutExposure
<1>10. ASSUME NEW v \in Values(Exposure), Adjust(v) PROVE ServerInv'
  BY <1>1, <1>10 DEF Adjust
<1>11. CASE Notice \/ Pull \/ PlugIn
  BY <1>1, <1>11 DEF Notice, Pull, PlugIn
<1>12. CASE UNCHANGED deviceVars
  BY <1>1, <1>12 DEF deviceVars
<1> QED BY <1>3, <1>4, <1>5, <1>6, <1>7, <1>8, <1>9, <1>10, <1>11, <1>12
        DEF DeviceNext, Mainloop

-----------------------------------------------------------------------------
(* The device and the tree.                                                *)

LEMMA SentStep ==
  DeviceTypeOK /\ ExposureType /\ PlacesInv /\ ServerInv /\ SentInv /\
  [DeviceNext]_deviceVars
  => SentInv'
<1> SUFFICES ASSUME DeviceTypeOK, ExposureType, PlacesInv, ServerInv, SentInv,
                    [DeviceNext]_deviceVars, pc' = "send"
             PROVE  \A s \in settings \ (late' \cup Misheard \cup todo') :
                      device'[s] = attribute'[s]
  BY ModuleStays DEF SentInv, module
<1> USE DEF module, tree, hardware, steps, history
<1>1. /\ DOMAIN attribute = settings /\ device \in [settings -> Int]
      /\ pc = "send" => listening = {} /\ thread = "off" /\ todo \subseteq settings
      /\ pc = "send" => serverPc = "idle"
  BY DEF DeviceTypeOK, PlacesInv, ServerInv
<1>2. CASE OpenDevice
  BY <1>2 DEF OpenDevice
<1>3. CASE SendSetting
  BY <1>1, <1>3 DEF SendSetting, SentInv
<1>4. CASE StartData \/ Listen \/ Exit \/ RemoveListener \/ GetExposure \/ PutExposure
           \/ StopData \/ Close \/ Restart
  BY <1>4 DEF StartData, Listen, Exit, RemoveListener, GetExposure, PutExposure,
     StopData, Close, Restart
<1>5. ASSUME NEW s \in settings, NEW v \in Values(s), Put(s, v)
      PROVE \A t \in settings \ (late' \cup Misheard \cup todo') :
              device'[t] = attribute'[t]
  BY <1>1, <1>5 DEF Put, SentInv
<1>6. CASE \E b \in BOOLEAN : PutRunning(b)
  BY <1>6 DEF PutRunning, SentInv
<1>7. CASE ServerListener
  BY <1>1, <1>7 DEF ServerListener, ListenerGetExposure, ListenerPutExposure
<1>8. CASE \E v \in Values(Exposure) : Adjust(v)
  BY <1>1, <1>8 DEF Adjust
<1>9. CASE Notice \/ Pull \/ PlugIn
  BY <1>9 DEF Notice, Pull, PlugIn, SentInv
<1>10. CASE UNCHANGED deviceVars
  BY <1>10 DEF deviceVars, SentInv
<1> QED BY <1>2, <1>3, <1>4, <1>5, <1>6, <1>7, <1>8, <1>9, <1>10
        DEF DeviceNext, Mainloop

LEMMA AppliedStep ==
  DeviceTypeOK /\ ExposureType /\ PlacesInv /\ ServerInv /\ SentInv /\ AppliedInv
  /\ [DeviceNext]_deviceVars => AppliedInv'
<1> SUFFICES ASSUME DeviceTypeOK, ExposureType, PlacesInv, ServerInv, SentInv,
                    AppliedInv, [DeviceNext]_deviceVars,
                    pc' \in {"listen", "run"}, handle' = "open",
                    NEW t \in settings, t \notin late', t \notin Misheard,
                    t = Exposure => serverPc' = "idle" /\ device'[AutoExposure] = 0
             PROVE  device'[t] = attribute'[t]
  BY ModuleStays DEF AppliedInv, module
<1> USE DEF module, tree, hardware, steps, history
<1>1. /\ DOMAIN attribute = settings /\ device \in [settings -> Int]
      /\ Exposure \in settings <=> AutoExposure \in settings
  BY DEF DeviceTypeOK, ExposureType
<1>2. CASE OpenDevice \/ SendSetting \/ Exit \/ RemoveListener \/ GetExposure
           \/ PutExposure \/ StopData \/ Close \/ Restart
  BY <1>2 DEF OpenDevice, SendSetting, Exit, RemoveListener, GetExposure, PutExposure,
     StopData, Close, Restart
<1>3. CASE StartData
  BY <1>3 DEF StartData, SentInv
<1>4. CASE Listen
  BY <1>4 DEF Listen, AppliedInv
<1>5. ASSUME NEW s \in settings, NEW v \in Values(s), Put(s, v)
      PROVE  device'[t] = attribute'[t]
  <2>1. /\ pc \in {"listen", "run"} /\ handle = "open" /\ serverPc = "idle"
        /\ attribute' = [attribute EXCEPT ![s] = v]
    BY <1>5 DEF Put
  <2>2. CASE s[1] \in listening
    <3>1. /\ \/ device'[t] = attribute'[t]
             \/ t # s /\ device'[t] = device[t]
          /\ t \in late => device'[t] = attribute'[t]
          /\ AutoExposure \in settings =>
               device'[AutoExposure] = IF AutoExposure = s THEN v
                                       ELSE device[AutoExposure]
      BY <1>5, <2>2, PutIsSent
    <3>2. CASE t # s /\ t \notin late /\ device'[t] = device[t]
      <4>1. s = AutoExposure /\ v = 0 => serverPc' # "idle"
        BY <1>5, <2>2 DEF Put
      <4>2. t = Exposure => serverPc = "idle" /\ device[AutoExposure] = 0
        BY <1>1, <2>1, <3>1, <4>1
      <4>3. device[t] = attribute[t]
        BY <2>1, <3>2, <4>2 DEF AppliedInv
      <4> QED BY <1>1, <2>1, <3>2, <4>3
    <3> QED BY <3>1, <3>2
  <2>3. CASE s[1] \notin listening
    <3>1. pc = "listen"
      BY <2>1, <2>3 DEF PlacesInv, Nodes
    <3>2. s # t /\ t \notin late /\ device' = device /\ serverPc' = serverPc
      BY <1>5, <2>3, <3>1 DEF Put
    <3> QED BY <1>1, <2>1, <3>2 DEF AppliedInv
  <2> QED BY <2>2, <2>3
<1>6. CASE \E b \in BOOLEAN : PutRunning(b)
  BY <1>6 DEF PutRunning, AppliedInv
<1>7. CASE ListenerGetExposure
  <2>1. /\ handle = "open" /\ serverPc' = "putExposure"
        /\ device' = device /\ attribute' = attribute /\ late' = late /\ pc' = pc
    BY <1>7 DEF ListenerGetExposure
  <2> QED BY <2>1 DEF AppliedInv
<1>8. CASE ListenerPutExposure
  <2>1. /\ Exposure \in settings
        /\ attribute' = [attribute EXCEPT ![Exposure] = got.server]
        /\ device' = device /\ got.server = device[Exposure]
        /\ late' = late \ {Exposure}
    BY <1>8, ListenerPutIsSent
  <2>2. pc' = pc /\ handle' = handle
    BY <1>8 DEF ListenerPutExposure
  <2> QED BY <1>1, <2>1, <2>2 DEF AppliedInv
<1>9. CASE \E v \in Values(Exposure) : Adjust(v)
  <2>1. AutoExposure # Exposure
    BY DEF AutoExposure, Exposure
  <2> QED BY <1>1, <1>9, <2>1 DEF Adjust, AppliedInv
<1>10. CASE Notice \/ Pull \/ PlugIn
  BY <1>10 DEF Notice, Pull, PlugIn, AppliedInv
<1>11. CASE UNCHANGED deviceVars
  BY <1>11 DEF deviceVars, AppliedInv
<1> QED BY <1>2, <1>3, <1>4, <1>5, <1>6, <1>7, <1>8, <1>9, <1>10, <1>11
        DEF DeviceNext, Mainloop, ServerListener

LEMMA CoherentStep ==
  DeviceTypeOK /\ ExposureType /\ PlacesInv /\ ServerInv /\ CoherentInv /\
  [DeviceNext]_deviceVars
  => CoherentInv'
<1> SUFFICES ASSUME DeviceTypeOK, ExposureType, PlacesInv, ServerInv, CoherentInv,
                    [DeviceNext]_deviceVars, ~drifted'
             PROVE  CoherentInv'
  BY DEF CoherentInv
<1> USE DEF module, tree, hardware, steps, history
<1>1. /\ DOMAIN attribute = settings /\ device \in [settings -> Int]
      /\ got \in [{"main", "server"} -> Values(Exposure)]
      /\ settings' = settings
      /\ serverPc # "idle" => pc \in {"listen", "run", "remove"}
  BY ModuleStays DEF DeviceTypeOK, PlacesInv, ServerInv
<1>2. CASE OpenDevice
  BY <1>2 DEF OpenDevice
<1>3. CASE SendSetting \/ StartData \/ Listen \/ Exit \/ RemoveListener
  BY <1>3 DEF SendSetting, StartData, Listen, Exit, RemoveListener, CoherentInv
<1>4. CASE GetExposure
  <2>1. drifted => Exposure \in settings /\ got' = [got EXCEPT !.main = device[Exposure]]
                   /\ pc' = "putExposure" /\ device' = device
    BY <1>4 DEF GetExposure
  <2>2. drifted
    BY <1>4 DEF GetExposure, CoherentInv
  <2> QED BY <1>1, <2>1, <2>2 DEF CoherentInv
<1>5. CASE PutExposure
  BY <1>1, <1>5 DEF PutExposure, CoherentInv
<1>6. CASE StopData \/ Close \/ Restart
  BY <1>1, <1>6 DEF StopData, Close, Restart, CoherentInv
<1>7. ASSUME NEW s \in settings, NEW v \in Values(s), Put(s, v) PROVE CoherentInv'
  <2>1. ~drifted /\ s # Exposure
    BY <1>7 DEF Put
  <2>2. listening = {}
    BY <2>1 DEF CoherentInv, PlacesInv
  <2> QED BY <1>1, <1>7, <2>1, <2>2 DEF Put, CoherentInv
<1>8. CASE \E b \in BOOLEAN : PutRunning(b)
  BY <1>1, <1>8 DEF PutRunning, CoherentInv
<1>9. CASE ListenerGetExposure
  BY <1>1, <1>9 DEF ListenerGetExposure, CoherentInv
<1>10. CASE ListenerPutExposure
  <2>1. drifted
    BY <1>1, <1>10 DEF ListenerPutExposure, CoherentInv
  <2>2. drifted' = drifted
    <3>1. CASE attribute[Exposure] # got.server
      BY <3>1, <1>10 DEF ListenerPutExposure
    <3>2. CASE attribute[Exposure] = got.server
      BY <3>2, <1>10 DEF ListenerPutExposure
    <3> QED BY <3>1, <3>2
  <2> QED BY <2>1, <2>2
<1>11. CASE \E v \in Values(Exposure) : Adjust(v)
  BY <1>11 DEF Adjust
<1>12. CASE Notice \/ Pull \/ PlugIn
  BY <1>1, <1>12 DEF Notice, Pull, PlugIn, CoherentInv
<1>13. CASE UNCHANGED deviceVars
  BY <1>1, <1>13 DEF deviceVars, CoherentInv
<1> QED BY <1>2, <1>3, <1>4, <1>5, <1>6, <1>7, <1>8, <1>9, <1>10, <1>11, <1>12,
        <1>13 DEF DeviceNext, Mainloop, ServerListener

-----------------------------------------------------------------------------
(* The theorems.                                                           *)

LEMMA DeviceStarts == DeviceInit => DeviceInv
<1> SUFFICES ASSUME DeviceInit PROVE DeviceInv
  OBVIOUS
<1>1. DeviceTypeOK /\ ExposureType
  BY InitTypes
<1>2. /\ pc = "stopped" /\ serverPc = "idle" /\ thread = "off" /\ listening = {}
      /\ drifted = TRUE
  BY DEF DeviceInit
<1> QED BY <1>1, <1>2
        DEF DeviceInv, PlacesInv, ServerInv, SentInv, AppliedInv, CoherentInv

LEMMA DeviceSteps == DeviceInv /\ [DeviceNext]_deviceVars => DeviceInv'
<1> SUFFICES ASSUME DeviceInv, [DeviceNext]_deviceVars PROVE DeviceInv'
  OBVIOUS
<1> USE DEF DeviceInv
<1>1. BooleanType /\ DataType
  BY Zenon, TypeParts
<1>2. driver' = driver /\ settings' = settings
  BY ModuleStays DEF module
<1>3. DeviceTypeOK' /\ ExposureType'
  <2>1. BooleanType' /\ DataType'
    BY <1>1, BooleansStep, DeviceDataStep
  <2>2. driver' \in Drivers /\ settings' \subseteq SettingsOf(driver')
    BY <1>2 DEF DeviceTypeOK
  <2> QED BY <2>1, <2>2, Zenon DEF DeviceTypeOK, BooleanType, DataType, TreeType,
          HardwareType, StepsType
<1>4. PlacesInv' /\ ServerInv'
  BY DevicePlacesStep, ServerStep
<1>5. SentInv' /\ AppliedInv'
  BY SentStep, AppliedStep
<1>6. CoherentInv'
  BY CoherentStep
<1> QED BY <1>3, <1>4, <1>5, <1>6

\* What relates a device, its module and the tree holds in every reachable state
\* (caerInputDAVISInit and Exit, caerInputDVS128Init, caerInputEDVSInit).
THEOREM DeviceInvariance == DeviceSpec => []DeviceInv
<1> QED BY DeviceStarts, DeviceSteps, PTL DEF DeviceSpec

\* Every variable of a module and its device keeps its type; listeners send
\* nothing but settings that the driver has (davis_common.c:1129-2592).
THEOREM DeviceTypeCorrect == DeviceSpec => []DeviceTypeOK
<1>1. DeviceInv => DeviceTypeOK
  BY DEF DeviceInv
<1> QED BY <1>1, DeviceInvariance, PTL

\* No put gets lost between what Init sends and the listeners, whatever the
\* server, the device and its owner do: a module that runs has the device set
\* as the tree says (davis_common.c:279-318).
THEOREM DevicesGetTheirSettings == DeviceSpec => []SettingsAreApplied
<1>1. DeviceInv => SettingsAreApplied
  BY DEF DeviceInv, AppliedInv, SettingsAreApplied
<1> QED BY <1>1, DeviceInvariance, PTL

\* A module that stops leaves the exposure of its device in the tree, unless
\* somebody changed it after it was read (davis_common.c:367-369).
THEOREM ExposureGetsToTheTree == DeviceSpec => []ExposureIsCoherent
<1>1. DeviceInv => ExposureIsCoherent
  BY DEF DeviceInv, CoherentInv, ExposureIsCoherent
<1> QED BY <1>1, DeviceInvariance, PTL
-----------------------------------------------------------------------------
(* AedatReader *)

\* The stream, as the reader finds it: nothing of it changes.
Count == Len(file.packets)
Wires == {file.wires[k] : k \in 1 .. Count}
FileInv ==
  /\ Count \in Nat /\ DOMAIN file.packets = 1 .. Count
  /\ file.wires \in Seq(Wires) /\ Len(file.wires) = Count
  /\ file.cells = StreamOf(file.lines, file.wires)
  /\ PacketsAreRestored

ChunkOf(k) == Chunk(k, file.wires[k].data)

\* The stream up to packet m, and the cells it is made of.
Upto(m) == <<file.lines>> \o FlattenSeq([k \in 1 .. m |-> ChunkOf(k)])
StreamCells ==
  {file.lines} \cup
  UNION {{ChunkOf(k)[i] : i \in 1 .. HeaderLength + DataSize(k)} : k \in 1 .. Count}

LEMMA SizesAreNatural ==
  ASSUME FileInv, NEW k \in 1 .. Count
  PROVE  DataSize(k) \in Nat /\ Len(Memory(k)) \in Nat /\ DataSize(k) <= Len(Memory(k))
         /\ HeaderLength \in Nat \ {0}
BY AedatReaderAssumption DEF FileInv, PacketsAreRestored

LEMMA ChunkIsSeq ==
  ASSUME FileInv, NEW k \in 1 .. Count
  PROVE  /\ ChunkOf(k) \in Seq(StreamCells)
         /\ Len(ChunkOf(k)) = HeaderLength + DataSize(k)
         /\ \A i \in 1 .. HeaderLength + DataSize(k) :
              ChunkOf(k)[i] = IF i <= HeaderLength THEN HeaderCell(k, i)
                              ELSE file.wires[k].data[i - HeaderLength]
<1> DEFINE n == HeaderLength + DataSize(k)
<1>1. n \in Nat
  BY SizesAreNatural
<1>2. ChunkOf(k) = [i \in 1 .. n |->
        IF i <= HeaderLength THEN HeaderCell(k, i)
        ELSE file.wires[k].data[i - HeaderLength]]
  BY DEF ChunkOf, Chunk, DataSize
<1>3. \A i \in 1 .. n : ChunkOf(k)[i] \in StreamCells
  BY DEF StreamCells
<1>4. ChunkOf(k) \in [1 .. n -> StreamCells]
  BY <1>2, <1>3
<1> HIDE DEF n
<1>5. ChunkOf(k) \in Seq(StreamCells) /\ Len(ChunkOf(k)) = n
  BY <1>1, <1>4
<1> QED BY <1>2, <1>5 DEF n

LEMMA UptoGrows ==
  ASSUME FileInv, NEW m \in 0 .. Count
  PROVE  /\ Upto(m) \in Seq(StreamCells)
         /\ m + 1 \in 1 .. Count => Upto(m + 1) = Upto(m) \o ChunkOf(m + 1)
<1> DEFINE C(n) == [k \in 1 .. n |-> ChunkOf(k)]
<1>1. Count \in Nat
  BY DEF FileInv
<1>2. \A n \in 0 .. Count : C(n) \in Seq(Seq(StreamCells)) /\ Len(C(n)) = n
  <2> TAKE n \in 0 .. Count
  <2>1. \A k \in 1 .. n : ChunkOf(k) \in Seq(StreamCells)
    BY <1>1, ChunkIsSeq
  <2>2. C(n) \in [1 .. n -> Seq(StreamCells)]
    BY <2>1
  <2> HIDE DEF C
  <2> QED BY <1>1, <2>2
<1>3. <<file.lines>> \in Seq(StreamCells)
  BY DEF StreamCells
<1>4. FlattenSeq(C(m)) \in Seq(StreamCells)
  <2> HIDE DEF C
  <2> QED BY <1>2, FlattenType
<1>5. Upto(m) \in Seq(StreamCells)
  <2> HIDE DEF C
  <2>1. <<file.lines>> \o FlattenSeq(C(m)) \in Seq(StreamCells)
    BY <1>3, <1>4, ConcatProperties
  <2> QED BY <2>1 DEF Upto, C
<1>6. ASSUME m + 1 \in 1 .. Count
      PROVE  Upto(m + 1) = Upto(m) \o ChunkOf(m + 1)
  <2>1. ChunkOf(m + 1) \in Seq(StreamCells)
    BY <1>6, ChunkIsSeq
  <2>2. C(m + 1) = Append(C(m), ChunkOf(m + 1))
    <3>1. m \in Nat BY <1>1
    <3>2. m + 1 \in 0 .. Count BY <1>6, <3>1
    <3>3. /\ C(m) \in Seq(Seq(StreamCells)) /\ Len(C(m)) = m
          /\ C(m + 1) \in Seq(Seq(StreamCells)) /\ Len(C(m + 1)) = m + 1
      BY <1>2, <3>2
    <3>4. \A k \in 1 .. m + 1 : C(m + 1)[k] = ChunkOf(k)
      OBVIOUS
    <3>5. \A k \in 1 .. m : C(m)[k] = ChunkOf(k)
      OBVIOUS
    <3> HIDE DEF C
    <3> DEFINE a == Append(C(m), ChunkOf(m + 1))
    <3>6. a \in Seq(Seq(StreamCells)) /\ Len(a) = m + 1
          /\ (\A k \in 1 .. m : a[k] = C(m)[k]) /\ a[m + 1] = ChunkOf(m + 1)
      BY <2>1, <3>3, AppendProperties
    <3>7. \A k \in 1 .. m + 1 : C(m + 1)[k] = a[k]
      BY <3>1, <3>4, <3>5, <3>6
    <3> HIDE DEF a
    <3>8. C(m + 1) = a
      BY <3>3, <3>6, <3>7, SeqEqual
    <3> QED BY <3>8 DEF a
  <2> HIDE DEF C
  <2>3. FlattenSeq(C(m + 1)) = FlattenSeq(C(m)) \o ChunkOf(m + 1)
    BY <1>2, <2>1, <2>2, FlattenAppend
  <2>4. <<file.lines>> \o (FlattenSeq(C(m)) \o ChunkOf(m + 1))
          = (<<file.lines>> \o FlattenSeq(C(m))) \o ChunkOf(m + 1)
    BY <1>3, <1>4, <2>1, Concatenation
  <2> QED BY <2>3, <2>4 DEF Upto, C
<1> QED BY <1>5, <1>6

LEMMA PositionIsLength ==
  ASSUME FileInv, NEW k \in 1 .. Count + 1
  PROVE  Position(k) = Len(Upto(k - 1))
<1> DEFINE w == SubSeq(file.wires, 1, k - 1)
<1>1. Count \in Nat /\ file.wires \in Seq(Wires) /\ Len(file.wires) = Count
  BY DEF FileInv
<1>2. k - 1 \in Nat /\ k - 1 <= Count
  BY <1>1
<1>3. Len(w) = k - 1 /\ \A i \in 1 .. k - 1 : w[i] = file.wires[i]
  <2>1. \A i \in 1 .. k - 1 : file.wires[i] \in Wires
    BY <1>1, <1>2 DEF Wires
  <2> QED BY <1>2, <2>1, SubSeqProperties
<1> HIDE DEF w
<1>4. [i \in 1 .. Len(w) |-> Chunk(i, w[i].data)] = [i \in 1 .. k - 1 |-> ChunkOf(i)]
  BY <1>3 DEF ChunkOf
<1> QED BY <1>4 DEF Position, StreamOf, Upto, w

LEMMA UptoIsPrefix ==
  ASSUME FileInv, NEW m \in 0 .. Count
  PROVE  /\ Len(Upto(m)) <= Len(Upto(Count))
         /\ \A i \in 1 .. Len(Upto(m)) : Upto(Count)[i] = Upto(m)[i]
<1> DEFINE P(j) == /\ Len(Upto(j)) <= Len(Upto(Count))
                   /\ \A i \in 1 .. Len(Upto(j)) : Upto(Count)[i] = Upto(j)[i]
           Bad == {d \in 0 .. Count : ~ P(Count - d)}
<1>1. Count \in Nat
  BY DEF FileInv
<1>2. SUFFICES ASSUME Bad # {} PROVE FALSE
  <2>1. Count - m \in 0 .. Count /\ Count - (Count - m) = m
    BY <1>1
  <2> HIDE DEF P
  <2>2. P(m) BY <1>2, <2>1
  <2> QED BY <2>2 DEF P
<1>3. PICK d \in Bad : \A e \in Bad : d <= e
  <2>1. Bad \subseteq Nat OBVIOUS
  <2> HIDE DEF Bad
  <2> QED BY <1>2, <2>1, LeastNatural
<1>4. d \in 0 .. Count /\ ~ P(Count - d)
  BY <1>3
<1>5. d # 0
  <2>1. Len(Upto(Count)) \in Nat
    BY <1>1, UptoGrows, LenProperties
  <2> QED BY <1>1, <1>4, <2>1
<1> DEFINE j == Count - d
<1>6. P(j + 1)
  <2>1. d - 1 \in 0 .. Count /\ d - 1 \notin Bad /\ Count - (d - 1) = j + 1
    <3>1. d - 1 \in 0 .. Count /\ ~ (d <= d - 1) /\ Count - (d - 1) = j + 1
      BY <1>1, <1>4, <1>5
    <3> HIDE DEF Bad
    <3> QED BY <1>3, <3>1
  <2> HIDE DEF P
  <2> QED BY <2>1
<1>7. j \in 0 .. Count /\ j + 1 \in 1 .. Count
  BY <1>1, <1>4, <1>5
<1> HIDE DEF j
<1>8. /\ Upto(j) \in Seq(StreamCells) /\ ChunkOf(j + 1) \in Seq(StreamCells)
      /\ Upto(j + 1) = Upto(j) \o ChunkOf(j + 1)
      /\ Len(Upto(Count)) \in Nat
  <2>1. Upto(Count) \in Seq(StreamCells) BY <1>1, UptoGrows
  <2> QED BY <1>7, <2>1, UptoGrows, ChunkIsSeq, LenProperties
<1>9. /\ Len(Upto(j)) \in Nat /\ Len(ChunkOf(j + 1)) \in Nat
      /\ Len(Upto(j + 1)) = Len(Upto(j)) + Len(ChunkOf(j + 1))
      /\ \A i \in 1 .. Len(Upto(j)) : Upto(j + 1)[i] = Upto(j)[i]
  BY <1>8, ConcatProperties, LenProperties
<1>10. P(j)
  BY <1>6, <1>8, <1>9
<1> HIDE DEF P
<1> QED BY <1>4, <1>10 DEF j

LEMMA StreamIs ==
  ASSUME FileInv
  PROVE  /\ file.cells \in Seq(StreamCells)
         /\ Position(1) = 1
         /\ Position(Count + 1) = Len(file.cells)
         /\ \A k \in 1 .. Count : Position(k + 1) = Position(k) + HeaderLength + DataSize(k)
         /\ \A k \in 1 .. Count + 1 : Position(k) \in 1 .. Len(file.cells)
         /\ \A k \in 1 .. Count : \A i \in 1 .. HeaderLength + DataSize(k) :
              file.cells[Position(k) + i] =
                IF i <= HeaderLength THEN HeaderCell(k, i)
                ELSE file.wires[k].data[i - HeaderLength]
<1>1. Count \in Nat
  BY DEF FileInv
<1>2. file.cells = Upto(Count)
  BY DEF FileInv, StreamOf, Upto, ChunkOf
<1>3. Upto(Count) \in Seq(StreamCells) /\ Len(Upto(Count)) \in Nat
  BY <1>1, UptoGrows, LenProperties
<1>4. Position(1) = 1
  <2>1. Upto(0) = <<file.lines>>
    <3>1. [k \in 1 .. 0 |-> ChunkOf(k)] = << >> OBVIOUS
    <3>2. FlattenSeq(<< >>) = << >> BY DEF FlattenSeq
    <3>3. <<file.lines>> \in Seq({file.lines}) OBVIOUS
    <3> QED BY <3>1, <3>2, <3>3, ConcatEmptySeq DEF Upto
  <2>2. 1 \in 1 .. Count + 1 /\ 1 - 1 = 0 BY <1>1
  <2>3. Position(1) = Len(Upto(1 - 1)) BY <2>2, PositionIsLength
  <2>4. Upto(1 - 1) = <<file.lines>> BY <2>1, <2>2
  <2>5. Len(<<file.lines>>) = 1 OBVIOUS
  <2> QED BY <2>3, <2>4, <2>5
<1>5. Position(Count + 1) = Len(file.cells)
  <2>1. Count + 1 \in 1 .. Count + 1 /\ (Count + 1) - 1 = Count BY <1>1
  <2> QED BY <1>2, <2>1, PositionIsLength
<1>6. \A k \in 1 .. Count :
        /\ Position(k + 1) = Position(k) + HeaderLength + DataSize(k)
        /\ Position(k) \in Nat
        /\ \A i \in 1 .. HeaderLength + DataSize(k) :
             file.cells[Position(k) + i] = ChunkOf(k)[i]
  <2> TAKE k \in 1 .. Count
  <2>1. /\ k \in 1 .. Count + 1 /\ k + 1 \in 1 .. Count + 1
        /\ (k + 1) - 1 = k /\ k - 1 \in 0 .. Count /\ k \in 0 .. Count
        /\ (k - 1) + 1 = k
    BY <1>1
  <2>2. Position(k) = Len(Upto(k - 1)) /\ Position(k + 1) = Len(Upto(k))
    BY <2>1, PositionIsLength
  <2>3. Upto(k) = Upto(k - 1) \o ChunkOf(k) /\ Upto(k - 1) \in Seq(StreamCells)
    BY <2>1, UptoGrows
  <2>4. ChunkOf(k) \in Seq(StreamCells) /\ Len(ChunkOf(k)) = HeaderLength + DataSize(k)
    BY ChunkIsSeq
  <2>5. /\ Len(Upto(k)) = Len(Upto(k - 1)) + Len(ChunkOf(k)) /\ Len(Upto(k - 1)) \in Nat
        /\ \A i \in 1 .. Len(ChunkOf(k)) : Upto(k)[Len(Upto(k - 1)) + i] = ChunkOf(k)[i]
    <3> DEFINE s == Upto(k - 1)
               c == ChunkOf(k)
    <3>1. s \in Seq(StreamCells) /\ c \in Seq(StreamCells) /\ Upto(k) = s \o c
      BY <2>3, <2>4
    <3> HIDE DEF s, c
    <3>2. /\ Len(s \o c) = Len(s) + Len(c) /\ Len(s) \in Nat /\ Len(c) \in Nat
          /\ \A i \in 1 .. Len(c) : (s \o c)[Len(s) + i] = c[i]
      BY <3>1
    <3> QED BY <3>1, <3>2 DEF s, c
  <2>6. \A i \in 1 .. Len(Upto(k)) : Upto(Count)[i] = Upto(k)[i]
    BY <2>1, UptoIsPrefix
  <2>7. DataSize(k) \in Nat /\ HeaderLength \in Nat
    BY SizesAreNatural
  <2>8. \A i \in 1 .. HeaderLength + DataSize(k) : Position(k) + i \in 1 .. Len(Upto(k))
    BY <2>2, <2>4, <2>5, <2>7
  <2> QED BY <1>2, <2>2, <2>4, <2>5, <2>6, <2>7, <2>8
<1>7. \A k \in 1 .. Count + 1 : Position(k) \in 1 .. Len(file.cells)
  <2> TAKE k \in 1 .. Count + 1
  <2>1. k - 1 \in 0 .. Count BY <1>1
  <2>2. Position(k) = Len(Upto(k - 1)) /\ Len(Upto(k - 1)) <= Len(Upto(Count))
    BY <2>1, PositionIsLength, UptoIsPrefix
  <2>3. CASE k = 1 BY <1>2, <1>3, <1>4, <2>2, <2>3
  <2>4. CASE k # 1
    <3>1. k - 1 \in 1 .. Count /\ (k - 1) + 1 = k BY <1>1, <2>4
    <3>2. Position(k) = Position(k - 1) + HeaderLength + DataSize(k - 1)
          /\ Position(k - 1) \in Nat
      BY <1>6, <3>1
    <3>3. HeaderLength \in Nat \ {0} /\ DataSize(k - 1) \in Nat
      BY <3>1, SizesAreNatural
    <3> QED BY <1>2, <1>3, <2>2, <3>2, <3>3
  <2> QED BY <2>3, <2>4
<1> QED BY <1>2, <1>3, <1>4, <1>5, <1>6, <1>7, ChunkIsSeq

-----------------------------------------------------------------------------
(* The reader's place in the stream.                                       *)

LEMMA ConcatIs ==
  \A S : \A s, t \in Seq(S) :
    /\ s \o t \in Seq(S) /\ Len(s \o t) = Len(s) + Len(t)
    /\ \A i \in 1 .. Len(s) + Len(t) :
         (s \o t)[i] = IF i <= Len(s) THEN s[i] ELSE t[i - Len(s)]
BY ConcatProperties

LEMMA WriteIs ==
  ASSUME NEW S, NEW mem \in Seq(S), NEW s \in Seq(S), NEW to \in Nat,
         to + Len(s) <= Len(mem)
  PROVE  /\ Write(mem, to, s) \in Seq(S)
         /\ Len(Write(mem, to, s)) = Len(mem)
         /\ \A i \in 1 .. Len(mem) :
              Write(mem, to, s)[i] =
                IF i <= to THEN mem[i]
                ELSE IF i <= to + Len(s) THEN s[i - to] ELSE mem[i]
<1> DEFINE a == SubSeq(mem, 1, to)
           c == SubSeq(mem, to + Len(s) + 1, Len(mem))
<1>1. Len(s) \in Nat /\ Len(mem) \in Nat /\ \A i \in 1 .. Len(mem) : mem[i] \in S
  BY LenProperties, ElementOfSeq
<1>2. a \in Seq(S) /\ Len(a) = to /\ \A i \in 1 .. to : a[i] = mem[i]
  <2>1. \A i \in 1 .. to : mem[i] \in S BY <1>1
  <2> QED BY <2>1, SubSeqProperties
<1>3. /\ c \in Seq(S) /\ Len(c) = Len(mem) - (to + Len(s))
      /\ \A i \in 1 .. Len(mem) - (to + Len(s)) : c[i] = mem[to + Len(s) + i]
  <2>1. \A i \in to + Len(s) + 1 .. Len(mem) : mem[i] \in S BY <1>1
  <2> DEFINE m == to + Len(s) + 1
             n == Len(mem)
  <2>2. m \in Int /\ n \in Int /\ m <= n + 1 BY <1>1
  <2>3. \A i \in m .. n : mem[i] \in S BY <2>1
  <2> HIDE DEF m, n
  <2>4. /\ SubSeq(mem, m, n) \in Seq(S)
        /\ Len(SubSeq(mem, m, n)) = IF m <= n THEN n - m + 1 ELSE 0
        /\ \A i \in 1 .. n - m + 1 : SubSeq(mem, m, n)[i] = mem[m + i - 1]
    BY <2>2, <2>3, SubSeqProperties
  <2> USE DEF m, n
  <2>5. Len(c) = Len(mem) - (to + Len(s)) BY <1>1, <2>4
  <2>6. \A i \in 1 .. Len(mem) - (to + Len(s)) :
          i \in 1 .. n - m + 1 /\ m + i - 1 = to + Len(s) + i
    BY <1>1
  <2> QED BY <2>4, <2>5, <2>6
<1> HIDE DEF a, c
<1>4. /\ a \o s \in Seq(S) /\ Len(a \o s) = to + Len(s)
      /\ \A i \in 1 .. to + Len(s) : (a \o s)[i] = IF i <= to THEN mem[i] ELSE s[i - to]
  <2>1. a \o s \in Seq(S) /\ Len(a \o s) = Len(a) + Len(s)
        /\ \A i \in 1 .. Len(a) + Len(s) :
             (a \o s)[i] = IF i <= Len(a) THEN a[i] ELSE s[i - Len(a)]
    BY <1>2, ConcatIs
  <2> QED BY <1>1, <1>2, <2>1
<1> DEFINE b == a \o s
<1> HIDE DEF b
<1>5. /\ b \o c \in Seq(S) /\ Len(b \o c) = Len(b) + Len(c)
      /\ \A i \in 1 .. Len(b) + Len(c) :
           (b \o c)[i] = IF i <= Len(b) THEN b[i] ELSE c[i - Len(b)]
  <2>1. b \in Seq(S) /\ c \in Seq(S) BY <1>3, <1>4 DEF b
  <2> QED BY <2>1, ConcatIs
<1>6. Len(b) = to + Len(s) /\ Len(b) + Len(c) = Len(mem)
  BY <1>1, <1>3, <1>4 DEF b
<1>7. Write(mem, to, s) = b \o c
  BY DEF Write, a, b, c
<1>8. \A i \in 1 .. Len(mem) :
        (b \o c)[i] = IF i <= to THEN mem[i]
                      ELSE IF i <= to + Len(s) THEN s[i - to] ELSE mem[i]
  <2> TAKE i \in 1 .. Len(mem)
  <2>1. CASE i <= to + Len(s) BY <1>1, <1>4, <1>5, <1>6, <2>1 DEF b
  <2>2. CASE ~ (i <= to + Len(s))
    <3>1. i - Len(b) \in 1 .. Len(mem) - (to + Len(s)) /\ to + Len(s) + (i - Len(b)) = i
      BY <1>1, <1>6, <2>2
    <3>2. (b \o c)[i] = c[i - Len(b)] BY <1>1, <1>5, <1>6, <2>2
    <3> QED BY <1>1, <1>3, <2>2, <3>1, <3>2
  <2> QED BY <2>1, <2>2
<1> QED BY <1>5, <1>6, <1>7, <1>8

LEMMA ReadIs ==
  ASSUME FileInv, NEW at \in Int, NEW n \in Nat, dataBufferOffset \in Nat,
         dataBufferOffset + at \in Nat, dataBufferOffset + at + n <= Len(file.cells)
  PROVE  /\ Read(at, n) \in Seq(StreamCells)
         /\ Len(Read(at, n)) = n
         /\ \A i \in 1 .. n : Read(at, n)[i] = file.cells[dataBufferOffset + at + i]
<1> DEFINE m == dataBufferOffset + at
<1>1. file.cells \in Seq(StreamCells) /\ Len(file.cells) \in Nat
  BY StreamIs, LenProperties
<1>2. m \in Nat /\ m + n <= Len(file.cells) OBVIOUS
<1>3. Read(at, n) = SubSeq(file.cells, m + 1, m + n)
  BY DEF Read
<1> HIDE DEF m
<1>4. \A i \in m + 1 .. m + n : file.cells[i] \in StreamCells
  BY <1>1, <1>2, ElementOfSeq
<1> DEFINE p == m + 1
           q == m + n
<1>5. p \in Int /\ q \in Int /\ q - p + 1 = n /\ (p <= q <=> n # 0)
  BY <1>2
<1>6. \A i \in p .. q : file.cells[i] \in StreamCells BY <1>4
<1> HIDE DEF p, q
<1>7. /\ SubSeq(file.cells, p, q) \in Seq(StreamCells)
      /\ Len(SubSeq(file.cells, p, q)) = IF p <= q THEN q - p + 1 ELSE 0
      /\ \A i \in 1 .. q - p + 1 : SubSeq(file.cells, p, q)[i] = file.cells[p + i - 1]
  BY <1>5, <1>6, SubSeqProperties
<1>8. \A i \in 1 .. n : p + i - 1 = m + i BY <1>2 DEF p
<1> QED BY <1>3, <1>5, <1>7, <1>8 DEF p, q, m

\* The buffer is a part of the stream; one that is too small for a header is
\* the last.
BufferInv ==
  /\ bufferSize \in Nat /\ bufferSize >= HeaderLength
  /\ bufferUsedSize \in Nat /\ bufferPosition \in 0 .. bufferUsedSize
  /\ dataBufferOffset \in Nat
  /\ dataBufferOffset + bufferUsedSize <= Len(file.cells)
  /\ parserPc = "read" => bufferUsedSize = 0
  /\ parserPc \in {"header", "data"} /\ bufferUsedSize < HeaderLength =>
       dataBufferOffset + bufferUsedSize = Len(file.cells)
  /\ parserPc = "header" => bufferUsedSize > 0
  /\ parserPc = "EOF_REACHED" =>
       bufferUsedSize = 0 /\ dataBufferOffset = Len(file.cells)

\* Before the stream's header is read, nothing else is.
StartInv ==
  /\ parserPc = "header" => header.verdict # "valid"
  /\ header.verdict # "valid" =>
       /\ parserPc # "data" /\ packetsList = << >>
       /\ parserPc \in {"read", "header"} =>
            /\ dataBufferOffset = 0 /\ bufferPosition = 0 /\ skipSize = 0
            /\ currPacketHeaderSize = 0 /\ current = NoPacket

Cell == StreamCells \cup {Junk}
Here == dataBufferOffset + bufferPosition

\* Between two packets: what is left to be skipped ends where packet k starts.
Between(k) ==
  /\ currPacketHeaderSize = 0 /\ current = NoPacket /\ skipSize \in Nat
  /\ Here + skipSize = Position(k)

\* The header of packet k began at the end of a buffer that is used up.
Split(k) ==
  /\ k \in 1 .. Count /\ skipSize = 0 /\ current = NoPacket
  /\ currPacketHeaderSize \in 1 .. HeaderLength - 1
  /\ bufferPosition \in {0, bufferUsedSize}
  /\ Here = Position(k) + currPacketHeaderSize
  /\ \A j \in 1 .. currPacketHeaderSize : currPacketHeader[j] = HeaderCell(k, j)

\* The data of packet k is being read.
Fills(k) ==
  /\ k \in Ours /\ skipSize = 0 /\ currPacketHeaderSize = HeaderLength
  /\ DOMAIN current = {"packet", "mem", "at", "left", "offset"}
  /\ current.packet = k
  /\ current.mem \in Seq(Cell) /\ Len(current.mem) = Len(Memory(k))
  /\ current.at \in Nat /\ current.left \in Nat \ {0}
  /\ current.at + current.left = DataSize(k)
  /\ Here = Position(k) + HeaderLength + current.at
  /\ \A i \in 1 .. Len(Memory(k)) :
       current.mem[i] = IF i <= current.at THEN file.wires[k].data[i] ELSE Junk
  /\ current.offset = IF file.network THEN 0 ELSE Position(k)

\* The last packet is lost: the rest of its header took the place of the start.
Lost(k) ==
  /\ k = Count /\ k \in 1 .. Count /\ skipSize = 0
  /\ currPacketHeaderSize \in 1 .. HeaderLength - 1
  /\ DataSize(k) < currPacketHeaderSize
  /\ Here = Len(file.cells)

Reads(k) == Between(k) \/ Split(k) \/ Fills(k) \/ Lost(k)

\* The packets of this source before the one that is next have been read.
ReadBefore(k) == ReadPackets = {j \in Ours : j < k}

ProgressInv ==
  /\ currPacketHeader \in Seq(Cell) /\ Len(currPacketHeader) = HeaderLength
  /\ header.verdict = "valid" /\ parserPc \in {"read", "data", "EOF_REACHED"} =>
       \E k \in 1 .. Count + 1 : ReadBefore(k) /\ Reads(k)

IsRestored(p) ==
  /\ p.offset = IF file.network THEN 0 ELSE Position(p.packet)
  /\ \/ p.mem = Memory(p.packet)
     \/ header.version = "version30" /\ PacketAt(p.packet).type = "frame"

ListInv ==
  /\ \E S : packetsList \in Seq(S)
  /\ \E k \in 1 .. Count + 1 : ReadBefore(k)
  /\ \A i, j \in DOMAIN packetsList :
       i < j => packetsList[i].packet < packetsList[j].packet
  /\ \A i \in DOMAIN packetsList : IsRestored(packetsList[i])
  /\ parserPc = "ERROR_DATA" => header.version = "version20"

ParserInv == FileInv /\ BufferInv /\ StartInv /\ ProgressInv /\ ListInv

LEMMA FileStays ==
  ASSUME FileInv, UNCHANGED file
  PROVE  /\ FileInv' /\ Count' = Count /\ StreamCells' = StreamCells /\ Cell' = Cell
         /\ Ours' = Ours
         /\ \A k : /\ Position(k)' = Position(k) /\ DataSize(k)' = DataSize(k)
                   /\ Memory(k)' = Memory(k) /\ PacketAt(k)' = PacketAt(k)
<1>1. \A k : /\ Position(k)' = Position(k) /\ DataSize(k)' = DataSize(k)
             /\ Memory(k)' = Memory(k) /\ PacketAt(k)' = PacketAt(k)
  BY DEF Position, DataSize, Memory, PacketAt
<1>2. Count' = Count /\ StreamCells' = StreamCells /\ Ours' = Ours
  BY DEF Count, StreamCells, ChunkOf, DataSize, Ours, PacketAt
<1>3. FileInv'
  BY DEF FileInv, Count, Wires, PacketsAreRestored, Memory, PacketAt, DataSize, Plain,
         Arrived
<1> QED BY <1>1, <1>2, <1>3 DEF Cell

LEMMA ListStays ==
  ASSUME FileInv, ListInv, UNCHANGED <<file, packetsList>>,
         UNCHANGED header \/ packetsList = << >>,
         parserPc' = "ERROR_DATA" => header'.version = "version20"
  PROVE  ListInv' /\ \A k : ReadBefore(k)' = ReadBefore(k)
<1>1. /\ Count' = Count /\ Ours' = Ours
      /\ \A k : /\ Position(k)' = Position(k) /\ Memory(k)' = Memory(k)
                /\ PacketAt(k)' = PacketAt(k)
  BY FileStays
<1>2. \A k : ReadBefore(k)' = ReadBefore(k)
  BY <1>1 DEF ReadBefore, ReadPackets
<1>3. \A i \in DOMAIN packetsList : IsRestored(packetsList[i])'
  <2>1. CASE UNCHANGED header
    BY <1>1, <2>1 DEF ListInv, IsRestored
  <2>2. CASE packetsList = << >>
    BY <2>2
  <2> QED BY <2>1, <2>2
<1> QED BY <1>1, <1>2, <1>3 DEF ListInv

LEMMA SizesOfBuffers ==
  /\ \A b \in BufferSizes : NewBuffer(b) \in Nat /\ NewBuffer(b) >= HeaderLength
  /\ HeaderLength \in Nat \ {0}
<1>1. \A a, b \in Nat : Max({a, b}) \in {a, b} /\ Max({a, b}) >= a /\ Max({a, b}) >= b
  <2> TAKE a, b \in Nat
  <2>1. \E x \in {a, b} : \A y \in {a, b} : x >= y OBVIOUS
  <2> QED BY <2>1 DEF Max
<1>2. ASSUME NEW b \in BufferSizes
      PROVE  NewBuffer(b) \in Nat /\ NewBuffer(b) >= HeaderLength
  <2>1. /\ b \in Nat /\ MinBuffer \in Nat /\ HeaderLength \in Nat
        /\ MinBuffer >= HeaderLength
    BY AedatReaderAssumption
  <2>2. NewBuffer(b) \in {b, MinBuffer} /\ NewBuffer(b) >= MinBuffer
    BY <1>1, <2>1 DEF NewBuffer
  <2> QED BY <2>1, <2>2
<1> QED BY <1>2, AedatReaderAssumption

LEMMA ParserInitially == ParserInit /\ PacketsAreRestored => ParserInv
<1> SUFFICES ASSUME ParserInit, PacketsAreRestored PROVE ParserInv
  OBVIOUS
<1> USE DEF ParserInit
<1>1. PICK f \in Files :
        LET wires == [k \in DOMAIN f.packets |-> Wire(f, k)] IN
        file = [network |-> f.network, lines |-> f.lines, format |-> f.format,
                packets |-> f.packets, wires |-> wires,
                cells |-> StreamOf(f.lines, wires)]
  OBVIOUS
<1>2. FileInv
  <2>1. Count \in Nat /\ DOMAIN file.packets = 1 .. Count
    BY <1>1, AedatReaderAssumption DEF Count
  <2>2. file.wires = [k \in 1 .. Count |-> Wire(f, k)]
    BY <1>1, <2>1
  <2>3. file.wires \in [1 .. Count -> Wires]
    BY <2>2 DEF Wires
  <2>4. file.wires \in Seq(Wires) /\ Len(file.wires) = Count
    <3> HIDE DEF ParserInit
    <3> QED BY <2>1, <2>3
  <2>5. file.cells = StreamOf(file.lines, file.wires)
    BY <1>1
  <2> QED BY <2>1, <2>4, <2>5 DEF FileInv
<1>3. BufferInv
  BY <1>2, SizesOfBuffers, StreamIs, LenProperties DEF BufferInv
<1>4. StartInv
  BY DEF StartInv, NoHeader
<1>5. ProgressInv
  <2>1. currPacketHeader \in [1 .. HeaderLength -> Cell]
    BY DEF Cell
  <2>2. currPacketHeader \in Seq(Cell) /\ Len(currPacketHeader) = HeaderLength
    <3>1. HeaderLength \in Nat BY SizesOfBuffers
    <3> HIDE DEF ParserInit
    <3> QED BY <2>1, <3>1
  <2> QED BY <2>2 DEF ProgressInv, NoHeader
<1>6. ListInv
  <2>1. 1 \in 1 .. Count + 1 BY <1>2 DEF FileInv
  <2>2. ReadBefore(1)
    BY <1>2 DEF ReadBefore, ReadPackets, Ours, FileInv
  <2> QED BY <2>1, <2>2 DEF ListInv
<1> QED BY <1>2, <1>3, <1>4, <1>5, <1>6 DEF ParserInv

LEMMA LesserIs == \A a, b \in Int : Min({a, b}) = IF a <= b THEN a ELSE b
<1> TAKE a, b \in Int
<1>1. \E x \in {a, b} : \A y \in {a, b} : x <= y OBVIOUS
<1> QED BY <1>1 DEF Min

\* Where the buffers meet.
LEMMA BuffersKeep ==
  ParserInv /\ (GetBuffer \/ ReadError \/ BufferEnds) => ParserInv'
<1> SUFFICES ASSUME ParserInv, GetBuffer \/ ReadError \/ BufferEnds
             PROVE  ParserInv'
  OBVIOUS
<1>1. FileInv /\ BufferInv /\ StartInv /\ ProgressInv /\ ListInv
  BY DEF ParserInv
<1>2. UNCHANGED <<file, header, packetsList, skipSize, currPacketHeader,
                  currPacketHeaderSize, current>>
  BY DEF GetBuffer, ReadError, BufferEnds, parser, buffer
<1>3. /\ FileInv' /\ Count' = Count /\ Cell' = Cell /\ Ours' = Ours
      /\ \A k : /\ Position(k)' = Position(k) /\ DataSize(k)' = DataSize(k)
                /\ Memory(k)' = Memory(k)
  BY <1>1, <1>2, FileStays
<1>4. ListInv' /\ \A k : ReadBefore(k)' = ReadBefore(k)
  <2>1. parserPc' # "ERROR_DATA"
    BY DEF GetBuffer, ReadError, BufferEnds
  <2> QED BY <1>1, <1>2, <2>1, ListStays
<1>5. Len(file.cells) \in Nat
  BY <1>1, StreamIs, LenProperties
<1>6. BufferInv'
  <2>1. CASE GetBuffer
    <3>1. PICK b \in BufferSizes :
            /\ bufferSize' = NewBuffer(b)
            /\ bufferUsedSize' = Min({bufferSize', Len(file.cells) - dataBufferOffset})
      BY <2>1 DEF GetBuffer
    <3>2. bufferSize' \in Nat /\ bufferSize' >= HeaderLength /\ HeaderLength \in Nat \ {0}
      BY <3>1, SizesOfBuffers
    <3>3. /\ dataBufferOffset \in Nat /\ dataBufferOffset <= Len(file.cells)
          /\ UNCHANGED <<dataBufferOffset, file>> /\ bufferPosition' = 0
          /\ parserPc' = IF bufferUsedSize' = 0 THEN "EOF_REACHED"
                         ELSE IF header.verdict = "valid" THEN "data" ELSE "header"
      BY <1>1, <1>5, <2>1 DEF GetBuffer, BufferInv
    <3>4. bufferUsedSize' = IF bufferSize' <= Len(file.cells) - dataBufferOffset
                              THEN bufferSize' ELSE Len(file.cells) - dataBufferOffset
      BY <1>5, <3>1, <3>2, <3>3, LesserIs
    <3>5. /\ (parserPc' = "EOF_REACHED") <=> (bufferUsedSize' = 0)
          /\ parserPc' # "read"
      BY <3>3
    <3> QED BY <1>5, <3>2, <3>3, <3>4, <3>5 DEF BufferInv
  <2>2. CASE ReadError
    BY <1>1, <2>2 DEF ReadError, BufferInv, buffer
  <2>3. CASE BufferEnds
    BY <1>1, <2>3, SizesOfBuffers DEF BufferEnds, BufferInv
  <2> QED BY <2>1, <2>2, <2>3
<1>7. StartInv'
  BY <1>1, <1>2 DEF StartInv, GetBuffer, ReadError, BufferEnds, BufferInv
<1>8. Here' = Here /\ (bufferPosition' = bufferUsedSize' \/ bufferPosition' = 0)
  <2>1. CASE GetBuffer \/ ReadError
    BY <1>1, <2>1 DEF GetBuffer, ReadError, buffer, Here, BufferInv
  <2>2. CASE BufferEnds
    BY <1>1, <2>2 DEF BufferEnds, Here, BufferInv
  <2> QED BY <2>1, <2>2
<1>9. ProgressInv'
  <2>1. ASSUME NEW k, Reads(k) PROVE Reads(k)'
    <3>1. Between(k) => Between(k)' BY <1>2, <1>3, <1>8 DEF Between
    <3>2. Split(k) => Split(k)' BY <1>2, <1>3, <1>8 DEF Split
    <3>3. Fills(k) => Fills(k)' BY <1>2, <1>3, <1>8 DEF Fills
    <3>4. Lost(k) => Lost(k)' BY <1>2, <1>3, <1>8 DEF Lost
    <3> QED BY <2>1, <3>1, <3>2, <3>3, <3>4 DEF Reads
  <2>2. header'.verdict = "valid" /\ parserPc' \in {"read", "data", "EOF_REACHED"} =>
          header.verdict = "valid" /\ parserPc \in {"read", "data"}
    BY <1>2 DEF GetBuffer, ReadError, BufferEnds
  <2> QED BY <1>1, <1>2, <1>3, <1>4, <2>1, <2>2 DEF ProgressInv
<1> QED BY <1>3, <1>4, <1>6, <1>7, <1>9 DEF ParserInv

LEMMA HeaderKeeps == ParserInv /\ (ParseHeader \/ Aedat2) => ParserInv'
<1> SUFFICES ASSUME ParserInv, ParseHeader \/ Aedat2 PROVE ParserInv'
  OBVIOUS
<1>1. FileInv /\ BufferInv /\ StartInv /\ ProgressInv /\ ListInv
  BY DEF ParserInv
<1>2. UNCHANGED <<file, packetsList, bufferSize, bufferUsedSize, dataBufferOffset,
                  skipSize, currPacketHeader, currPacketHeaderSize, current>>
  BY DEF ParseHeader, Aedat2, parser, buffer
<1>3. /\ FileInv' /\ Count' = Count /\ Cell' = Cell /\ Ours' = Ours
      /\ \A k : Position(k)' = Position(k)
  BY <1>1, <1>2, FileStays
<1>4. ListInv' /\ \A k : ReadBefore(k)' = ReadBefore(k)
  <2>1. UNCHANGED header \/ packetsList = << >>
    BY <1>1 DEF ParseHeader, Aedat2, StartInv, Parsing
  <2>2. parserPc' = "ERROR_DATA" => header'.version = "version20"
    BY DEF ParseHeader, Aedat2, IsAedat3
  <2> QED BY <1>1, <1>2, <2>1, <2>2, ListStays
<1>5. BufferInv'
  BY <1>1, <1>2, <1>3 DEF BufferInv, ParseHeader, Aedat2, buffer
<1>6. StartInv'
  BY <1>1, <1>2 DEF StartInv, ParseHeader, Aedat2, Parsing
<1>7. ProgressInv'
  <2>1. CASE ParseHeader
    <3>1. header'.verdict = "valid" /\ parserPc' \in {"read", "data", "EOF_REACHED"} =>
            ReadBefore(1) /\ Between(1)'
      <4>1. /\ packetsList = << >> /\ dataBufferOffset = 0 /\ skipSize = 0
            /\ currPacketHeaderSize = 0 /\ current = NoPacket
        BY <1>1, <2>1 DEF StartInv, ParseHeader
      <4>2. ReadBefore(1)
        BY <1>1, <4>1 DEF ReadBefore, ReadPackets, Ours, FileInv
      <4>3. Position(1) = 1 BY <1>1, StreamIs
      <4>4. bufferPosition' = 1 BY <2>1 DEF ParseHeader
      <4> QED BY <1>2, <1>3, <4>1, <4>2, <4>3, <4>4 DEF Between, Here, NoPacket
    <3>2. 1 \in 1 .. Count + 1 BY <1>1 DEF FileInv
    <3> QED BY <1>1, <1>2, <1>3, <1>4, <3>1, <3>2 DEF ProgressInv, Reads
  <2>2. CASE Aedat2
    BY <1>1, <1>2, <1>3, <2>2 DEF Aedat2, ProgressInv
  <2> QED BY <2>1, <2>2
<1> QED BY <1>3, <1>4, <1>5, <1>6, <1>7 DEF ParserInv

\* What holds when a packet is looked for in the buffer.
LEMMA ParsingIs ==
  ASSUME ParserInv, Parsing
  PROVE  /\ header.verdict = "valid" /\ parserPc = "data"
         /\ HeaderLength \in Nat \ {0} /\ Count \in Nat /\ Len(file.cells) \in Nat
         /\ \E k \in 1 .. Count + 1 : /\ ReadBefore(k)
                                      /\ \/ Between(k)
                                         \/ Split(k) /\ bufferPosition = 0
                                         \/ Fills(k)
<1>1. header.verdict = "valid" /\ parserPc = "data"
  BY DEF ParserInv, StartInv, Parsing
<1>2. HeaderLength \in Nat \ {0} /\ Count \in Nat /\ Len(file.cells) \in Nat
  BY SizesOfBuffers, StreamIs, LenProperties DEF ParserInv, FileInv
<1>3. PICK k \in 1 .. Count + 1 : ReadBefore(k) /\ Reads(k)
  BY <1>1 DEF ParserInv, ProgressInv
<1>4. Here < Len(file.cells) /\ bufferPosition # bufferUsedSize
  BY <1>2 DEF ParserInv, BufferInv, Parsing, Here
<1>5. ~ Lost(k)
  BY <1>2, <1>4 DEF Lost
<1>6. Split(k) => bufferPosition = 0
  BY <1>4 DEF Split
<1> QED BY <1>1, <1>2, <1>3, <1>5, <1>6 DEF Reads

\* A header that is completed is that of the packet which is next.
LEMMA HeaderIs ==
  ASSUME ParserInv, CompleteHeader
  PROVE  /\ FullHeader \in Seq(Cell) /\ Len(FullHeader) = HeaderLength
         /\ At \in Nat /\ Missing \in Nat /\ At + Missing \in 1 .. bufferUsedSize
         /\ \E k \in 1 .. Count : /\ ReadBefore(k) /\ PacketOf(FullHeader) = k
                                  /\ dataBufferOffset + At + Missing = Position(k) + HeaderLength
<1>1. FileInv /\ BufferInv /\ Parsing /\ Left > 0 /\ NeedHeader /\ Left >= HeaderLength
  BY DEF ParserInv, CompleteHeader
<1>2. /\ header.verdict = "valid" /\ parserPc = "data"
      /\ HeaderLength \in Nat \ {0} /\ Count \in Nat /\ Len(file.cells) \in Nat
  BY <1>1, ParsingIs
<1>3. PICK k \in 1 .. Count + 1 : /\ ReadBefore(k)
                                  /\ \/ Between(k)
                                     \/ Split(k) /\ bufferPosition = 0
                                     \/ Fills(k)
  BY <1>1, ParsingIs
<1>4. ~ Fills(k)
  BY <1>1 DEF Fills, NeedHeader
<1>5. /\ bufferUsedSize \in Nat /\ bufferPosition \in Nat /\ dataBufferOffset \in Nat
      /\ dataBufferOffset + bufferUsedSize <= Len(file.cells)
  BY <1>1 DEF BufferInv
<1>6. currPacketHeader \in Seq(Cell) /\ Len(currPacketHeader) = HeaderLength
  BY DEF ParserInv, ProgressInv
<1>7. Position(Count + 1) = Len(file.cells) /\ \A j \in 1 .. Count + 1 : Position(j) \in Nat
  BY <1>1, <1>2, StreamIs
<1>8. /\ currPacketHeaderSize \in 0 .. HeaderLength - 1 /\ skipSize \in Nat
      /\ dataBufferOffset + At = Position(k) + currPacketHeaderSize
      /\ k \in 1 .. Count
      /\ \A j \in 1 .. currPacketHeaderSize : currPacketHeader[j] = HeaderCell(k, j)
  <2>1. CASE Between(k)
    <3>1. currPacketHeaderSize = 0 /\ skipSize \in Nat /\ dataBufferOffset + At = Position(k)
      BY <1>5, <2>1 DEF Between, Here, At
    <3>2. Position(k) # Len(file.cells)
      BY <1>1, <1>2, <1>5, <3>1 DEF Left, At
    <3>3. k # Count + 1 BY <1>7, <3>2
    <3>4. k \in 1 .. Count BY <1>2, <3>3
    <3> QED BY <1>2, <1>7, <3>1, <3>4
  <2>2. CASE Split(k) /\ bufferPosition = 0
    BY <1>2, <1>5, <2>2 DEF Split, Here, At
  <2> QED BY <1>3, <1>4, <2>1, <2>2
<1>9. /\ Missing \in 1 .. HeaderLength /\ At \in Nat /\ At + Missing <= bufferUsedSize
      /\ currPacketHeaderSize + Missing = HeaderLength
  BY <1>1, <1>2, <1>5, <1>8 DEF Missing, At, Left
<1>10. /\ Read(At, Missing) \in Seq(StreamCells) /\ Len(Read(At, Missing)) = Missing
       /\ \A i \in 1 .. Missing :
            Read(At, Missing)[i] = file.cells[dataBufferOffset + At + i]
  <2>1. /\ At \in Int /\ Missing \in Nat /\ dataBufferOffset \in Nat
        /\ dataBufferOffset + At \in Nat
        /\ dataBufferOffset + At + Missing <= Len(file.cells)
    BY <1>2, <1>5, <1>9
  <2> QED BY <1>1, <2>1, ReadIs
<1>11. Read(At, Missing) \in Seq(Cell)
  BY <1>10, SeqMonotonic DEF Cell
<1>12. /\ FullHeader \in Seq(Cell) /\ Len(FullHeader) = HeaderLength
       /\ \A i \in 1 .. HeaderLength :
            FullHeader[i] =
              IF i <= currPacketHeaderSize THEN currPacketHeader[i]
              ELSE IF i <= currPacketHeaderSize + Missing
                     THEN Read(At, Missing)[i - currPacketHeaderSize]
              ELSE currPacketHeader[i]
  <2>1. currPacketHeaderSize \in Nat BY <1>2, <1>8
  <2>2. currPacketHeaderSize + Len(Read(At, Missing)) <= Len(currPacketHeader)
    BY <1>2, <1>6, <1>9, <1>10
  <2> QED BY <1>6, <1>10, <1>11, <2>1, <2>2, WriteIs DEF FullHeader
<1>13. FullHeader[1] = HeaderCell(k, 1)
  <2>1. CASE currPacketHeaderSize = 0
    <3>1. FullHeader[1] = Read(At, Missing)[1]
      BY <1>2, <1>9, <1>12, <2>1
    <3>2. Read(At, Missing)[1] = file.cells[Position(k) + 1]
      BY <1>2, <1>7, <1>8, <1>9, <1>10, <2>1
    <3>3. 1 \in 1 .. HeaderLength + DataSize(k) /\ 1 <= HeaderLength
      BY <1>1, <1>2, <1>8, SizesAreNatural
    <3>4. file.cells[Position(k) + 1] = HeaderCell(k, 1)
      BY <1>1, <1>8, <3>3, StreamIs
    <3> QED BY <3>1, <3>2, <3>4
  <2>2. CASE currPacketHeaderSize # 0
    BY <1>2, <1>8, <1>12, <2>2
  <2> QED BY <2>1, <2>2
<1>14. PacketOf(FullHeader) = k
  BY <1>13 DEF PacketOf, HeaderCell
<1>15. dataBufferOffset + At + Missing = Position(k) + HeaderLength
  <2>1. Position(k) \in Nat BY <1>7
  <2> QED BY <1>2, <1>5, <1>8, <1>9, <2>1
<1> QED BY <1>2, <1>3, <1>5, <1>8, <1>9, <1>12, <1>14, <1>15

\* What a step of parsing leaves alone.
LEMMA ParsingStays ==
  ASSUME ParserInv, Parsing, UNCHANGED <<file, header, packetsList>>,
         UNCHANGED <<bufferSize, bufferUsedSize, dataBufferOffset, parserPc>>,
         bufferPosition' \in 0 .. bufferUsedSize
  PROVE  /\ FileInv' /\ ListInv' /\ BufferInv' /\ StartInv'
         /\ \A k : ReadBefore(k)' = ReadBefore(k)
<1>1. FileInv /\ ListInv /\ BufferInv /\ StartInv
  BY DEF ParserInv
<1>2. FileInv'
  BY <1>1, FileStays
<1>3. ListInv' /\ \A k : ReadBefore(k)' = ReadBefore(k)
  <2>1. parserPc' # "ERROR_DATA" BY DEF Parsing
  <2> QED BY <1>1, <2>1, ListStays
<1>4. BufferInv'
  BY <1>1 DEF BufferInv
<1>5. StartInv'
  BY <1>1, ParsingIs DEF StartInv
<1> QED BY <1>2, <1>3, <1>4, <1>5

LEMMA SkipBufferKeeps == ParserInv /\ SkipBuffer => ParserInv'
<1> SUFFICES ASSUME ParserInv, SkipBuffer PROVE ParserInv'
  OBVIOUS
<1>1. FileInv /\ BufferInv /\ ProgressInv /\ Parsing
  BY DEF ParserInv, SkipBuffer
<1>2. /\ UNCHANGED <<file, header, packetsList>>
      /\ UNCHANGED <<bufferSize, bufferUsedSize, dataBufferOffset, parserPc>>
      /\ UNCHANGED <<currPacketHeader, currPacketHeaderSize, current>>
      /\ skipSize # 0 /\ skipSize >= bufferUsedSize - bufferPosition
      /\ skipSize' = skipSize - (bufferUsedSize - bufferPosition)
      /\ bufferPosition' = bufferUsedSize
  BY DEF SkipBuffer
<1>3. /\ bufferUsedSize \in Nat /\ bufferPosition \in 0 .. bufferUsedSize
      /\ dataBufferOffset \in Nat
  BY <1>1 DEF BufferInv
<1>4. /\ FileInv' /\ ListInv' /\ BufferInv' /\ StartInv'
      /\ \A k : ReadBefore(k)' = ReadBefore(k)
  <2>1. bufferPosition' \in 0 .. bufferUsedSize BY <1>2, <1>3
  <2> QED BY <1>1, <1>2, <2>1, ParsingStays
<1>5. Count' = Count /\ Cell' = Cell /\ \A k : Position(k)' = Position(k)
  BY <1>1, <1>2, FileStays
<1>6. PICK k \in 1 .. Count + 1 : ReadBefore(k) /\ Between(k)
  BY <1>1, <1>2, ParsingIs DEF Split, Fills
<1>7. Between(k)'
  <2>1. skipSize \in Nat /\ Position(k) = dataBufferOffset + bufferPosition + skipSize
    BY <1>6 DEF Between, Here
  <2>2. skipSize' \in Nat /\ dataBufferOffset + bufferUsedSize + skipSize' = Position(k)
    BY <1>2, <1>3, <2>1
  <2> QED BY <1>2, <1>5, <1>6, <2>2 DEF Between, Here, NoPacket
<1>8. ProgressInv'
  BY <1>1, <1>2, <1>4, <1>5, <1>6, <1>7 DEF ProgressInv, Reads
<1> QED BY <1>4, <1>8 DEF ParserInv

LEMMA SkipPacketKeeps == ParserInv /\ SkipPacket => ParserInv'
<1> SUFFICES ASSUME ParserInv, SkipPacket PROVE ParserInv'
  OBVIOUS
<1>1. FileInv /\ BufferInv /\ ProgressInv /\ Parsing /\ CompleteHeader
  BY DEF ParserInv, SkipPacket, CompleteHeader
<1>2. /\ UNCHANGED <<file, header, packetsList>>
      /\ UNCHANGED <<bufferSize, bufferUsedSize, dataBufferOffset, parserPc>>
      /\ UNCHANGED current /\ currPacketHeader' = FullHeader
      /\ PacketAt(PacketOf(FullHeader)).source # "ours"
      /\ skipSize' = DataSize(PacketOf(FullHeader))
      /\ currPacketHeaderSize' = 0 /\ bufferPosition' = At + Missing
  BY DEF SkipPacket, CompleteHeader
<1>3. /\ FullHeader \in Seq(Cell) /\ Len(FullHeader) = HeaderLength
      /\ At \in Nat /\ Missing \in Nat /\ At + Missing \in 1 .. bufferUsedSize
  BY <1>1, HeaderIs
<1>4. PICK k \in 1 .. Count : /\ ReadBefore(k) /\ PacketOf(FullHeader) = k
                              /\ dataBufferOffset + At + Missing = Position(k) + HeaderLength
  BY <1>1, HeaderIs
<1>5. /\ bufferUsedSize \in Nat /\ dataBufferOffset \in Nat /\ Count \in Nat
      /\ DataSize(k) \in Nat /\ HeaderLength \in Nat
  BY <1>1, SizesAreNatural DEF BufferInv, FileInv
<1>6. /\ FileInv' /\ ListInv' /\ BufferInv' /\ StartInv'
      /\ \A j : ReadBefore(j)' = ReadBefore(j)
  <2>1. bufferPosition' \in 0 .. bufferUsedSize BY <1>2, <1>3, <1>5
  <2> QED BY <1>1, <1>2, <2>1, ParsingStays
<1>7. Count' = Count /\ Cell' = Cell /\ \A j : Position(j)' = Position(j)
  BY <1>1, <1>2, FileStays
<1>8. ReadBefore(k + 1)
  <2>1. k \notin Ours BY <1>2, <1>4 DEF Ours
  <2>2. \A j \in Ours : j \in Nat BY <1>1 DEF Ours, FileInv
  <2>3. {j \in Ours : j < k} = {j \in Ours : j < k + 1} BY <1>5, <2>1, <2>2
  <2> QED BY <1>4, <2>3 DEF ReadBefore
<1>9. current = NoPacket
  <2>1. \E j \in 1 .. Count + 1 : Between(j) \/ Split(j) \/ Fills(j)
    BY <1>1, ParsingIs
  <2>2. \A j : ~ Fills(j) BY <1>1 DEF CompleteHeader, NeedHeader, Fills
  <2> QED BY <2>1, <2>2 DEF Between, Split
<1>10. Between(k + 1)'
  <2>1. Position(k + 1) = Position(k) + HeaderLength + DataSize(k)
        /\ Position(k) \in Nat
    BY <1>1, <1>4, <1>5, StreamIs
  <2>2. Here' + skipSize' = Position(k + 1)
    BY <1>2, <1>3, <1>4, <1>5, <2>1 DEF Here
  <2> QED BY <1>2, <1>4, <1>5, <1>7, <1>9, <2>2 DEF Between, NoPacket
<1>11. ProgressInv'
  <2>1. k + 1 \in 1 .. Count + 1 BY <1>5
  <2> QED BY <1>2, <1>3, <1>6, <1>7, <1>8, <1>10, <2>1 DEF ProgressInv, Reads
<1> QED BY <1>6, <1>11 DEF ParserInv

LEMMA SplitHeaderKeeps == ParserInv /\ SplitHeader => ParserInv'
<1> SUFFICES ASSUME ParserInv, SplitHeader PROVE ParserInv'
  OBVIOUS
<1>1. FileInv /\ BufferInv /\ ProgressInv /\ Parsing
  BY DEF ParserInv, SplitHeader
<1>2. /\ UNCHANGED <<file, header, packetsList>>
      /\ UNCHANGED <<bufferSize, bufferUsedSize, dataBufferOffset, parserPc>>
      /\ UNCHANGED current
      /\ Left > 0 /\ NeedHeader /\ Left < HeaderLength
      /\ currPacketHeader' = Write(currPacketHeader, 0, Read(At, Left))
      /\ currPacketHeaderSize' = Left /\ skipSize' = 0
      /\ bufferPosition' = bufferUsedSize
  BY DEF SplitHeader
<1>3. /\ header.verdict = "valid" /\ parserPc = "data"
      /\ HeaderLength \in Nat \ {0} /\ Count \in Nat /\ Len(file.cells) \in Nat
      /\ bufferUsedSize \in Nat /\ bufferPosition \in 0 .. bufferUsedSize
      /\ dataBufferOffset \in Nat
      /\ dataBufferOffset + bufferUsedSize <= Len(file.cells)
      /\ bufferUsedSize < HeaderLength =>
           dataBufferOffset + bufferUsedSize = Len(file.cells)
      /\ currPacketHeader \in Seq(Cell) /\ Len(currPacketHeader) = HeaderLength
  BY <1>1, ParsingIs DEF BufferInv, ProgressInv
<1>4. /\ FileInv' /\ ListInv' /\ BufferInv' /\ StartInv'
      /\ \A j : ReadBefore(j)' = ReadBefore(j)
  <2>1. bufferPosition' \in 0 .. bufferUsedSize BY <1>2, <1>3
  <2> QED BY <1>1, <1>2, <2>1, ParsingStays
<1>5. /\ Count' = Count /\ Cell' = Cell
      /\ \A j : Position(j)' = Position(j) /\ DataSize(j)' = DataSize(j)
  BY <1>1, <1>2, FileStays
<1>6. PICK k \in 1 .. Count + 1 : /\ ReadBefore(k)
                                  /\ \/ Between(k)
                                     \/ Split(k) /\ bufferPosition = 0
                                     \/ Fills(k)
  BY <1>1, ParsingIs
<1>7. skipSize \in Nat /\ ~ Fills(k) /\ current = NoPacket
  BY <1>2, <1>6 DEF Between, Split, Fills, NeedHeader
<1>8. At \in Nat /\ Left \in 1 .. HeaderLength - 1 /\ At + Left = bufferUsedSize
  <2>1. At \in Nat /\ Left \in Int /\ At + Left = bufferUsedSize
    BY <1>3, <1>7 DEF At, Left
  <2> QED BY <1>2, <1>3, <2>1
<1>9. /\ Read(At, Left) \in Seq(StreamCells) /\ Len(Read(At, Left)) = Left
      /\ \A i \in 1 .. Left : Read(At, Left)[i] = file.cells[dataBufferOffset + At + i]
  <2>1. /\ At \in Int /\ Left \in Nat /\ dataBufferOffset \in Nat
        /\ dataBufferOffset + At \in Nat
        /\ dataBufferOffset + At + Left <= Len(file.cells)
    BY <1>3, <1>8
  <2> QED BY <1>1, <2>1, ReadIs
<1>10. /\ currPacketHeader' \in Seq(Cell) /\ Len(currPacketHeader') = HeaderLength
       /\ \A i \in 1 .. Left : currPacketHeader'[i] = Read(At, Left)[i]
  <2>1. Read(At, Left) \in Seq(Cell)
    BY <1>9, SeqMonotonic DEF Cell
  <2>2. 0 \in Nat /\ 0 + Len(Read(At, Left)) <= Len(currPacketHeader)
    BY <1>3, <1>8, <1>9
  <2> DEFINE w == Write(currPacketHeader, 0, Read(At, Left))
  <2>3. /\ w \in Seq(Cell) /\ Len(w) = Len(currPacketHeader)
        /\ \A i \in 1 .. Len(currPacketHeader) :
             w[i] = IF i <= 0 THEN currPacketHeader[i]
                    ELSE IF i <= 0 + Len(Read(At, Left)) THEN Read(At, Left)[i - 0]
                    ELSE currPacketHeader[i]
    BY <1>3, <2>1, <2>2, WriteIs
  <2> HIDE DEF w
  <2>4. \A i \in 1 .. Left : w[i] = Read(At, Left)[i]
    BY <1>3, <1>8, <1>9, <2>3
  <2> QED BY <1>2, <1>3, <2>3, <2>4 DEF w
<1>11. /\ Position(k) \in Nat /\ Position(Count + 1) = Len(file.cells)
       /\ k \in 1 .. Count =>
            /\ Position(k + 1) = Position(k) + HeaderLength + DataSize(k)
            /\ DataSize(k) \in Nat
  BY <1>1, <1>3, StreamIs, SizesAreNatural
<1>12. CASE Between(k)
  <2>1. dataBufferOffset + At = Position(k)
    BY <1>3, <1>7, <1>12 DEF Between, Here, At
  <2>2. k \in 1 .. Count
    <3>1. Position(k) # Len(file.cells) BY <1>3, <1>8, <2>1
    <3> QED BY <1>3, <1>11, <3>1
  <2>3. \A i \in 1 .. Left : currPacketHeader'[i] = HeaderCell(k, i)
    <3> TAKE i \in 1 .. Left
    <3>1. i \in 1 .. HeaderLength + DataSize(k) /\ i <= HeaderLength
      BY <1>3, <1>8, <1>11, <2>2
    <3>2. file.cells[Position(k) + i] = HeaderCell(k, i)
      BY <1>1, <2>2, <3>1, StreamIs
    <3> QED BY <1>9, <1>10, <2>1, <3>2
  <2>4. Here' = Position(k) + Left
    BY <1>2, <1>3, <1>8, <2>1 DEF Here
  <2>5. Split(k)'
    BY <1>2, <1>5, <1>7, <1>8, <2>2, <2>3, <2>4 DEF Split, NoPacket, HeaderCell
  <2>6. ProgressInv'
    BY <1>4, <1>5, <1>6, <1>10, <2>5 DEF ProgressInv, Reads
  <2> QED BY <1>4, <2>6 DEF ParserInv
<1>13. CASE Split(k) /\ bufferPosition = 0
  <2>1. /\ k \in 1 .. Count /\ skipSize = 0 /\ bufferPosition = 0
        /\ currPacketHeaderSize \in 1 .. HeaderLength - 1
        /\ dataBufferOffset = Position(k) + currPacketHeaderSize
    BY <1>3, <1>13 DEF Split, Here
  <2>2. Left = bufferUsedSize /\ dataBufferOffset + Left = Len(file.cells)
    <3>1. Left = bufferUsedSize BY <1>3, <2>1 DEF Left, At
    <3> QED BY <1>3, <1>8, <3>1
  <2>3. k = Count
    <3>1. SUFFICES ASSUME k # Count PROVE FALSE
      OBVIOUS
    <3>2. k + 1 \in 1 .. Count /\ (k + 1) + 1 \in 1 .. Count + 1
      BY <1>3, <2>1, <3>1
    <3>3. /\ Position((k + 1) + 1) = Position(k + 1) + HeaderLength + DataSize(k + 1)
          /\ DataSize(k + 1) \in Nat /\ Position((k + 1) + 1) <= Len(file.cells)
      BY <1>1, <3>2, StreamIs, SizesAreNatural
    <3> QED BY <1>3, <1>8, <1>11, <2>1, <2>2, <3>3
  <2>4. DataSize(k) \in Nat /\ DataSize(k) < Left
    <3>1. Len(file.cells) = Position(k) + HeaderLength + DataSize(k) BY <1>11, <2>1, <2>3
    <3> QED BY <1>3, <1>8, <1>11, <2>1, <2>2, <3>1
  <2>5. Here' = Len(file.cells)'
    BY <1>2, <1>3, <2>2 DEF Here
  <2>6. Lost(k)'
    BY <1>2, <1>5, <1>8, <2>1, <2>3, <2>4, <2>5 DEF Lost
  <2>7. ProgressInv'
    BY <1>4, <1>5, <1>6, <1>10, <2>6 DEF ProgressInv, Reads
  <2> QED BY <1>4, <2>7 DEF ParserInv
<1> QED BY <1>6, <1>7, <1>12, <1>13

\* The packet that the data at hand belongs to.
LEMMA FillingIs ==
  ASSUME ParserInv, Continues \/ Opens
  PROVE  /\ Parsing /\ DataAt \in 1 .. bufferUsedSize \cup {0}
         /\ currPacketHeader' \in Seq(Cell) /\ Len(currPacketHeader') = HeaderLength
         /\ DOMAIN Filling = {"packet", "mem", "at", "left", "offset"}
         /\ \E k \in Ours :
              /\ ReadBefore(k) /\ Filling.packet = k
              /\ Filling.mem \in Seq(Cell) /\ Len(Filling.mem) = Len(Memory(k))
              /\ Filling.at \in Nat /\ Filling.left \in Nat
              /\ Filling.at + Filling.left = DataSize(k)
              /\ dataBufferOffset + DataAt = Position(k) + HeaderLength + Filling.at
              /\ \A i \in 1 .. Len(Memory(k)) :
                   Filling.mem[i] =
                     IF i <= Filling.at THEN file.wires[k].data[i] ELSE Junk
              /\ Filling.offset = IF file.network THEN 0 ELSE Position(k)
<1>1. FileInv /\ BufferInv /\ ProgressInv /\ Parsing
  BY DEF ParserInv, Continues, Opens, CompleteHeader
<1>2. /\ HeaderLength \in Nat \ {0} /\ Count \in Nat
      /\ bufferUsedSize \in Nat /\ bufferPosition \in 0 .. bufferUsedSize
      /\ dataBufferOffset \in Nat
  BY <1>1, ParsingIs DEF BufferInv
<1>3. CASE Continues
  <2>1. ~ NeedHeader /\ Left > 0 /\ UNCHANGED currPacketHeader
    BY <1>3 DEF Continues
  <2>2. PICK k \in 1 .. Count + 1 : ReadBefore(k) /\ Fills(k)
    <3>1. \A j : ~ Between(j) /\ ~ Split(j)
      BY <1>2, <2>1 DEF NeedHeader, Between, Split
    <3> QED BY <1>1, <3>1, ParsingIs
  <2>3. Filling = current /\ DataAt = At
    BY <2>1 DEF Filling, DataAt
  <2>4. skipSize = 0 /\ At = bufferPosition
    BY <1>2, <2>2 DEF Fills, At
  <2>5. dataBufferOffset + DataAt = Position(k) + HeaderLength + current.at
    BY <2>2, <2>3, <2>4 DEF Fills, Here
  <2> QED BY <1>1, <1>2, <2>1, <2>2, <2>3, <2>4, <2>5 DEF Fills, ProgressInv
<1>4. CASE Opens
  <2>1. /\ CompleteHeader /\ NeedHeader /\ currPacketHeader' = FullHeader
        /\ PacketAt(PacketOf(FullHeader)).source = "ours"
    BY <1>4 DEF Opens, CompleteHeader
  <2>2. /\ FullHeader \in Seq(Cell) /\ Len(FullHeader) = HeaderLength
        /\ At \in Nat /\ Missing \in Nat /\ At + Missing \in 1 .. bufferUsedSize
    BY <2>1, HeaderIs
  <2>3. PICK k \in 1 .. Count : /\ ReadBefore(k) /\ PacketOf(FullHeader) = k
                                /\ dataBufferOffset + At + Missing = Position(k) + HeaderLength
    BY <2>1, HeaderIs
  <2>4. Filling = Opened(k, DataAt) /\ DataAt = At + Missing
    BY <2>1, <2>3 DEF Filling, DataAt
  <2>5. k \in Ours
    BY <1>1, <2>1, <2>3 DEF Ours, FileInv
  <2>6. /\ DataSize(k) \in Nat /\ Len(Memory(k)) \in Nat /\ Position(k) \in Nat
    BY <1>1, <1>2, <2>3, SizesAreNatural, StreamIs
  <2>7. /\ Filling.packet = k /\ Filling.at = 0 /\ Filling.left = DataSize(k)
        /\ Filling.mem = [i \in 1 .. Len(Memory(k)) |-> Junk]
        /\ Filling.offset = IF file.network THEN 0
                            ELSE dataBufferOffset + DataAt - HeaderLength
        /\ DOMAIN Filling = {"packet", "mem", "at", "left", "offset"}
    BY <2>4 DEF Opened
  <2>8. Filling.mem \in Seq(Cell) /\ Len(Filling.mem) = Len(Memory(k))
    <3>1. Filling.mem \in [1 .. Len(Memory(k)) -> Cell] BY <2>7 DEF Cell
    <3> QED BY <2>6, <3>1
  <2>9. dataBufferOffset + DataAt = Position(k) + HeaderLength
    BY <1>2, <2>2, <2>3, <2>4
  <2>10. dataBufferOffset + DataAt - HeaderLength = Position(k)
    <3>1. DataAt \in Nat BY <2>2, <2>4
    <3> QED BY <1>2, <2>6, <2>9, <3>1
  <2>11. \A i \in 1 .. Len(Memory(k)) :
           Filling.mem[i] = IF i <= Filling.at THEN file.wires[k].data[i] ELSE Junk
    BY <2>6, <2>7
  <2>12. /\ Filling.at \in Nat /\ Filling.left \in Nat
         /\ Filling.at + Filling.left = DataSize(k)
         /\ dataBufferOffset + DataAt = Position(k) + HeaderLength + Filling.at
    BY <1>2, <2>6, <2>7, <2>9
  <2>13. Filling.offset = IF file.network THEN 0 ELSE Position(k)
    BY <2>7, <2>10
  <2>14. currPacketHeader' \in Seq(Cell) /\ Len(currPacketHeader') = HeaderLength
    BY <2>1, <2>2
  <2>15. DataAt \in 1 .. bufferUsedSize \cup {0}
    BY <2>2, <2>4
  <2> QED BY <1>1, <2>3, <2>5, <2>7, <2>8, <2>11, <2>12, <2>13, <2>14, <2>15
<1> QED BY <1>3, <1>4

\* The memory of packet k, the first at cells of its data read into it.
Holds(k, mem, at) ==
  /\ mem \in Seq(Cell) /\ Len(mem) = Len(Memory(k))
  /\ \A i \in 1 .. Len(Memory(k)) :
       mem[i] = IF i <= at THEN file.wires[k].data[i] ELSE Junk

\* The next cells of a packet's data, read into its memory.
LEMMA DataIsRead ==
  ASSUME FileInv, BufferInv, NEW k \in 1 .. Count, NEW mem, NEW at \in Nat,
         Holds(k, mem, at), NEW n \in Nat, NEW pos \in Nat,
         at + n <= DataSize(k), pos + n <= bufferUsedSize,
         dataBufferOffset + pos = Position(k) + HeaderLength + at
  PROVE  Holds(k, Write(mem, at, Read(pos, n)), at + n)
<1>0. /\ mem \in Seq(Cell) /\ Len(mem) = Len(Memory(k))
      /\ \A i \in 1 .. Len(Memory(k)) :
           mem[i] = IF i <= at THEN file.wires[k].data[i] ELSE Junk
  BY DEF Holds
<1>1. /\ DataSize(k) \in Nat /\ Len(Memory(k)) \in Nat /\ DataSize(k) <= Len(Memory(k))
      /\ HeaderLength \in Nat /\ dataBufferOffset \in Nat
      /\ dataBufferOffset + bufferUsedSize <= Len(file.cells)
      /\ bufferUsedSize \in Nat /\ Len(file.cells) \in Nat /\ Count \in Nat
  BY SizesAreNatural, StreamIs, LenProperties DEF BufferInv, FileInv
<1>2. Position(k) \in Nat
  BY <1>1, StreamIs
<1> DEFINE r == Read(pos, n)
<1>3. /\ r \in Seq(StreamCells) /\ Len(r) = n
      /\ \A i \in 1 .. n : r[i] = file.cells[dataBufferOffset + pos + i]
  <2>1. /\ pos \in Int /\ dataBufferOffset \in Nat /\ dataBufferOffset + pos \in Nat
        /\ dataBufferOffset + pos + n <= Len(file.cells)
    BY <1>1
  <2> QED BY <2>1, ReadIs
<1> HIDE DEF r
<1>4. \A i \in 1 .. n : r[i] = file.wires[k].data[at + i]
  <2> TAKE i \in 1 .. n
  <2> DEFINE j == HeaderLength + at + i
  <2>1. /\ j \in 1 .. HeaderLength + DataSize(k) /\ ~ (j <= HeaderLength)
        /\ j - HeaderLength = at + i
    BY <1>1
  <2>3. dataBufferOffset + pos + i = Position(k) + j
    <3>1. dataBufferOffset \in Nat /\ HeaderLength \in Nat /\ i \in Nat BY <1>1
    <3>2. dataBufferOffset + pos + i = (Position(k) + HeaderLength + at) + i OBVIOUS
    <3> QED BY <1>2, <3>1, <3>2
  <2> HIDE DEF j
  <2>2. file.cells[Position(k) + j] = file.wires[k].data[j - HeaderLength]
    BY <2>1, StreamIs
  <2> QED BY <1>3, <2>1, <2>2, <2>3
<1>5. r \in Seq(Cell)
  BY <1>3, SeqMonotonic DEF Cell
<1>6. at + Len(r) <= Len(mem)
  BY <1>0, <1>1, <1>3
<1> DEFINE w == Write(mem, at, r)
<1>7. /\ w \in Seq(Cell) /\ Len(w) = Len(mem)
      /\ \A i \in 1 .. Len(mem) :
           w[i] = IF i <= at THEN mem[i]
                  ELSE IF i <= at + Len(r) THEN r[i - at] ELSE mem[i]
  BY <1>0, <1>5, <1>6, WriteIs
<1> HIDE DEF w
<1>8. \A i \in 1 .. Len(Memory(k)) :
        w[i] = IF i <= at + n THEN file.wires[k].data[i] ELSE Junk
  <2> TAKE i \in 1 .. Len(Memory(k))
  <2>1. CASE i <= at
    BY <1>0, <1>1, <1>7, <2>1
  <2>2. CASE ~ (i <= at) /\ i <= at + n
    <3>1. w[i] = r[i - at] BY <1>0, <1>3, <1>7, <2>2
    <3>2. i - at \in 1 .. n /\ at + (i - at) = i BY <1>1, <2>2
    <3>3. r[i - at] = file.wires[k].data[at + (i - at)] BY <1>4, <3>2
    <3> QED BY <2>2, <3>1, <3>2, <3>3
  <2>3. CASE ~ (i <= at) /\ ~ (i <= at + n)
    BY <1>0, <1>1, <1>3, <1>7, <2>3
  <2> QED BY <2>1, <2>2, <2>3
<1>9. Holds(k, w, at + n) BY <1>0, <1>7, <1>8 DEF Holds
<1> QED BY <1>9 DEF w, r

LEMMA MoreDataKeeps == ParserInv /\ MoreData => ParserInv'
<1> SUFFICES ASSUME ParserInv, MoreData PROVE ParserInv'
  OBVIOUS
<1> DEFINE n == bufferUsedSize - DataAt
           w == Write(Filling.mem, Filling.at, Read(DataAt, n))
<1>1. FileInv /\ BufferInv /\ (Continues \/ Opens)
  BY DEF ParserInv, MoreData
<1>2. /\ UNCHANGED <<file, header, packetsList>>
      /\ UNCHANGED <<bufferSize, bufferUsedSize, dataBufferOffset, parserPc>>
      /\ Filling.left > n
      /\ current' = [Filling EXCEPT !.mem = w, !.at = @ + n, !.left = @ - n]
      /\ currPacketHeaderSize' = HeaderLength
      /\ bufferPosition' = bufferUsedSize /\ skipSize' = 0
  BY DEF MoreData, NeedsMore
<1>3. /\ Parsing /\ DataAt \in 1 .. bufferUsedSize \cup {0}
      /\ currPacketHeader' \in Seq(Cell) /\ Len(currPacketHeader') = HeaderLength
      /\ DOMAIN Filling = {"packet", "mem", "at", "left", "offset"}
  BY <1>1, FillingIs
<1>4. PICK k \in Ours :
        /\ ReadBefore(k) /\ Filling.packet = k
        /\ Filling.mem \in Seq(Cell) /\ Len(Filling.mem) = Len(Memory(k))
        /\ Filling.at \in Nat /\ Filling.left \in Nat
        /\ Filling.at + Filling.left = DataSize(k)
        /\ dataBufferOffset + DataAt = Position(k) + HeaderLength + Filling.at
        /\ \A i \in 1 .. Len(Memory(k)) :
             Filling.mem[i] = IF i <= Filling.at THEN file.wires[k].data[i] ELSE Junk
        /\ Filling.offset = IF file.network THEN 0 ELSE Position(k)
  BY <1>1, FillingIs
<1>5. /\ bufferUsedSize \in Nat /\ dataBufferOffset \in Nat /\ Count \in Nat
      /\ k \in 1 .. Count /\ DataAt \in Nat /\ n \in Nat /\ DataAt + n = bufferUsedSize
      /\ HeaderLength \in Nat
  <2>1. bufferUsedSize \in Nat /\ dataBufferOffset \in Nat /\ Count \in Nat
        /\ k \in 1 .. Count /\ HeaderLength \in Nat
    BY <1>1, SizesOfBuffers DEF BufferInv, FileInv, Ours
  <2> QED BY <1>3, <2>1
<1>6. /\ FileInv' /\ ListInv' /\ BufferInv' /\ StartInv'
      /\ \A j : ReadBefore(j)' = ReadBefore(j)
  <2>1. bufferPosition' \in 0 .. bufferUsedSize BY <1>2, <1>5
  <2> QED BY <1>2, <1>3, <2>1, ParsingStays
<1>7. /\ Count' = Count /\ Cell' = Cell /\ Ours' = Ours
      /\ \A j : /\ Position(j)' = Position(j) /\ DataSize(j)' = DataSize(j)
                /\ Memory(j)' = Memory(j)
  BY <1>1, <1>2, FileStays
<1> HIDE DEF n
<1>8. Holds(k, w, Filling.at + n)
  <2>1. Holds(k, Filling.mem, Filling.at) BY <1>4 DEF Holds
  <2>2. Filling.at + n <= DataSize(k) /\ DataAt + n <= bufferUsedSize
    BY <1>2, <1>4, <1>5
  <2>3. /\ Filling.at \in Nat
        /\ dataBufferOffset + DataAt = Position(k) + HeaderLength + Filling.at
    BY <1>4
  <2> QED BY <1>1, <1>5, <2>1, <2>2, <2>3, DataIsRead
<1> HIDE DEF w
<1>9. /\ current'.packet = k /\ current'.mem = w /\ current'.at = Filling.at + n
      /\ current'.left = Filling.left - n /\ current'.offset = Filling.offset
      /\ DOMAIN current' = {"packet", "mem", "at", "left", "offset"}
  BY <1>2, <1>3, <1>4
<1>10. /\ current'.at \in Nat /\ current'.left \in Nat \ {0}
       /\ current'.at + current'.left = DataSize(k)
  BY <1>2, <1>4, <1>5, <1>9
<1>11. Here' = Position(k) + HeaderLength + current'.at
  <2>1. Position(k) \in Nat BY <1>1, <1>5, StreamIs
  <2>2. Here' = dataBufferOffset + DataAt + n BY <1>2, <1>5 DEF Here
  <2>3. (Position(k) + HeaderLength + Filling.at) + n
          = Position(k) + HeaderLength + (Filling.at + n)
    BY <1>4, <1>5, <2>1
  <2> QED BY <1>4, <1>9, <2>2, <2>3
<1>12. Fills(k)'
  BY <1>2, <1>4, <1>7, <1>8, <1>9, <1>10, <1>11 DEF Fills, Holds, Junk
<1>13. ProgressInv'
  <2>1. k \in 1 .. Count + 1 BY <1>5
  <2> QED BY <1>2, <1>3, <1>4, <1>6, <1>7, <1>12, <2>1 DEF ProgressInv, Reads
<1> QED BY <1>6, <1>13 DEF ParserInv

LEMMA LastDataKeeps == ParserInv /\ LastData => ParserInv'
<1> SUFFICES ASSUME ParserInv, LastData PROVE ParserInv'
  OBVIOUS
<1> DEFINE w == Write(Filling.mem, Filling.at, Read(DataAt, Filling.left))
<1>1. FileInv /\ BufferInv /\ StartInv /\ ListInv /\ (Continues \/ Opens)
  BY DEF ParserInv, LastData
<1>2. /\ UNCHANGED <<file, header, bufferSize, bufferUsedSize, dataBufferOffset>>
      /\ ~ (Filling.left > bufferUsedSize - DataAt)
      /\ current' = NoPacket /\ currPacketHeaderSize' = 0 /\ skipSize' = 0
      /\ bufferPosition' = DataAt + Filling.left
  BY DEF LastData, NeedsMore
<1>3. /\ Parsing /\ DataAt \in 1 .. bufferUsedSize \cup {0}
      /\ currPacketHeader' \in Seq(Cell) /\ Len(currPacketHeader') = HeaderLength
  BY <1>1, FillingIs
<1>4. PICK k \in Ours :
        /\ ReadBefore(k) /\ Filling.packet = k
        /\ Filling.mem \in Seq(Cell) /\ Len(Filling.mem) = Len(Memory(k))
        /\ Filling.at \in Nat /\ Filling.left \in Nat
        /\ Filling.at + Filling.left = DataSize(k)
        /\ dataBufferOffset + DataAt = Position(k) + HeaderLength + Filling.at
        /\ \A i \in 1 .. Len(Memory(k)) :
             Filling.mem[i] = IF i <= Filling.at THEN file.wires[k].data[i] ELSE Junk
        /\ Filling.offset = IF file.network THEN 0 ELSE Position(k)
  BY <1>1, FillingIs
<1>5. /\ bufferUsedSize \in Nat /\ dataBufferOffset \in Nat /\ Count \in Nat
      /\ k \in 1 .. Count /\ DataAt \in Nat /\ HeaderLength \in Nat
      /\ DataAt + Filling.left <= bufferUsedSize
      /\ DataSize(k) \in Nat /\ Len(Memory(k)) \in Nat /\ Position(k) \in Nat
  <2>1. bufferUsedSize \in Nat /\ dataBufferOffset \in Nat /\ Count \in Nat
        /\ k \in 1 .. Count /\ HeaderLength \in Nat
    BY <1>1, SizesOfBuffers DEF BufferInv, FileInv, Ours
  <2>2. DataSize(k) \in Nat /\ Len(Memory(k)) \in Nat /\ Position(k) \in Nat
    BY <1>1, <2>1, SizesAreNatural, StreamIs
  <2> QED BY <1>2, <1>3, <1>4, <2>1, <2>2
<1>6. /\ FileInv' /\ Count' = Count /\ Cell' = Cell /\ Ours' = Ours
      /\ \A j : /\ Position(j)' = Position(j) /\ Memory(j)' = Memory(j)
                /\ PacketAt(j)' = PacketAt(j)
  BY <1>1, <1>2, FileStays
<1>7. w = Arrived(k)
  <2>1. /\ w \in Seq(Cell) /\ Len(w) = Len(Memory(k))
        /\ \A i \in 1 .. Len(Memory(k)) :
             w[i] = IF i <= DataSize(k) THEN file.wires[k].data[i] ELSE Junk
    <3>1. Holds(k, Filling.mem, Filling.at) BY <1>4 DEF Holds
    <3>2. /\ Filling.at \in Nat /\ Filling.left \in Nat
          /\ Filling.at + Filling.left <= DataSize(k)
          /\ dataBufferOffset + DataAt = Position(k) + HeaderLength + Filling.at
      BY <1>4, <1>5
    <3>3. Holds(k, w, Filling.at + Filling.left)
      BY <1>1, <1>5, <3>1, <3>2, DataIsRead
    <3>4. Filling.at + Filling.left = DataSize(k) BY <1>4
    <3> HIDE DEF w
    <3> QED BY <3>3, <3>4 DEF Holds
  <2>2. \A i \in 1 .. Len(Memory(k)) : Arrived(k)[i] = w[i]
    BY <2>1 DEF Arrived
  <2>3. Arrived(k) \in [1 .. Len(Memory(k)) -> Cell]
    <3>1. \A i \in 1 .. Len(Memory(k)) : w[i] \in Cell
      BY <2>1, ElementOfSeq
    <3>2. Arrived(k) = [i \in 1 .. Len(Memory(k)) |->
                          IF i <= DataSize(k) THEN file.wires[k].data[i] ELSE Junk]
      BY DEF Arrived
    <3> QED BY <2>2, <3>1, <3>2
  <2>4. Arrived(k) \in Seq(Cell) /\ Len(Arrived(k)) = Len(Memory(k))
    BY <1>5, <2>3
  <2> HIDE DEF w
  <2> QED BY <2>1, <2>2, <2>4, SeqEqual
<1>8. PICK exit \in IF Plain(k, Arrived(k)).ok THEN MayExit(k) ELSE {FALSE} :
        /\ parserPc' = CASE exit -> "exit"
                         [] ~ exit /\ ~ Plain(k, Arrived(k)).ok -> "ERROR_DATA"
                         [] OTHER -> "data"
        /\ packetsList' =
             IF exit \/ ~ Plain(k, Arrived(k)).ok THEN packetsList
             ELSE Append(packetsList,
                    [packet |-> k, offset |-> Filling.offset,
                     mem |-> Turned(k, Plain(k, Arrived(k)).mem)])
  <2>1. \E exit \in IF Plain(Filling.packet, w).ok THEN MayExit(Filling.packet) ELSE {FALSE} :
          /\ parserPc' = CASE exit -> "exit"
                           [] ~ exit /\ ~ Plain(Filling.packet, w).ok -> "ERROR_DATA"
                           [] OTHER -> "data"
          /\ packetsList' =
               IF exit \/ ~ Plain(Filling.packet, w).ok THEN packetsList
               ELSE Append(packetsList,
                      [packet |-> Filling.packet, offset |-> Filling.offset,
                       mem |-> Turned(Filling.packet, Plain(Filling.packet, w).mem)])
    <3>1. PICK f \in {Filling} :
            \E all \in {Write(f.mem, f.at, Read(DataAt, f.left))} :
            \E plain \in {Plain(f.packet, all)} :
            \E out \in IF plain.ok THEN MayExit(f.packet) ELSE {FALSE} :
              /\ parserPc' = CASE out -> "exit"
                               [] ~ out /\ ~ plain.ok -> "ERROR_DATA"
                               [] OTHER -> "data"
              /\ packetsList' =
                   IF out \/ ~ plain.ok THEN packetsList
                   ELSE Append(packetsList,
                          [packet |-> f.packet, offset |-> f.offset,
                           mem |-> Turned(f.packet, plain.mem)])
      BY Zenon DEF LastData
    <3>2. PICK all \in {w} :
            \E plain \in {Plain(Filling.packet, all)} :
            \E out \in IF plain.ok THEN MayExit(Filling.packet) ELSE {FALSE} :
              /\ parserPc' = CASE out -> "exit"
                               [] ~ out /\ ~ plain.ok -> "ERROR_DATA"
                               [] OTHER -> "data"
              /\ packetsList' =
                   IF out \/ ~ plain.ok THEN packetsList
                   ELSE Append(packetsList,
                          [packet |-> Filling.packet, offset |-> Filling.offset,
                           mem |-> Turned(Filling.packet, plain.mem)])
      <4>1. f = Filling OBVIOUS
      <4> QED BY <3>1, <4>1, Zenon
    <3> HIDE DEF w
    <3>3. all = w OBVIOUS
    <3> QED BY <3>2, <3>3, Zenon
  <2> HIDE DEF w
  <2> QED BY <1>4, <1>7, <2>1
<1>9. Plain(k, Arrived(k)).ok = TRUE /\ Plain(k, Arrived(k)).mem = Memory(k)
  <2>1. DOMAIN file.packets = 1 .. Count BY <1>1 DEF FileInv
  <2>2. Plain(k, Arrived(k)) = [ok |-> TRUE, mem |-> Memory(k)]
    BY <1>1, <1>5, <2>1 DEF FileInv, PacketsAreRestored
  <2> QED BY <2>2
<1>10. BufferInv'
  <2>1. bufferPosition' \in 0 .. bufferUsedSize BY <1>2, <1>4, <1>5
  <2>2. parserPc = "data" BY <1>3 DEF Parsing
  <2>3. parserPc' \in {"exit", "data"} BY <1>8, <1>9
  <2> QED BY <1>1, <1>2, <2>1, <2>2, <2>3 DEF BufferInv
<1>11. header.verdict = "valid"
  BY <1>3, ParsingIs
<1>12. StartInv'
  <2>1. parserPc' \in {"exit", "data"} BY <1>8, <1>9
  <2> QED BY <1>2, <1>11, <2>1 DEF StartInv
<1>13. CASE exit
  <2>1. parserPc' = "exit" /\ packetsList' = packetsList
    BY <1>8, <1>9, <1>13
  <2>2. ListInv'
    BY <1>1, <1>2, <2>1, ListStays
  <2>3. ProgressInv'
    BY <1>3, <1>6, <2>1 DEF ProgressInv
  <2> QED BY <1>6, <1>10, <1>12, <2>2, <2>3 DEF ParserInv
<1>14. CASE ~ exit
  <2> DEFINE p == [packet |-> k, offset |-> Filling.offset, mem |-> Turned(k, Memory(k))]
  <2>1. parserPc' = "data" /\ packetsList' = Append(packetsList, p)
    BY <1>8, <1>9, <1>14
  <2>2. p.packet = k /\ IsRestored(p)
    BY <1>4 DEF IsRestored, Turned
  <2> HIDE DEF p
  <2>3. PICK S : packetsList \in Seq(S)
    BY <1>1 DEF ListInv
  <2>4. /\ packetsList' \in Seq(S \cup {p}) /\ Len(packetsList) \in Nat
        /\ DOMAIN packetsList = 1 .. Len(packetsList)
        /\ DOMAIN packetsList' = 1 .. Len(packetsList) + 1
        /\ \A i \in 1 .. Len(packetsList) : packetsList'[i] = packetsList[i]
        /\ packetsList'[Len(packetsList) + 1] = p
    <3>1. packetsList \in Seq(S \cup {p}) BY <2>3, SeqMonotonic
    <3> QED BY <2>1, <3>1, AppendProperties, LenProperties
  <2>5. ReadPackets' = ReadPackets \cup {k}
    BY <2>2, <2>4 DEF ReadPackets
  <2>6. k + 1 \in 1 .. Count + 1 /\ ReadBefore(k + 1)'
    <3>1. \A j \in Ours : j \in Nat BY <1>1 DEF Ours, FileInv
    <3>2. {j \in Ours : j < k + 1} = {j \in Ours : j < k} \cup {k}
      <4>1. \A j \in Ours : (j < k + 1) <=> (j < k \/ j = k) BY <1>5, <3>1
      <4> QED BY <4>1
    <3>3. k + 1 \in 1 .. Count + 1 BY <1>5
    <3>4. ReadPackets' = {j \in Ours : j < k + 1} BY <1>4, <2>5, <3>2 DEF ReadBefore
    <3> QED BY <1>6, <3>3, <3>4 DEF ReadBefore
  <2>7. Between(k + 1)'
    <3>1. Position(k + 1) = Position(k) + HeaderLength + DataSize(k)
      BY <1>1, <1>5, StreamIs
    <3>2. Here' = Position(k + 1)
      <4>1. Here' = dataBufferOffset + DataAt + Filling.left
        BY <1>2, <1>4, <1>5 DEF Here
      <4> QED BY <1>4, <1>5, <3>1, <4>1
    <3>3. Here' + 0 = Position(k + 1) BY <1>5, <3>1, <3>2
    <3> QED BY <1>2, <1>6, <3>3 DEF Between, NoPacket
  <2>8. ProgressInv'
    BY <1>2, <1>3, <1>6, <2>1, <2>6, <2>7 DEF ProgressInv, Reads
  <2>9. (\A i \in DOMAIN packetsList : IsRestored(packetsList[i]))'
    <3>1. \A i \in DOMAIN packetsList : IsRestored(packetsList[i])
      BY <1>1 DEF ListInv
    <3>2. \A i \in DOMAIN packetsList' : IsRestored(packetsList'[i])
      BY <2>2, <2>4, <3>1
    <3> QED BY <1>2, <1>6, <3>2 DEF IsRestored
  <2>10. \A i, j \in DOMAIN packetsList' :
           i < j => packetsList'[i].packet < packetsList'[j].packet
    <3>1. \A i \in DOMAIN packetsList : packetsList[i].packet < k
      BY <1>4 DEF ReadBefore, ReadPackets
    <3>2. \A i, j \in DOMAIN packetsList :
            i < j => packetsList[i].packet < packetsList[j].packet
      BY <1>1 DEF ListInv
    <3> QED BY <2>2, <2>4, <3>1, <3>2
  <2>11. ListInv'
    <3>1. \E T : packetsList' \in Seq(T) BY <2>4
    <3>2. \E j \in (1 .. Count + 1)' : ReadBefore(j)' BY <1>6, <2>6
    <3>3. parserPc' # "ERROR_DATA" BY <2>1
    <3> QED BY <2>9, <2>10, <3>1, <3>2, <3>3 DEF ListInv
  <2> QED BY <1>6, <1>10, <1>12, <2>8, <2>11 DEF ParserInv
<1> QED BY <1>13, <1>14

LEMMA ParserKeeps == ParserInv /\ [ParserNext]_parserVars => ParserInv'
<1> SUFFICES ASSUME ParserInv, [ParserNext]_parserVars PROVE ParserInv'
  OBVIOUS
<1>1. CASE UNCHANGED parserVars
  <2>1. UNCHANGED <<parserPc, file, header, bufferSize, bufferUsedSize, bufferPosition,
                    dataBufferOffset, skipSize, currPacketHeader, currPacketHeaderSize,
                    current, packetsList>>
    BY <1>1 DEF parserVars, buffer, parser
  <2>2. FileInv /\ BufferInv /\ StartInv /\ ProgressInv /\ ListInv
    BY DEF ParserInv
  <2>3. /\ FileInv' /\ Count' = Count /\ Cell' = Cell /\ Ours' = Ours
        /\ \A k : /\ Position(k)' = Position(k) /\ DataSize(k)' = DataSize(k)
                  /\ Memory(k)' = Memory(k)
    BY <2>1, <2>2, FileStays
  <2>4. ListInv' /\ \A k : ReadBefore(k)' = ReadBefore(k)
    BY <2>1, <2>2, ListStays DEF ListInv
  <2>5. BufferInv' /\ StartInv'
    BY <2>1, <2>2 DEF BufferInv, StartInv
  <2>6. ASSUME NEW k, Reads(k) PROVE Reads(k)'
    BY <2>1, <2>3, <2>6 DEF Reads, Between, Split, Fills, Lost, Here
  <2>7. ProgressInv'
    BY <2>1, <2>2, <2>3, <2>4, <2>6 DEF ProgressInv
  <2> QED BY <2>3, <2>4, <2>5, <2>7 DEF ParserInv
<1>2. CASE ParserNext
  BY <1>1, <1>2, BuffersKeep, HeaderKeeps, SkipBufferKeeps, SplitHeaderKeeps,
     SkipPacketKeeps, MoreDataKeeps, LastDataKeeps DEF ParserNext, Done
<1> QED BY <1>1, <1>2

\* Reassembly, from the codec's promise: every place the reader is ever in is one
\* between two packets, in a header that is split, in a packet's data, or behind a
\* packet that is lost, for any stream, buffers and size of a header.
THEOREM ParserInvariance == ParserSpec /\ PacketsAreRestored => []ParserInv
BY ParserInitially, ParserKeeps, PTL DEF ParserSpec

\* If the codec restores the packets of the stream, then the packets that are read are
\* those of this source, whole, from the first on and in order, each with its place in
\* the file (input_common.c:645-826).
THEOREM ReadsWhatIsWritten ==
  ParserSpec /\ PacketsAreRestored => []PacketsReadAreWritten
<1>1. ParserInv => PacketsReadAreWritten
  <2> SUFFICES ASSUME ParserInv PROVE PacketsReadAreWritten
    OBVIOUS
  <2>1. ListInv BY DEF ParserInv
  <2>2. PICK k \in 1 .. Count + 1 : ReadBefore(k)
    BY <2>1 DEF ListInv
  <2>3. \A j \in Ours : j \in Nat
    BY DEF Ours, FileInv, ParserInv
  <2>4. k \in Int
    BY DEF FileInv, ParserInv
  <2>5. /\ ReadPackets \subseteq Ours
        /\ \A r \in ReadPackets, j \in Ours : j < r => j \in ReadPackets
    BY <2>2, <2>3, <2>4 DEF ReadBefore
  <2>6. PacketsAreRestored
    BY DEF ParserInv, FileInv
  <2> QED BY <2>1, <2>5, <2>6 DEF PacketsReadAreWritten, ListInv, IsRestored
<1> QED BY <1>1, ParserInvariance, PTL

\* At the end of the file no packet of this source is missing but the last of the stream,
\* if its header was split and less than a header was left for the last buffer
\* (input_common.c:668).
THEOREM LosesOnlyAShortTail ==
  ParserSpec /\ PacketsAreRestored => []OnlyAShortTailIsLost
<1>1. ParserInv => OnlyAShortTailIsLost
  <2> SUFFICES ASSUME ParserInv, parserPc = "EOF_REACHED", header.verdict = "valid",
                      NEW j \in Ours \ ReadPackets
               PROVE  /\ j = Len(file.packets)
                      /\ currPacketHeaderSize \in 1 .. HeaderLength - 1
                      /\ DataSize(j) < currPacketHeaderSize
    BY DEF OnlyAShortTailIsLost
  <2>1. PICK k \in 1 .. Count + 1 : ReadBefore(k) /\ Reads(k)
    BY DEF ParserInv, ProgressInv
  <2>2. /\ FileInv /\ Count \in Nat /\ HeaderLength \in Nat \ {0}
        /\ j \in 1 .. Count /\ Len(file.cells) \in Nat
    BY SizesOfBuffers, StreamIs, LenProperties DEF ParserInv, FileInv, Ours
  <2>3. k <= j
    BY <2>1, <2>2 DEF ReadBefore
  <2>4. k \in 1 .. Count
    BY <2>2, <2>3
  <2>5. Here = Len(file.cells)
    BY <2>2 DEF ParserInv, BufferInv, Here
  <2>6. /\ Position(k) + HeaderLength + DataSize(k) <= Len(file.cells)
        /\ Position(k) \in Nat /\ DataSize(k) \in Nat
    <3>1. Position(k + 1) = Position(k) + HeaderLength + DataSize(k)
          /\ Position(k + 1) <= Len(file.cells) /\ Position(k) \in Nat
      <4>1. k + 1 \in 1 .. Count + 1 /\ k \in 1 .. Count + 1 BY <2>2, <2>4
      <4> QED BY <2>2, <2>4, <4>1, StreamIs
    <3> QED BY <2>2, <2>4, <3>1, SizesAreNatural
  <2>7. ~ Split(k) /\ ~ Fills(k)
    BY <2>2, <2>5, <2>6 DEF Split, Fills
  <2>8. ~ Between(k)
    BY <2>2, <2>5, <2>6 DEF Between
  <2>9. Lost(k)
    BY <2>1, <2>7, <2>8 DEF Reads
  <2>10. j = k
    BY <2>2, <2>3, <2>9 DEF Lost
  <2> QED BY <2>9, <2>10 DEF Lost, Count
<1> QED BY <1>1, ParserInvariance, PTL
=============================================================================
