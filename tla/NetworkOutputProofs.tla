------------------------ MODULE NetworkOutputProofs ------------------------
(***************************************************************************)
(* What TLAPS proves about NetworkOutput: a buffer that clients share is   *)
(* never freed while one of them still has to write it, and a client with  *)
(* room in its queue misses a packet only for a slow client in a slot      *)
(* before it; for any connections and slots, any length of ring-buffer and *)
(* queues, and any number of packets.                                      *)
(***************************************************************************)
EXTENDS NetworkOutput, FiniteSetTheorems, SequenceTheorems,
        WellFoundedInduction, TLAPS

-----------------------------------------------------------------------------
(* The inductive invariant.                                                *)

Buffers == {OwnBuffer} \cup Packets
Used == {s \in SlotsOf(mode) : clients[s] # None}
Writers(p) == {c \in Connections : p \in Range(queue[c])}

\* Packets the Output thread has taken, or thrown away.
Holding == IF compressor = "holds" THEN 1 ELSE 0
Taken == produced - Len(ring) - Holding

TypeInv ==
  /\ mode \in {"server", "client", "udp"}
  /\ compressor \in {"idle", "holds", "ended"}
  /\ ring \in Seq(Packets)
  /\ produced \in 0 .. MaxPackets
  /\ loop \in {"waitSource", "run", "drain", "closing", "ended", "skipped"}
  /\ server \in BOOLEAN
  /\ handle \in [Connections -> {"none", "connecting", "open", "closing"}]
  /\ clients \in [SlotsOf(mode) -> Connections \cup {None}]
  /\ queue \in [Connections -> Seq(Buffers)]
  /\ refs \in [Packets -> Int]
  /\ fullSlots \subseteq SlotsOf(mode) /\ missed \subseteq Connections

Before == {"waitSource", "run", "drain"}   \* the shutdown

\* A client is listed once, is connected, and is counted.
ClientsInv ==
  /\ \A s, t \in SlotsOf(mode) :
       clients[s] = clients[t] /\ clients[s] # None => s = t
  /\ active = Cardinality(Used)
  /\ loop \in Before =>
       \A s \in SlotsOf(mode) :
         clients[s] # None => handle[clients[s]] = "open"
  /\ server => mode = "server"
  /\ loop = "closing" => ~server
  /\ mode = "udp" => clients[1] \in {Only, None}
  /\ \A c \in Connections : handle[c] = "connecting" =>
       mode = "client" /\ c = Only /\ clients[1] = None

\* Packets are taken in the order of their numbers; none is in a queue twice,
\* or before it was taken.
NumbersInv ==
  /\ Taken >= 0
  /\ \A i \in 1 .. Len(ring) : ring[i] = Taken + i
  /\ \A c \in Connections : \A i \in 1 .. Len(queue[c]) : queue[c][i] <= Taken
  /\ \A c \in Connections : \A i, j \in 1 .. Len(queue[c]) :
       queue[c][i] = queue[c][j] /\ queue[c][i] # OwnBuffer => i = j

\* As long as the loop may go on, a handle that is not in use has nothing to
\* write and has missed nothing.
HandlesInv ==
  loop \in Before \cup {"closing"} =>
    \A c \in Connections : handle[c] \in {"none", "connecting"} =>
      queue[c] = <<>> /\ c \notin missed

\* A client is shut down only once the loop is.
ShuttingInv == loop \in Before => shutting = {}

\* What else there is to the types.
PlainInv ==
  /\ mode \in Modes
  /\ mainPc \in {"on", "exit", "off", "undefined", "aborted"}
  /\ sourceKnown \in BOOLEAN /\ running \in BOOLEAN /\ told \in BOOLEAN
  /\ Len(ring) <= RingSize
  /\ \A p \in Packets : refs[p] <= Slots
  /\ shutting \subseteq Connections /\ gone \subseteq Connections

IInv ==
  /\ TypeInv /\ ClientsInv /\ NumbersInv /\ HandlesInv
  /\ ReferencesMatchWrites /\ SlowClientsHarmLaterSlots
-----------------------------------------------------------------------------
(* Numbers, sequences and sets.                                            *)

\* Of the initial segments that end before a member, a smallest one ends
\* before the least member.
LEMMA LeastNatural ==
  ASSUME NEW S, S \subseteq Nat, S # {}
  PROVE  \E x \in S : \A y \in S : x <= y
<1> DEFINE Segments == {0 .. n - 1 : n \in S}
<1>1. \A n \in S : 0 .. n - 1 \in SUBSET Nat /\ IsFiniteSet(0 .. n - 1)
  BY FS_Interval
<1>2. Segments \subseteq FiniteSubsetsOf(Nat) /\ Segments # {}
  BY <1>1 DEF FiniteSubsetsOf
<1>3. PICK X \in Segments : \A Y \in Segments :
        <<Y, X>> \notin StrictSubsetOrdering(Nat)
  <2> HIDE DEF Segments
  <2> QED BY <1>2, FS_StrictSubsetOrderingWellFounded, WFMin
<1>4. PICK x \in S : X = 0 .. x - 1
  OBVIOUS
<1>5. ASSUME NEW y \in S PROVE x <= y
  <2> SUFFICES ASSUME y < x PROVE FALSE
    OBVIOUS
  <2> DEFINE Y == 0 .. y - 1
  <2>1. Y \in Segments OBVIOUS
  <2>2. y \in X /\ y \notin Y BY <1>4
  <2>3. Y \subseteq X /\ X \subseteq Nat
    <3>1. x \in Nat /\ y \in Nat OBVIOUS
    <3> HIDE DEF Segments
    <3> QED BY <1>4, <3>1
  <2>4. <<Y, X>> \in (SUBSET Nat) \X (SUBSET Nat) BY <2>3
  <2>5. <<Y, X>> \in StrictSubsetOrdering(Nat)
    <3> HIDE DEF Y
    <3> QED BY <2>2, <2>3, <2>4 DEF StrictSubsetOrdering
  <2> QED BY <1>3, <2>1, <2>5
<1> QED BY <1>5

LEMMA RangeOfTail ==
  ASSUME NEW S, NEW s \in Seq(S), s # <<>>
  PROVE  \A x : x \in Range(s) <=> x = Head(s) \/ x \in Range(Tail(s))
<1>1. /\ Tail(s) \in Seq(S) /\ Len(Tail(s)) = Len(s) - 1
      /\ \A i \in 1 .. Len(Tail(s)) : Tail(s)[i] = s[i + 1]
  BY HeadTailProperties
<1>2. Len(s) \in Nat \ {0} /\ Head(s) = s[1] /\ 1 \in 1 .. Len(s)
  OBVIOUS
<1>3. /\ Range(s) = {s[i] : i \in 1 .. Len(s)}
      /\ Range(Tail(s)) = {Tail(s)[i] : i \in 1 .. Len(Tail(s))}
  BY <1>1, RangeEquality
<1> SUFFICES ASSUME NEW x
             PROVE  x \in Range(s) <=> x = Head(s) \/ x \in Range(Tail(s))
  OBVIOUS
<1>4. ASSUME x \in Range(s), x # Head(s) PROVE x \in Range(Tail(s))
  <2>1. PICK i \in 1 .. Len(s) : x = s[i]
    BY <1>3, <1>4
  <2>2. i - 1 \in 1 .. Len(Tail(s)) /\ (i - 1) + 1 = i
    BY <2>1, <1>1, <1>2, <1>4
  <2>3. Tail(s)[i - 1] = x
    BY <2>1, <2>2, <1>1
  <2> QED BY <2>2, <2>3, <1>3
<1>5. ASSUME x \in Range(Tail(s)) PROVE x \in Range(s)
  <2>1. PICK i \in 1 .. Len(Tail(s)) : x = Tail(s)[i]
    BY <1>3, <1>5
  <2>2. i + 1 \in 1 .. Len(s) /\ x = s[i + 1]
    BY <2>1, <1>1, <1>2
  <2> QED BY <2>2, <1>3
<1>6. Head(s) \in Range(s)
  BY <1>2, <1>3
<1> QED BY <1>4, <1>5, <1>6

LEMMA RangeOfAppend ==
  ASSUME NEW S, NEW s \in Seq(S), NEW x \in S
  PROVE  Range(Append(s, x)) = Range(s) \cup {x}
<1>1. Append(s, x) = s \o <<x>> /\ <<x>> \in Seq(S)
  BY AppendIsConcat
<1>2. Range(<<x>>) = {<<x>>[i] : i \in 1 .. Len(<<x>>)}
  BY <1>1, RangeEquality
<1>3. Range(<<x>>) = {x}
  BY <1>2
<1>4. Range(s \o <<x>>) = Range(s) \cup Range(<<x>>)
  <2> DEFINE t == <<x>>
  <2> HIDE DEF t
  <2>1. t \in Seq(S) BY <1>1 DEF t
  <2>2. Range(s \o t) = Range(s) \cup Range(t)
    BY <2>1, RangeConcatenation
  <2> QED BY <2>2 DEF t
<1> QED BY <1>1, <1>3, <1>4

LEMMA RangeOfEmpty == Range(<<>>) = {}
BY DEF Range

\* A function that is one-to-one on a set maps it to as many values.
LEMMA ImageOfInjection ==
  ASSUME NEW S, IsFiniteSet(S), NEW f,
         \A x, y \in S : f[x] = f[y] => x = y
  PROVE  LET T == {f[x] : x \in S}
         IN  IsFiniteSet(T) /\ Cardinality(T) = Cardinality(S)
<1> DEFINE T == {f[x] : x \in S}
           g == [x \in S |-> f[x]]
<1>1. g \in [S -> T]
  OBVIOUS
<1>2. \A x, y \in S : g[x] = g[y] => x = y
  OBVIOUS
<1>3. \A t \in T : \E x \in S : g[x] = t
  OBVIOUS
<1>4. g \in Bijection(S, T)
  <2> HIDE DEF g, T
  <2>1. g \in Injection(S, T)
    BY <1>1, <1>2 DEF Injection, IsInjective
  <2>2. g \in Surjection(S, T)
    BY <1>1, <1>3 DEF Surjection
  <2> QED BY <2>1, <2>2 DEF Bijection
<1>5. ExistsBijection(S, T)
  BY <1>4 DEF ExistsBijection
<1> QED BY <1>5, FS_Bijection

-----------------------------------------------------------------------------
(* Slots and the initial state.                                            *)

LEMMA SlotsAreNumbers ==
  ASSUME mode \in {"server", "client", "udp"}
  PROVE  /\ IsFiniteSet(SlotsOf(mode)) /\ SlotsOf(mode) \subseteq Nat
         /\ 1 \in SlotsOf(mode) /\ Cardinality(SlotsOf(mode)) <= Slots
<1>1. Slots \in Nat \ {0}
  BY NetworkOutputAssumption
<1>2. IsFiniteSet(1 .. Slots) /\ Cardinality(1 .. Slots) = Slots
  BY <1>1, FS_Interval
<1>3. IsFiniteSet({1}) /\ Cardinality({1}) = 1
  BY FS_Singleton
<1> QED BY <1>1, <1>2, <1>3 DEF SlotsOf

LEMMA OnlyIsAConnection == Only \in Connections
BY NetworkOutputAssumption DEF Only

LEMMA WritersFinite == ASSUME NEW p PROVE IsFiniteSet(Writers(p))
<1>1. Writers(p) \in SUBSET Connections
  BY DEF Writers
<1> QED BY <1>1, NetworkOutputAssumption, FS_Subset

LEMMA UsedFinite ==
  ASSUME mode \in {"server", "client", "udp"}
  PROVE  IsFiniteSet(Used)
<1>1. Used \in SUBSET SlotsOf(mode)
  BY DEF Used
<1> QED BY <1>1, SlotsAreNumbers, FS_Subset

LEMMA InitEstablishes == Init => IInv
<1> SUFFICES ASSUME Init PROVE IInv
  OBVIOUS
<1>1. mode \in {"server", "client", "udp"}
  BY NetworkOutputAssumption DEF Init
<1>2. \A c \in Connections : queue[c] = <<>>
  BY DEF Init
<1>3. TypeInv
  <2>1. handle \in [Connections -> {"none", "connecting", "open", "closing"}]
    BY DEF Init
  <2>2. clients \in [SlotsOf(mode) -> Connections \cup {None}]
    BY OnlyIsAConnection DEF Init
  <2>3. queue \in [Connections -> Seq(Buffers)]
    BY DEF Init
  <2>4. refs \in [Packets -> Int] /\ produced \in 0 .. MaxPackets
    BY NetworkOutputAssumption DEF Init
  <2>5. ring \in Seq(Packets) /\ server \in BOOLEAN
    BY DEF Init
  <2> QED BY <1>1, <2>1, <2>2, <2>3, <2>4, <2>5 DEF TypeInv, Init
<1>4. ClientsInv
  <2>1. active = Cardinality(Used)
    <3>1. CASE mode = "udp"
      <4>1. SlotsOf(mode) = {1}
        BY <3>1 DEF SlotsOf
      <4>2. clients[1] # None
        BY <3>1, <4>1, NoneAssumption, OnlyIsAConnection DEF Init
      <4>3. Used = {1}
        BY <4>1, <4>2 DEF Used
      <4>4. active = 1
        BY <3>1 DEF Init
      <4> QED BY <4>3, <4>4, FS_Singleton
    <3>2. CASE mode # "udp"
      <4>1. Used = {}
        BY <3>2 DEF Init, Used
      <4> QED BY <4>1, <3>2, FS_EmptySet DEF Init
    <3> QED BY <3>1, <3>2
  <2>2. \A s, t \in SlotsOf(mode) :
          clients[s] = clients[t] /\ clients[s] # None => s = t
    <3>1. CASE mode = "udp" BY <3>1 DEF SlotsOf
    <3>2. CASE mode # "udp" BY <3>2 DEF Init
    <3> QED BY <3>1, <3>2
  <2>3. \A s \in SlotsOf(mode) :
          clients[s] # None => handle[clients[s]] = "open"
    BY OnlyIsAConnection DEF Init
  <2>4. 1 \in SlotsOf(mode) BY <1>1, SlotsAreNumbers
  <2>5. \A c \in Connections : handle[c] = "connecting" =>
          mode = "client" /\ c = Only /\ clients[1] = None
    BY <2>4 DEF Init
  <2>6. mode = "udp" => clients[1] \in {Only, None}
    BY <2>4 DEF Init
  <2>7. (server => mode = "server") /\ loop = "waitSource"
    BY DEF Init
  <2> QED BY <2>1, <2>2, <2>3, <2>5, <2>6, <2>7 DEF ClientsInv
<1>5. NumbersInv
  <2>1. ring = <<>> /\ produced = 0 /\ compressor = "idle"
    BY DEF Init
  <2>2. Len(ring) = 0 /\ \A c \in Connections : Len(queue[c]) = 0
    BY <1>2, <2>1
  <2>3. Holding = 0 BY <2>1 DEF Holding
  <2>4. Taken = 0
    <3>1. ASSUME NEW l, l = 0 PROVE 0 - l - 0 = 0
      BY <3>1
    <3>2. 0 - Len(ring) - 0 = 0
      BY <2>2, <3>1
    <3> QED BY <2>1, <2>3, <3>2, Zenon DEF Taken
  <2> QED BY <2>2, <2>4 DEF NumbersInv
<1>6. HandlesInv
  BY <1>2 DEF HandlesInv, Init
<1>7. ReferencesMatchWrites
  <2>1. \A p \in Packets : {c \in Connections : p \in Range(queue[c])} = {}
    BY <1>2, RangeOfEmpty
  <2>2. \A p \in Packets : refs[p] = 0
    BY DEF Init
  <2>3. Cardinality({}) = 0 BY FS_EmptySet
  <2> QED BY <2>1, <2>2, <2>3 DEF ReferencesMatchWrites
<1>8. SlowClientsHarmLaterSlots
  BY DEF SlowClientsHarmLaterSlots, Init
<1> QED BY <1>3, <1>4, <1>5, <1>6, <1>7, <1>8 DEF IInv

-----------------------------------------------------------------------------
(* Steps that leave a part of the state alone.                             *)

LEMMA ClientsUntouched ==
  ClientsInv /\ UNCHANGED <<mode, loop, server, handle, clients, active>>
    => ClientsInv'
BY DEF ClientsInv, Used

LEMMA NumbersUntouched ==
  NumbersInv /\ UNCHANGED <<compressor, ring, produced, queue>> => NumbersInv'
BY DEF NumbersInv, Taken, Holding

LEMMA HandlesUntouched ==
  HandlesInv /\ UNCHANGED <<loop, handle, queue, missed>> => HandlesInv'
BY DEF HandlesInv

LEMMA ReferencesUntouched ==
  ReferencesMatchWrites /\ UNCHANGED <<queue, refs, fullSlots>>
    => ReferencesMatchWrites'
BY DEF ReferencesMatchWrites

LEMMA MissedUntouched ==
  SlowClientsHarmLaterSlots /\ UNCHANGED <<clients, missed, fullSlots>>
    => SlowClientsHarmLaterSlots'
BY DEF SlowClientsHarmLaterSlots

LEMMA QuietStep ==
  /\ IInv
  /\ UNCHANGED <<mode, ringVars, loop, server, clientVars, writeVars,
                 fullSlots, missed>>
  => IInv'
<1> SUFFICES ASSUME IInv,
                    UNCHANGED <<mode, ringVars, loop, server, clientVars,
                                writeVars, fullSlots, missed>>
             PROVE  IInv'
  OBVIOUS
<1> USE DEF ringVars, clientVars, writeVars
<1>1. TypeInv' BY DEF IInv, TypeInv
<1> QED BY <1>1, ClientsUntouched, NumbersUntouched, HandlesUntouched,
           ReferencesUntouched, MissedUntouched DEF IInv

-----------------------------------------------------------------------------
(* The other threads, and the Output thread's phases.                      *)

LEMMA CompressStep == IInv /\ Compress => IInv'
<1> SUFFICES ASSUME IInv, Compress PROVE IInv'
  OBVIOUS
<1>1. UNCHANGED <<mode, loop, server, handle, clients, active, queue, refs,
                  fullSlots, missed>>
  BY DEF Compress, threadVars, clientVars, writeVars
<1>2. /\ ring \in Seq(Packets) /\ Len(ring) \in Nat
      /\ produced \in 0 .. MaxPackets /\ produced \in Nat
      /\ MaxPackets \in Nat /\ Holding \in {0, 1} /\ Taken \in Nat
      /\ \A i \in 1 .. Len(ring) : ring[i] = Taken + i
  BY NetworkOutputAssumption DEF IInv, TypeInv, NumbersInv, Taken, Holding
<1>3. /\ ring' \in Seq(Packets) /\ produced' \in 0 .. MaxPackets
      /\ compressor' \in {"idle", "holds", "ended"}
      /\ Taken' = Taken
      /\ \A i \in 1 .. Len(ring') : ring'[i] = Taken + i
  <2>1. CASE /\ compressor = "idle" /\ produced < MaxPackets
             /\ compressor' = "holds" /\ produced' = produced + 1
             /\ UNCHANGED ring
    BY <2>1, <1>2 DEF Taken, Holding
  <2>2. CASE /\ compressor = "holds"
             /\ compressor' = "idle" /\ ring' = Append(ring, produced)
             /\ UNCHANGED produced
    <3>1. Taken = produced - Len(ring) - 1 /\ produced \in Packets
      BY <2>2, <1>2 DEF Taken, Holding, Packets
    <3>2. /\ ring' \in Seq(Packets) /\ Len(ring') = Len(ring) + 1
          /\ \A i \in 1 .. Len(ring) : ring'[i] = ring[i]
          /\ ring'[Len(ring) + 1] = produced
      BY <2>2, <3>1, <1>2, AppendProperties
    <3>3. Taken' = produced - (Len(ring) + 1)
      BY <2>2, <3>2, <1>2 DEF Taken, Holding
    <3>4. ASSUME NEW i \in 1 .. Len(ring') PROVE ring'[i] = Taken + i
      <4>1. i \in 1 .. Len(ring) \/ i = Len(ring) + 1
        BY <3>2, <1>2
      <4> QED BY <4>1, <3>1, <3>2, <1>2
    <3> QED BY <3>1, <3>2, <3>3, <3>4, <2>2, <1>2
  <2>3. CASE /\ compressor = "idle" /\ compressor' = "ended"
             /\ UNCHANGED <<ring, produced>>
    BY <2>3, <1>2 DEF Taken, Holding
  <2> QED BY <2>1, <2>2, <2>3 DEF Compress
<1>4. TypeInv'
  BY <1>1, <1>3 DEF IInv, TypeInv
<1>5. NumbersInv'
  BY <1>1, <1>2, <1>3 DEF IInv, NumbersInv
<1> QED BY <1>1, <1>4, <1>5, ClientsUntouched, HandlesUntouched,
           ReferencesUntouched, MissedUntouched DEF IInv

LEMMA JoinThreadsStep == IInv /\ JoinThreads => IInv'
<1> SUFFICES ASSUME IInv, JoinThreads PROVE IInv'
  OBVIOUS
<1>1. /\ loop \in {"ended", "skipped"}
      /\ handle' = [c \in Connections |-> "none"]
      /\ UNCHANGED <<mode, compressor, ring, produced, loop, server, clients,
                     active, queue, refs, fullSlots, missed>>
  BY DEF JoinThreads, ringVars, writeVars
<1>2. TypeInv' BY <1>1 DEF IInv, TypeInv
<1>3. ClientsInv' BY <1>1 DEF IInv, ClientsInv, Before, Used
<1>4. HandlesInv' BY <1>1 DEF HandlesInv, Before
<1> QED BY <1>1, <1>2, <1>3, <1>4, NumbersUntouched, ReferencesUntouched,
           MissedUntouched DEF IInv

\* What is left in the ring-buffer is thrown away, when there is no source.
LEMMA BeginLoopStep == IInv /\ BeginLoop => IInv'
<1> SUFFICES ASSUME IInv, BeginLoop PROVE IInv'
  OBVIOUS
<1>1. /\ loop = "waitSource" /\ loop' \in {"run", "skipped"}
      /\ ring' = ring \/ ring' = <<>>
      /\ UNCHANGED <<mode, compressor, produced, server, handle, clients,
                     active, queue, refs, fullSlots, missed>>
  BY DEF BeginLoop, threadVars, clientVars, writeVars
<1>2. TypeInv'
  <2>1. ring \in Seq(Packets) /\ <<>> \in Seq(Packets)
    BY DEF IInv, TypeInv
  <2>2. ring' \in Seq(Packets)
    BY <1>1, <2>1
  <2> QED BY <1>1, <2>2 DEF IInv, TypeInv
<1>3. ClientsInv' BY <1>1 DEF IInv, ClientsInv, Before, Used
<1>4. HandlesInv' BY <1>1 DEF IInv, HandlesInv, Before
<1>5. NumbersInv'
  <2>1. CASE ring' = ring BY <1>1, <2>1, NumbersUntouched DEF IInv
  <2>2. CASE ring' = <<>>
    <3>1. /\ Len(ring) \in Nat /\ Len(ring') = 0
          /\ produced \in Nat /\ Holding \in {0, 1} /\ Holding' = Holding
      BY <1>1, <2>2 DEF IInv, TypeInv, Holding
    <3>2. Taken' >= Taken /\ Taken \in Nat /\ Taken' \in Nat
      BY <3>1, <1>1 DEF IInv, NumbersInv, Taken
    <3>3. \A c \in Connections : \A i \in 1 .. Len(queue[c]) :
            queue[c][i] <= Taken'
      <4> SUFFICES ASSUME NEW c \in Connections,
                          NEW i \in 1 .. Len(queue[c])
                   PROVE  queue[c][i] <= Taken'
        OBVIOUS
      <4>1. queue[c][i] \in Buffers /\ queue[c][i] <= Taken
        BY DEF IInv, TypeInv, NumbersInv
      <4>2. queue[c][i] \in Int
        BY <4>1 DEF Buffers, OwnBuffer, Packets
      <4> QED BY <4>1, <4>2, <3>2
    <3> QED BY <3>1, <3>2, <3>3, <1>1 DEF IInv, NumbersInv
  <2> QED BY <1>1, <2>1, <2>2
<1> QED BY <1>1, <1>2, <1>3, <1>4, <1>5, ReferencesUntouched, MissedUntouched
        DEF IInv

LEMMA BeginShutdownStep == IInv /\ BeginShutdown => IInv'
<1> SUFFICES ASSUME IInv, BeginShutdown PROVE IInv'
  OBVIOUS
<1>1. /\ loop = "run" /\ loop' = "drain"
      /\ UNCHANGED <<mode, compressor, ring, produced, server, handle,
                     clients, active, queue, refs, fullSlots, missed>>
  BY DEF BeginShutdown, threadVars, ringVars, clientVars, writeVars
<1>2. TypeInv' BY <1>1 DEF IInv, TypeInv
<1>3. ClientsInv' BY <1>1 DEF IInv, ClientsInv, Before, Used
<1>4. HandlesInv' BY <1>1 DEF IInv, HandlesInv, Before
<1> QED BY <1>1, <1>2, <1>3, <1>4, NumbersUntouched, ReferencesUntouched,
           MissedUntouched DEF IInv

\* From here on no client can connect any more.
LEMMA ShutdownStep == IInv /\ libuvAsyncShutdown => IInv'
<1> SUFFICES ASSUME IInv, libuvAsyncShutdown PROVE IInv'
  OBVIOUS
<1>1. /\ loop = "drain" /\ loop' = "closing" /\ server' = FALSE
      /\ UNCHANGED <<mode, compressor, ring, produced, clients, active, queue,
                     refs, fullSlots, missed>>
  BY DEF libuvAsyncShutdown, ServerAfterShutdown, ringVars, threadVars,
         writeVars
<1>2. /\ handle' \in [Connections -> {"none", "connecting", "open", "closing"}]
      /\ \A c \in Connections : handle'[c] \in {handle[c], "closing"}
  BY DEF libuvAsyncShutdown, IInv, TypeInv
<1>3. TypeInv' BY <1>1, <1>2 DEF IInv, TypeInv
<1>4. ClientsInv' BY <1>1, <1>2 DEF IInv, ClientsInv, Before, Used
<1>5. HandlesInv' BY <1>1, <1>2 DEF IInv, HandlesInv, Before
<1> QED BY <1>1, <1>3, <1>4, <1>5, NumbersUntouched, ReferencesUntouched,
           MissedUntouched DEF IInv

LEMMA EndLoopStep == IInv /\ EndLoop => IInv'
<1> SUFFICES ASSUME IInv, EndLoop PROVE IInv'
  OBVIOUS
<1>1. /\ loop = "closing" /\ loop' = "ended"
      /\ UNCHANGED <<mode, compressor, ring, produced, server, handle,
                     clients, active, queue, refs, fullSlots, missed>>
  BY DEF EndLoop, threadVars, ringVars, clientVars, writeVars
<1>2. TypeInv' BY <1>1 DEF IInv, TypeInv
<1>3. ClientsInv' BY <1>1 DEF IInv, ClientsInv, Before, Used
<1>4. HandlesInv' BY <1>1 DEF HandlesInv, Before
<1> QED BY <1>1, <1>2, <1>3, <1>4, NumbersUntouched, ReferencesUntouched,
           MissedUntouched DEF IInv

-----------------------------------------------------------------------------
(* The end of a write.                                                     *)

\* A client whose write failed gives up its slot.
LEMMA StatusCheckStep ==
  ASSUME IInv, NEW c \in Connections, NEW ok,
         handle[c] \in {"open", "closing"},
         libuvWriteStatusCheck(c, ok), UNCHANGED <<mode, loop, server>>
  PROVE  /\ ClientsInv'
         /\ handle' \in [Connections ->
                           {"none", "connecting", "open", "closing"}]
         /\ \A d \in Connections : handle'[d] = handle[d]
              \/ (handle[d] \in {"open", "closing"} /\ handle'[d] = "closing")
         /\ clients' \in [SlotsOf(mode) -> Connections \cup {None}]
         /\ \A s \in SlotsOf(mode) : clients'[s] \in {clients[s], None}
<1>1. /\ handle \in [Connections -> {"none", "connecting", "open", "closing"}]
      /\ clients \in [SlotsOf(mode) -> Connections \cup {None}]
      /\ mode \in {"server", "client", "udp"} /\ ClientsInv
  BY DEF IInv, TypeInv
<1>2. CASE ~(~ok /\ IsListed(c))
  <2>1. UNCHANGED <<handle, clients, active>>
    BY <1>2 DEF libuvWriteStatusCheck, clientVars
  <2>2. ClientsInv'
    BY <1>1, <2>1, ClientsUntouched
  <2> QED BY <1>1, <2>1, <2>2
<1>3. CASE ~ok /\ IsListed(c)
  <2>1. /\ clients' = [s \in DOMAIN clients |->
                         IF clients[s] = c THEN None ELSE clients[s]]
        /\ active' = active - 1
        /\ handle' = [handle EXCEPT ![c] = "closing"]
    BY <1>3 DEF libuvWriteStatusCheck, CloseHandle, IsListed
  <2>2. PICK s \in SlotsOf(mode) : clients[s] = c
    BY <1>1, <1>3 DEF IsListed, Listed, Range
  <2>3. c # None
    BY NoneAssumption
  <2>4. \A t \in SlotsOf(mode) : clients'[t] = IF t = s THEN None ELSE clients[t]
    BY <1>1, <2>1, <2>2, <2>3 DEF ClientsInv
  <2>5. clients' \in [SlotsOf(mode) -> Connections \cup {None}]
    BY <1>1, <2>1
  <2>6. active' = Cardinality(Used)'
    <3>1. Used' = Used \ {s} /\ s \in Used
      BY <2>2, <2>3, <2>4 DEF Used
    <3>2. Cardinality(Used \ {s}) = Cardinality(Used) - 1
      BY <3>1, <1>1, UsedFinite, FS_RemoveElement
    <3> QED BY <1>1, <2>1, <3>1, <3>2 DEF ClientsInv
  <2>7. 1 \in SlotsOf(mode)
    BY <1>1, SlotsAreNumbers
  <2>8. ASSUME loop \in Before, NEW t \in SlotsOf(mode), clients'[t] # None
        PROVE  handle'[clients'[t]] = "open"
    <3>1. t # s /\ clients'[t] = clients[t] /\ clients[t] # None
      BY <2>4, <2>8
    <3>2. clients[t] # c /\ clients[t] \in Connections
      BY <3>1, <2>2, <2>3, <1>1 DEF ClientsInv
    <3>3. handle[clients[t]] = "open"
      BY <3>1, <2>8, <1>1 DEF ClientsInv
    <3> QED BY <3>1, <3>2, <3>3, <2>1, <1>1
  <2>9. \A d \in Connections : handle'[d] = "connecting" =>
          mode = "client" /\ d = Only /\ clients'[1] = None
    BY <2>1, <2>4, <2>7, <1>1 DEF ClientsInv
  <2>10. mode = "udp" => clients'[1] \in {Only, None}
    BY <2>4, <2>7, <1>1 DEF ClientsInv
  <2>11. \A t, u \in SlotsOf(mode) :
           clients'[t] = clients'[u] /\ clients'[t] # None => t = u
    BY <2>4, <1>1 DEF ClientsInv
  <2>12. ClientsInv'
    BY <2>6, <2>8, <2>9, <2>10, <2>11, <1>1 DEF ClientsInv
  <2> QED BY <2>1, <2>4, <2>5, <2>12, <1>1
<1> QED BY <1>2, <1>3

\* A client that has written a packet is one writer less for it, and for no
\* other.
LEMMA OneWriterLess ==
  ASSUME TypeInv, NumbersInv, NEW c \in Connections, queue[c] # <<>>,
         queue' = [queue EXCEPT ![c] = Tail(@)], NEW p \in Packets
  PROVE  Cardinality(Writers(p))' =
           Cardinality(Writers(p)) - IF p = Head(queue[c]) THEN 1 ELSE 0
<1>1. queue[c] \in Seq(Buffers) /\ queue \in [Connections -> Seq(Buffers)]
  BY DEF TypeInv
<1>2. \A x : x \in Range(queue[c]) <=>
               x = Head(queue[c]) \/ x \in Range(Tail(queue[c]))
  BY <1>1, RangeOfTail
<1>3. \A d \in Connections : queue'[d] = IF d = c THEN Tail(queue[c]) ELSE queue[d]
  BY <1>1
<1>4. p # OwnBuffer
  BY NetworkOutputAssumption DEF Packets, OwnBuffer
<1>5. CASE p # Head(queue[c])
  <2>1. Writers(p)' = Writers(p)
    BY <1>2, <1>3, <1>5 DEF Writers
  <2>2. Cardinality(Writers(p)) \in Nat
    BY WritersFinite, FS_CardinalityType
  <2> QED BY <2>1, <2>2, <1>5
<1>6. CASE p = Head(queue[c])
  <2>1. p \notin Range(Tail(queue[c]))
    <3> SUFFICES ASSUME p \in Range(Tail(queue[c])) PROVE FALSE
      OBVIOUS
    <3>1. /\ Tail(queue[c]) \in Seq(Buffers)
          /\ Len(Tail(queue[c])) = Len(queue[c]) - 1
          /\ \A i \in 1 .. Len(Tail(queue[c])) :
               Tail(queue[c])[i] = queue[c][i + 1]
      BY <1>1, HeadTailProperties
    <3> DEFINE t == Tail(queue[c])
    <3>a. Range(t) = {t[i] : i \in 1 .. Len(t)}
      <4> HIDE DEF t
      <4>1. t \in Seq(Buffers) BY <3>1 DEF t
      <4> QED BY <4>1, RangeEquality
    <3>2. PICK i \in 1 .. Len(Tail(queue[c])) : Tail(queue[c])[i] = p
      BY <3>a
    <3>3. /\ Len(queue[c]) \in Nat /\ 1 \in 1 .. Len(queue[c])
          /\ queue[c][1] = p
      BY <1>1, <1>6
    <3>4. i + 1 \in 1 .. Len(queue[c]) /\ queue[c][i + 1] = p /\ i + 1 # 1
      BY <3>1, <3>2, <3>3
    <3> QED BY <3>3, <3>4, <1>4 DEF NumbersInv
  <2>2. Writers(p)' = Writers(p) \ {c} /\ c \in Writers(p)
    BY <1>2, <1>3, <1>6, <2>1 DEF Writers
  <2>3. Cardinality(Writers(p) \ {c}) = Cardinality(Writers(p)) - 1
    BY <2>2, WritersFinite, FS_RemoveElement
  <2> QED BY <2>2, <2>3, <1>6
<1> QED BY <1>5, <1>6

LEMMA TailKeepsNumbers ==
  ASSUME TypeInv, NumbersInv, NEW c \in Connections, queue[c] # <<>>,
         queue' = [queue EXCEPT ![c] = Tail(@)],
         UNCHANGED <<compressor, ring, produced>>
  PROVE  NumbersInv' /\ queue' \in [Connections -> Seq(Buffers)]
<1>1. /\ Tail(queue[c]) \in Seq(Buffers)
      /\ Len(Tail(queue[c])) = Len(queue[c]) - 1
      /\ Len(queue[c]) \in Nat
      /\ \A i \in 1 .. Len(Tail(queue[c])) : Tail(queue[c])[i] = queue[c][i + 1]
  BY HeadTailProperties DEF TypeInv
<1>2. \A d \in Connections :
        queue'[d] = IF d = c THEN Tail(queue[c]) ELSE queue[d]
  BY DEF TypeInv
<1>3. Taken' = Taken
  BY DEF Taken, Holding
<1>4. \A i \in 1 .. Len(Tail(queue[c])) : i + 1 \in 1 .. Len(queue[c])
  BY <1>1
<1>5. \A d \in Connections : \A i \in 1 .. Len(queue'[d]) : queue'[d][i] <= Taken
  BY <1>1, <1>2, <1>4 DEF NumbersInv
<1>6. ASSUME NEW d \in Connections,
             NEW i \in 1 .. Len(queue'[d]), NEW j \in 1 .. Len(queue'[d]),
             queue'[d][i] = queue'[d][j], queue'[d][i] # OwnBuffer
      PROVE  i = j
  <2>1. CASE d # c
    BY <2>1, <1>2, <1>6 DEF NumbersInv
  <2>2. CASE d = c
    <3>1. /\ i + 1 \in 1 .. Len(queue[c]) /\ j + 1 \in 1 .. Len(queue[c])
          /\ queue[c][i + 1] = queue[c][j + 1]
          /\ queue[c][i + 1] # OwnBuffer
      BY <2>2, <1>1, <1>2, <1>4, <1>6
    <3>2. i + 1 = j + 1
      BY <3>1 DEF NumbersInv
    <3> QED BY <3>2
  <2> QED BY <2>1, <2>2
<1>7. queue' \in [Connections -> Seq(Buffers)]
  BY <1>1 DEF TypeInv
<1>8. NumbersInv'
  BY <1>3, <1>5, <1>6 DEF NumbersInv
<1> QED BY <1>7, <1>8

LEMMA WriteEndsStep ==
  ASSUME IInv, NEW c \in Connections, NEW ok,
         handle[c] \in {"open", "closing"}, queue[c] # <<>>,
         WriteEnds(c, ok),
         UNCHANGED <<mode, compressor, ring, produced, loop, server,
                     fullSlots, missed>>
  PROVE  IInv'
<1> DEFINE p == Head(queue[c])
<1>1. /\ libuvWriteStatusCheck(c, ok)
      /\ queue' = [queue EXCEPT ![c] = Tail(@)]
      /\ refs' = IF p = OwnBuffer THEN refs ELSE [refs EXCEPT ![p] = @ - 1]
  BY DEF WriteEnds
<1>2. /\ ClientsInv'
      /\ handle' \in [Connections -> {"none", "connecting", "open", "closing"}]
      /\ \A d \in Connections : handle'[d] = handle[d]
           \/ (handle[d] \in {"open", "closing"} /\ handle'[d] = "closing")
      /\ clients' \in [SlotsOf(mode) -> Connections \cup {None}]
      /\ \A s \in SlotsOf(mode) : clients'[s] \in {clients[s], None}
  BY <1>1, StatusCheckStep
<1>3. TypeInv /\ NumbersInv
  BY DEF IInv
<1>4. NumbersInv' /\ queue' \in [Connections -> Seq(Buffers)]
  BY <1>1, <1>3, TailKeepsNumbers
<1>5. /\ p = OwnBuffer \/ p \in Packets
      /\ refs \in [Packets -> Int]
  BY <1>3, HeadTailProperties DEF TypeInv, Buffers
<1>6. refs' \in [Packets -> Int]
  BY <1>1, <1>5
<1>7. TypeInv'
  BY <1>2, <1>4, <1>6, <1>3 DEF TypeInv
<1>8. HandlesInv'
  <2>1. \A d \in Connections : queue'[d] = IF d = c THEN Tail(queue[c])
                                                    ELSE queue[d]
    BY <1>1, <1>3 DEF TypeInv
  <2> QED BY <2>1, <1>2 DEF IInv, HandlesInv, Before
<1>9. ReferencesMatchWrites'
  <2> SUFFICES ASSUME NEW q \in Packets
               PROVE  /\ Cardinality(Writers(q))' <= refs'[q]
                      /\ fullSlots' = {} => refs'[q] = Cardinality(Writers(q))'
    BY DEF ReferencesMatchWrites, Writers
  <2>1. Cardinality(Writers(q))' =
          Cardinality(Writers(q)) - IF q = p THEN 1 ELSE 0
    BY <1>1, <1>3, OneWriterLess
  <2>2. refs'[q] = refs[q] - IF q = p THEN 1 ELSE 0
    <3>1. q # OwnBuffer
      BY NetworkOutputAssumption DEF Packets, OwnBuffer
    <3> QED BY <3>1, <1>1, <1>5
  <2>3. /\ Cardinality(Writers(q)) <= refs[q]
        /\ fullSlots = {} => refs[q] = Cardinality(Writers(q))
    BY DEF IInv, ReferencesMatchWrites, Writers
  <2>4. Cardinality(Writers(q)) \in Nat /\ refs[q] \in Int
    BY <1>5, WritersFinite, FS_CardinalityType
  <2> QED BY <2>1, <2>2, <2>3, <2>4
<1>10. SlowClientsHarmLaterSlots'
  <2>1. None \notin missed
    BY <1>3, NoneAssumption DEF TypeInv
  <2>2. DOMAIN clients = SlotsOf(mode) /\ DOMAIN clients' = SlotsOf(mode)
    BY <1>2, <1>3 DEF TypeInv
  <2> QED BY <2>1, <2>2, <1>2 DEF IInv, SlowClientsHarmLaterSlots
<1> QED BY <1>2, <1>4, <1>7, <1>8, <1>9, <1>10 DEF IInv

LEMMA CompleteWriteStep ==
  ASSUME IInv, NEW c \in Connections, CompleteWrite(c)
  PROVE  IInv'
<1>1. /\ handle[c] = "open" /\ queue[c] # <<>> /\ WriteEnds(c, c \notin gone)
      /\ UNCHANGED <<mode, compressor, ring, produced, loop, server, fullSlots,
                     missed>>
  BY DEF CompleteWrite, ringVars
<1> QED BY <1>1, WriteEndsStep

\* A handle is closed: only its own state changes.
LEMMA CloseHandleStep ==
  ASSUME IInv, NEW c \in Connections, loop \notin Before,
         CloseHandle(c),
         UNCHANGED <<mode, ringVars, loop, server, clients, active, writeVars,
                     fullSlots, missed>>
  PROVE  IInv'
<1> USE DEF ringVars, writeVars
<1>1. /\ handle' \in [Connections -> {"none", "connecting", "open", "closing"}]
      /\ \A d \in Connections : handle'[d] = IF d = c THEN "closing" ELSE handle[d]
  BY DEF CloseHandle, IInv, TypeInv
<1>2. TypeInv' BY <1>1 DEF IInv, TypeInv
<1>3. ClientsInv' BY <1>1 DEF IInv, ClientsInv, Before, Used
<1>4. HandlesInv' BY <1>1 DEF IInv, HandlesInv
<1> QED BY <1>2, <1>3, <1>4, NumbersUntouched, ReferencesUntouched,
           MissedUntouched DEF IInv

LEMMA CloseEndsStep ==
  ASSUME IInv, ShuttingInv, NEW c \in Connections, CloseEnds(c)
  PROVE  IInv'
<1>1. /\ handle[c] = "closing"
      /\ UNCHANGED <<mode, ringVars, loop, server, fullSlots>>
  BY DEF CloseEnds
<1>2. CASE queue[c] # <<>>
  <2>1. WriteEnds(c, FALSE) /\ missed' = missed
    BY <1>2 DEF CloseEnds
  <2>2. UNCHANGED <<mode, compressor, ring, produced, loop, server, fullSlots,
                    missed>>
    BY <1>1, <2>1 DEF ringVars
  <2>3. PICK ok \in BOOLEAN : WriteEnds(c, ok)
    BY <2>1
  <2>4. handle[c] \in {"open", "closing"}
    BY <1>1
  <2> QED BY <1>2, <2>2, <2>3, <2>4, WriteEndsStep
<1>3. CASE queue[c] = <<>> /\ c \in shutting
  <2>1. /\ CloseHandle(c) /\ UNCHANGED <<clients, active, writeVars, missed>>
    BY <1>3 DEF CloseEnds
  <2>2. loop \notin Before
    BY <1>3 DEF ShuttingInv
  <2> QED BY <1>1, <2>1, <2>2, CloseHandleStep
<1>4. CASE queue[c] = <<>> /\ c \notin shutting
  <2> USE DEF ringVars, writeVars
  <2>1. /\ handle' = [handle EXCEPT ![c] = "none"]
        /\ missed' = missed \ {c}
        /\ UNCHANGED <<clients, active, queue, refs>>
    BY <1>4 DEF CloseEnds
  <2>2. \A d \in Connections : handle'[d] = IF d = c THEN "none" ELSE handle[d]
    BY <2>1 DEF IInv, TypeInv
  <2>3. TypeInv'
    BY <1>1, <2>1 DEF IInv, TypeInv
  <2>4. ClientsInv'
    <3>1. \A s \in SlotsOf(mode) : clients[s] \in Connections \cup {None}
      BY DEF IInv, TypeInv
    <3>2. loop \in Before => \A s \in SlotsOf(mode) : clients[s] # c
      BY <1>1, NoneAssumption DEF IInv, ClientsInv
    <3>3. loop \in Before => \A s \in SlotsOf(mode) :
            clients[s] # None => handle'[clients[s]] = "open"
      BY <3>1, <3>2, <2>2 DEF IInv, ClientsInv
    <3>4. \A d \in Connections : handle'[d] = "connecting" =>
            handle[d] = "connecting"
      BY <2>2
    <3>5. Used' = Used
      BY <1>1, <2>1 DEF Used
    <3> QED BY <1>1, <2>1, <3>3, <3>4, <3>5 DEF IInv, ClientsInv
  <2>5. HandlesInv'
    <3>1. \A d \in Connections : d # c =>
            handle'[d] = handle[d] /\ (d \in missed' <=> d \in missed)
      BY <2>1, <2>2
    <3>2. queue'[c] = <<>> /\ c \notin missed'
      BY <1>4, <2>1
    <3> QED BY <3>1, <3>2, <1>1, <2>1 DEF IInv, HandlesInv
  <2>6. SlowClientsHarmLaterSlots'
    BY <1>1, <2>1 DEF IInv, SlowClientsHarmLaterSlots
  <2> QED BY <1>1, <2>1, <2>3, <2>4, <2>5, <2>6, NumbersUntouched,
             ReferencesUntouched DEF IInv
<1> QED BY <1>2, <1>3, <1>4

LEMMA ShutdownEndsStep ==
  ASSUME IInv, ShuttingInv, NEW c \in Connections, ShutdownEnds(c)
  PROVE  IInv'
<1>1. /\ c \in shutting /\ CloseHandle(c)
      /\ UNCHANGED <<mode, ringVars, loop, server, clients, active, writeVars,
                     fullSlots, missed>>
  BY DEF ShutdownEnds
<1>2. loop \notin Before
  BY <1>1 DEF ShuttingInv
<1> QED BY <1>1, <1>2, CloseHandleStep

-----------------------------------------------------------------------------
(* Connections.                                                            *)

\* A client gets a free slot; its handle was not in use.
LEMMA EnterStep ==
  ASSUME IInv, NEW c \in Connections, NEW slot \in SlotsOf(mode),
         loop \in {"run", "closing"}, clients[slot] = None,
         \/ handle[c] = "none" /\ server
         \/ handle[c] = "connecting" /\ slot = 1,
         Enter(c, slot),
         UNCHANGED <<mode, ringVars, loop, server, refs, fullSlots, missed>>
  PROVE  IInv'
<1> USE DEF ringVars
<1>1. /\ queue' = [queue EXCEPT ![c] = <<OwnBuffer>>]
      /\ clients' = [clients EXCEPT ![slot] = c]
      /\ active' = active + 1
      /\ handle' = [handle EXCEPT ![c] = "open"]
  BY DEF Enter
<1>2. /\ TypeInv /\ ClientsInv /\ NumbersInv /\ HandlesInv
      /\ mode \in {"server", "client", "udp"}
  BY DEF IInv, TypeInv
<1>3. queue[c] = <<>> /\ c \notin missed /\ c # None
  BY <1>2, NoneAssumption DEF HandlesInv, Before
<1>4. <<OwnBuffer>> \in Seq(Buffers) /\ Len(<<OwnBuffer>>) = 1
      /\ <<OwnBuffer>>[1] = OwnBuffer
  BY DEF Buffers
<1>5. /\ \A d \in Connections :
           /\ handle'[d] = IF d = c THEN "open" ELSE handle[d]
           /\ queue'[d] = IF d = c THEN <<OwnBuffer>> ELSE queue[d]
      /\ \A s \in SlotsOf(mode) : clients'[s] = IF s = slot THEN c ELSE clients[s]
  BY <1>1, <1>2 DEF TypeInv
<1>6. TypeInv'
  BY <1>1, <1>2, <1>4 DEF TypeInv
<1>7. \A s \in SlotsOf(mode) : clients[s] # c
  <2>1. CASE handle[c] = "none" /\ server
    <3>1. loop \in Before
      BY <2>1, <1>2 DEF ClientsInv, Before
    <3> QED BY <3>1, <2>1, <1>2, <1>3 DEF ClientsInv
  <2>2. CASE handle[c] = "connecting"
    <3>1. SlotsOf(mode) = {1}
      BY <2>2, <1>2 DEF ClientsInv, SlotsOf
    <3> QED BY <3>1, <2>2, <1>2, <1>3 DEF ClientsInv
  <2> QED BY <2>1, <2>2
<1>8. ClientsInv'
  <2>1. active' = Cardinality(Used)'
    <3>1. Used' = Used \cup {slot} /\ slot \notin Used
      BY <1>1, <1>3, <1>5 DEF Used
    <3>2. Cardinality(Used \cup {slot}) = Cardinality(Used) + 1
      BY <3>1, <1>2, UsedFinite, FS_AddElement
    <3> QED BY <3>1, <3>2, <1>1, <1>2 DEF ClientsInv
  <2>2. \A s, t \in SlotsOf(mode) :
          clients'[s] = clients'[t] /\ clients'[s] # None => s = t
    BY <1>2, <1>5, <1>7 DEF ClientsInv
  <2>3. loop \in Before => \A s \in SlotsOf(mode) :
          clients'[s] # None => handle'[clients'[s]] = "open"
    <3> SUFFICES ASSUME loop \in Before, NEW s \in SlotsOf(mode),
                        clients'[s] # None
                 PROVE  handle'[clients'[s]] = "open"
      OBVIOUS
    <3>1. CASE s = slot BY <3>1, <1>5
    <3>2. CASE s # slot
      <4>1. clients'[s] = clients[s] /\ clients[s] # c
            /\ clients[s] \in Connections
        BY <3>2, <1>2, <1>5, <1>7 DEF TypeInv
      <4>2. handle[clients[s]] = "open"
        BY <4>1, <1>2 DEF ClientsInv
      <4> QED BY <4>1, <4>2, <1>5
    <3> QED BY <3>1, <3>2
  <2>4. 1 \in SlotsOf(mode) BY <1>2, SlotsAreNumbers
  <2>5. mode # "udp"
    BY <1>2 DEF ClientsInv
  <2>6. ASSUME NEW d \in Connections, handle'[d] = "connecting"
        PROVE  mode = "client" /\ d = Only /\ clients'[1] = None
    <3>1. d # c /\ handle[d] = "connecting"
      BY <2>6, <1>5
    <3>2. mode = "client" /\ d = Only /\ clients[1] = None
      BY <3>1, <1>2 DEF ClientsInv
    <3>3. handle[c] # "connecting" /\ ~server
      BY <3>1, <3>2, <1>2 DEF ClientsInv
    <3> QED BY <3>3
  <2> QED BY <1>1, <1>2, <2>1, <2>2, <2>3, <2>5, <2>6 DEF ClientsInv
<1>9. NumbersInv'
  <2>1. Taken' = Taken BY DEF Taken, Holding
  <2>2. \A d \in Connections : \A i \in 1 .. Len(queue'[d]) :
          queue'[d][i] <= Taken
    <3>1. OwnBuffer <= Taken BY <1>2 DEF NumbersInv, OwnBuffer
    <3> QED BY <3>1, <1>2, <1>4, <1>5 DEF NumbersInv
  <2>3. \A d \in Connections : \A i, j \in 1 .. Len(queue'[d]) :
          queue'[d][i] = queue'[d][j] /\ queue'[d][i] # OwnBuffer => i = j
    BY <1>2, <1>4, <1>5 DEF NumbersInv
  <2> QED BY <2>1, <2>2, <2>3, <1>2 DEF NumbersInv
<1>10. HandlesInv'
  BY <1>2, <1>5 DEF HandlesInv
<1>11. ReferencesMatchWrites'
  <2> SUFFICES ASSUME NEW p \in Packets PROVE Writers(p)' = Writers(p)
    BY DEF IInv, ReferencesMatchWrites, Writers
  <2>1. p # OwnBuffer
    BY NetworkOutputAssumption DEF Packets, OwnBuffer
  <2>2. Range(<<OwnBuffer>>) = {OwnBuffer}
    <3>1. Range(<<OwnBuffer>>) =
            {<<OwnBuffer>>[i] : i \in 1 .. Len(<<OwnBuffer>>)}
      BY <1>4, RangeEquality
    <3> QED BY <3>1, <1>4
  <2> QED BY <2>1, <2>2, <1>3, <1>5, RangeOfEmpty DEF Writers
<1>12. SlowClientsHarmLaterSlots'
  <2>1. DOMAIN clients = SlotsOf(mode) /\ DOMAIN clients' = SlotsOf(mode)
    BY <1>1, <1>2 DEF TypeInv
  <2> QED BY <2>1, <1>3, <1>5 DEF IInv, SlowClientsHarmLaterSlots
<1> QED BY <1>6, <1>8, <1>9, <1>10, <1>11, <1>12 DEF IInv

\* A connection that does not get that far.
LEMMA RefusedStep ==
  ASSUME IInv, NEW c \in Connections, NEW state \in {"open", "closing"},
         (handle[c] = "none" /\ server) \/ handle[c] = "connecting",
         loop \in {"run", "closing"},
         handle' = [handle EXCEPT ![c] = state],
         UNCHANGED <<mode, ringVars, loop, server, clients, active, writeVars,
                     fullSlots, missed>>
  PROVE  IInv'
<1> USE DEF ringVars, writeVars
<1>1. \A d \in Connections : handle'[d] = IF d = c THEN state ELSE handle[d]
  BY DEF IInv, TypeInv
<1>2. TypeInv' BY DEF IInv, TypeInv
<1>3. ClientsInv'
  <2>1. \A s \in SlotsOf(mode) : clients[s] \in Connections \cup {None}
    BY DEF IInv, TypeInv
  <2>2. loop \in Before => \A s \in SlotsOf(mode) :
          clients[s] # None => clients[s] # c
    BY DEF IInv, ClientsInv
  <2>3. loop \in Before => \A s \in SlotsOf(mode) :
          clients[s] # None => handle'[clients[s]] = "open"
    BY <1>1, <2>1, <2>2 DEF IInv, ClientsInv
  <2>4. \A d \in Connections : handle'[d] = "connecting" =>
          handle[d] = "connecting"
    BY <1>1
  <2>5. Used' = Used BY DEF Used
  <2> QED BY <2>3, <2>4, <2>5 DEF IInv, ClientsInv
<1>4. HandlesInv' BY <1>1 DEF IInv, HandlesInv
<1> QED BY <1>2, <1>3, <1>4, NumbersUntouched, ReferencesUntouched,
           MissedUntouched DEF IInv

LEMMA ServerConnectionStep ==
  ASSUME IInv, NEW c \in Connections, ServerConnection(c)
  PROVE  IInv'
<1>1. /\ loop \in {"run", "closing"} /\ server /\ handle[c] = "none"
      /\ UNCHANGED <<mode, ringVars, loop, server, refs, fullSlots, missed>>
  BY DEF ServerConnection, InLoop, threadVars
<1>2. DOMAIN clients = SlotsOf(mode)
  BY DEF IInv, TypeInv
<1>3. ASSUME NEW s \in SlotsOf(mode), clients[s] = None, Enter(c, s)
      PROVE  IInv'
  BY <1>1, <1>3, EnterStep
<1>4. CASE /\ handle' = [handle EXCEPT ![c] = "closing"]
           /\ UNCHANGED <<queue, clients, active>>
  BY <1>1, <1>4, RefusedStep DEF writeVars
<1> QED BY <1>2, <1>3, <1>4 DEF ServerConnection

LEMMA ClientConnectionStep ==
  ASSUME IInv, NEW c \in Connections, ClientConnection(c)
  PROVE  IInv'
<1>1. /\ loop \in {"run", "closing"} /\ handle[c] = "connecting"
      /\ UNCHANGED <<mode, ringVars, loop, server, refs, fullSlots, missed>>
  BY DEF ClientConnection, InLoop, threadVars
<1>2. clients[1] = None /\ 1 \in SlotsOf(mode)
  BY <1>1, SlotsAreNumbers DEF IInv, TypeInv, ClientsInv
<1>3. CASE Enter(c, 1)
  BY <1>1, <1>2, <1>3, EnterStep
<1>4. CASE /\ handle' = [handle EXCEPT ![c] = "open"]
           /\ UNCHANGED <<queue, clients, active>>
  BY <1>1, <1>4, RefusedStep DEF writeVars
<1> QED BY <1>3, <1>4 DEF ClientConnection

-----------------------------------------------------------------------------
(* The Output thread takes a packet and writes it.                         *)

LEMMA HeadOfRing ==
  ASSUME TypeInv, NumbersInv, ring # <<>>, ring' = Tail(ring),
         UNCHANGED <<compressor, produced>>
  PROVE  /\ ring' \in Seq(Packets)
         /\ Taken \in Nat /\ Taken' = Taken + 1
         /\ Head(ring) = Taken + 1 /\ Head(ring) \in Packets
         /\ \A i \in 1 .. Len(ring') : ring'[i] = Taken' + i
         /\ \A c \in Connections : Head(ring) \notin Range(queue[c])
<1>1. /\ Tail(ring) \in Seq(Packets) /\ Len(Tail(ring)) = Len(ring) - 1
      /\ \A i \in 1 .. Len(Tail(ring)) : Tail(ring)[i] = ring[i + 1]
      /\ Head(ring) \in Packets
  BY HeadTailProperties DEF TypeInv
<1>2. /\ Len(ring) \in Nat \ {0} /\ Head(ring) = ring[1] /\ 1 \in 1 .. Len(ring)
      /\ produced \in Nat /\ Holding \in {0, 1} /\ Holding' = Holding
  BY NetworkOutputAssumption, EmptySeq DEF TypeInv, Holding
<1>3. Taken \in Nat /\ Taken' = Taken + 1
  BY <1>1, <1>2 DEF NumbersInv, Taken
<1>4. Head(ring) = Taken + 1
  BY <1>2 DEF NumbersInv
<1>5. ASSUME NEW i \in 1 .. Len(Tail(ring)) PROVE ring'[i] = Taken' + i
  <2>1. i + 1 \in 1 .. Len(ring) /\ i \in Int
    BY <1>1, <1>2
  <2>2. ring[i + 1] = Taken + (i + 1)
    BY <2>1 DEF NumbersInv
  <2> QED BY <2>1, <2>2, <1>1, <1>3
<1>6. ASSUME NEW c \in Connections, Head(ring) \in Range(queue[c]) PROVE FALSE
  <2>1. Range(queue[c]) = {queue[c][i] : i \in 1 .. Len(queue[c])}
    BY RangeEquality DEF TypeInv
  <2>2. PICK i \in 1 .. Len(queue[c]) : queue[c][i] = Head(ring)
    BY <2>1, <1>6
  <2>3. queue[c][i] <= Taken
    BY DEF NumbersInv
  <2> QED BY <2>2, <2>3, <1>3, <1>4
<1> QED BY <1>1, <1>3, <1>4, <1>5, <1>6

\* Slots are gone through in their order, so the first client with a full
\* queue is known by its slot.
LEMMA FirstFullSlot ==
  ASSUME TypeInv, NEW full, full \subseteq Used, full # {}
  PROVE  \E f \in full : \A g \in full : f <= g
<1>1. full \subseteq Nat
  BY SlotsAreNumbers DEF TypeInv, Used
<1> QED BY <1>1, LeastNatural

LEMMA WriteStreamStep ==
  ASSUME IInv, loop \in Before, ring # <<>>, ring' = Tail(ring),
         WriteStream(Head(ring)),
         UNCHANGED <<mode, compressor, produced, loop, server, handle, clients,
                     active>>
  PROVE  IInv'
<1> DEFINE p == Head(ring)
           used == {s \in DOMAIN clients : clients[s] # None}
           full == {s \in used : IsFull(clients[s])}
           tried == {s \in used : \A f \in full : s < f}
           reached == {clients[s] : s \in tried}
<1>1. /\ TypeInv /\ ClientsInv /\ NumbersInv /\ HandlesInv
      /\ ReferencesMatchWrites /\ SlowClientsHarmLaterSlots
      /\ mode \in {"server", "client", "udp"}
      /\ DOMAIN clients = SlotsOf(mode) /\ used = Used
  BY DEF IInv, TypeInv, Used
<1>2. PICK failed \in SUBSET reached :
        /\ queue' = [c \in Connections |->
                       IF c \in reached \ failed THEN Append(queue[c], p)
                       ELSE queue[c]]
        /\ refs' = [refs EXCEPT ![p] =
                      active - Cardinality(failed)
                        - (IF full = {} THEN 0 ELSE 1)]
        /\ fullSlots' = fullSlots \cup {f \in full : \A g \in full : f <= g}
        /\ missed' = missed \cup
             {c \in Listed \ ((reached \ failed) \cup failed) : ~IsFull(c)}
  BY DEF WriteStream, VisitedSlots, References
<1> DEFINE taken == reached \ failed
<1>3. /\ ring' \in Seq(Packets) /\ Taken \in Nat /\ Taken' = Taken + 1
      /\ p = Taken + 1 /\ p \in Packets
      /\ \A i \in 1 .. Len(ring') : ring'[i] = Taken' + i
      /\ \A c \in Connections : p \notin Range(queue[c])
  BY <1>1, HeadOfRing
<1>4. /\ tried \subseteq Used /\ Used \subseteq SlotsOf(mode)
      /\ SlotsOf(mode) \subseteq Nat /\ IsFiniteSet(Used)
      /\ full \subseteq Used
      /\ full = {s \in Used : IsFull(clients[s])}
      /\ tried = {s \in Used : \A f \in full : s < f}
  BY <1>1, SlotsAreNumbers, UsedFinite DEF Used
<1> HIDE DEF used
<1>5. \A s \in Used : clients[s] \in Connections /\ handle[clients[s]] = "open"
  BY <1>1, <1>4 DEF TypeInv, ClientsInv, Used
<1>6. reached \subseteq Connections
  BY <1>4, <1>5
<1>7. full # {} => \E f \in full : \A g \in full : f <= g
  <2> HIDE DEF full
  <2> QED BY <1>1, <1>4, FirstFullSlot
<1> HIDE DEF p
<1>8. /\ IsFiniteSet(reached) /\ IsFiniteSet(failed)
      /\ Cardinality(taken) = Cardinality(tried) - Cardinality(failed)
      /\ Cardinality(failed) \in Nat /\ Cardinality(tried) \in Nat
  <2>1. IsFiniteSet(tried)
    BY <1>4, FS_Subset
  <2>2. \A s, t \in tried : clients[s] = clients[t] => s = t
    BY <1>1, <1>4 DEF ClientsInv, Used
  <2>3. IsFiniteSet(reached) /\ Cardinality(reached) = Cardinality(tried)
    <3> HIDE DEF tried
    <3> QED BY <2>1, <2>2, ImageOfInjection
  <2> HIDE DEF tried, reached
  <2>4. IsFiniteSet(failed) /\ reached \cap failed = failed
    BY <2>3, FS_Subset
  <2>5. Cardinality(taken) = Cardinality(reached) - Cardinality(failed)
    <3>1. Cardinality(reached \ failed) =
            Cardinality(reached) - Cardinality(reached \cap failed)
      BY <2>3, FS_Difference
    <3> QED BY <3>1, <2>4
  <2> QED BY <2>1, <2>3, <2>4, <2>5, FS_CardinalityType
<1>9. /\ active \in Nat
      /\ full = {} => Cardinality(tried) = active
      /\ full # {} => Cardinality(tried) <= active - 1
  <2>1. active = Cardinality(Used) /\ active \in Nat
    BY <1>1, <1>4, FS_CardinalityType DEF ClientsInv
  <2>2. ASSUME full = {} PROVE tried = Used
    BY <2>2, <1>4
  <2>3. ASSUME full # {} PROVE Cardinality(tried) <= active - 1
    <3>1. PICK f \in full : TRUE
      BY <2>3
    <3>2. f \in Used /\ ~(f < f)
      BY <1>4
    <3>3. tried \subseteq Used \ {f}
      <4> HIDE DEF tried, full
      <4> QED BY <3>1, <3>2, <1>4
    <3>4. /\ IsFiniteSet(Used \ {f})
          /\ Cardinality(Used \ {f}) = Cardinality(Used) - 1
      BY <3>2, <1>4, FS_RemoveElement
    <3>5. Cardinality(tried) <= Cardinality(Used \ {f})
      <4> HIDE DEF tried
      <4> QED BY <3>3, <3>4, FS_Subset
    <3> QED BY <3>4, <3>5, <2>1
  <2> QED BY <2>1, <2>2, <2>3
<1> HIDE DEF full, tried, reached, taken
<1>10. \A c \in Connections :
         /\ queue[c] \in Seq(Buffers) /\ p \in Buffers
         /\ queue'[c] = IF c \in taken THEN Append(queue[c], p) ELSE queue[c]
  BY <1>1, <1>2, <1>3 DEF TypeInv, Buffers, taken
<1>a. ASSUME NEW c \in Connections, c \in taken
      PROVE  /\ queue'[c] \in Seq(Buffers)
             /\ Len(queue[c]) \in Nat
             /\ Len(queue'[c]) = Len(queue[c]) + 1
             /\ \A i \in 1 .. Len(queue[c]) : queue'[c][i] = queue[c][i]
             /\ queue'[c][Len(queue[c]) + 1] = p
             /\ Range(queue'[c]) = Range(queue[c]) \cup {p}
  <2> DEFINE q == queue[c]
  <2>1. q \in Seq(Buffers) /\ p \in Buffers /\ queue'[c] = Append(q, p)
    BY <1>10, <1>a
  <2> HIDE DEF q
  <2>2. /\ Append(q, p) \in Seq(Buffers) /\ Len(q) \in Nat
        /\ Len(Append(q, p)) = Len(q) + 1
        /\ \A i \in 1 .. Len(q) : Append(q, p)[i] = q[i]
        /\ Append(q, p)[Len(q) + 1] = p
    BY <2>1, AppendProperties
  <2>3. Range(Append(q, p)) = Range(q) \cup {p}
    BY <2>1, RangeOfAppend
  <2> QED BY <2>1, <2>2, <2>3 DEF q
<1>11. TypeInv'
  <2>1. \A c \in Connections : queue'[c] \in Seq(Buffers)
    BY <1>10, <1>a
  <2>2. queue' \in [Connections -> Seq(Buffers)]
    BY <2>1, <1>2
  <2>3. refs' \in [Packets -> Int]
    <3>1. active - Cardinality(failed) - (IF full = {} THEN 0 ELSE 1) \in Int
      BY <1>8, <1>9
    <3> QED BY <3>1, <1>1, <1>2 DEF TypeInv
  <2>4. fullSlots' \subseteq SlotsOf(mode)
    BY <1>1, <1>2, <1>4 DEF TypeInv
  <2>5. missed' \subseteq Connections
    <3>1. Listed \subseteq Connections
      BY <1>1 DEF TypeInv, Listed, Range
    <3> QED BY <3>1, <1>1, <1>2 DEF TypeInv
  <2> QED BY <2>2, <2>3, <2>4, <2>5, <1>1, <1>3 DEF TypeInv
<1>12. ClientsInv'
  BY <1>1, ClientsUntouched
<1>13. NumbersInv'
  <2> SUFFICES ASSUME NEW c \in Connections
               PROVE  /\ \A i \in 1 .. Len(queue'[c]) : queue'[c][i] <= Taken'
                      /\ \A i, j \in 1 .. Len(queue'[c]) :
                           queue'[c][i] = queue'[c][j]
                             /\ queue'[c][i] # OwnBuffer => i = j
    BY <1>3 DEF NumbersInv
  <2>1. \A i \in 1 .. Len(queue[c]) :
          /\ queue[c][i] <= Taken /\ queue[c][i] \in Int
          /\ queue[c][i] # p
    BY <1>1, <1>3, <1>10 DEF NumbersInv, Buffers, OwnBuffer, Packets
  <2> DEFINE old == queue[c]
             new == queue'[c]
             now == Taken
  <2>2. /\ Len(old) \in Nat /\ now \in Nat /\ Taken' = now + 1 /\ p = now + 1
        /\ \A i \in 1 .. Len(old) : old[i] <= now /\ old[i] \in Int
        /\ \A i, j \in 1 .. Len(old) :
             old[i] = old[j] /\ old[i] # OwnBuffer => i = j
    <3>1. /\ Len(old) \in Nat /\ now \in Nat /\ Taken' = now + 1
          /\ p = now + 1
      BY <1>3, <1>10
    <3>2. \A i \in 1 .. Len(old) : old[i] <= now /\ old[i] \in Int
      BY <2>1
    <3>3. \A i, j \in 1 .. Len(old) :
             old[i] = old[j] /\ old[i] # OwnBuffer => i = j
      BY <1>1, Zenon DEF NumbersInv
    <3> QED BY <3>1, <3>2, <3>3
  <2>3. \/ new = old
        \/ /\ Len(new) = Len(old) + 1
           /\ \A i \in 1 .. Len(old) : new[i] = old[i]
           /\ new[Len(old) + 1] = p
    BY <1>10, <1>a
  <2>4. /\ \A i \in 1 .. Len(new) : new[i] <= Taken'
        /\ \A i, j \in 1 .. Len(new) :
             new[i] = new[j] /\ new[i] # OwnBuffer => i = j
    <3> HIDE DEF old, new, now
    <3>1. CASE new = old BY <2>2, <3>1
    <3>2. CASE /\ Len(new) = Len(old) + 1
               /\ \A i \in 1 .. Len(old) : new[i] = old[i]
               /\ new[Len(old) + 1] = p
      <4>1. \A i \in 1 .. Len(new) : i \in 1 .. Len(old) \/ i = Len(old) + 1
        BY <2>2, <3>2
      <4>2. \A i \in 1 .. Len(old) : new[i] <= now /\ new[i] # p
        BY <2>2, <3>2
      <4>3. \A i \in 1 .. Len(new) : new[i] <= Taken'
        BY <4>1, <4>2, <2>2, <3>2
      <4>4. ASSUME NEW i \in 1 .. Len(new), NEW j \in 1 .. Len(new),
                   new[i] = new[j], new[i] # OwnBuffer
            PROVE  i = j
        BY <4>1, <4>2, <4>4, <2>2, <3>2
      <4> QED BY <4>3, <4>4
    <3> QED BY <2>3, <3>1, <3>2
  <2> QED BY <2>4
<1>14. HandlesInv'
  <2>1. \A c \in taken : handle[c] = "open"
    BY <1>4, <1>5 DEF taken, reached
  <2>2. \A c \in Listed : handle[c] = "open"
    BY <1>1, <1>5 DEF Listed, Range, Used
  <2> QED BY <2>1, <2>2, <1>1, <1>2, <1>10 DEF HandlesInv
<1>15. ReferencesMatchWrites'
  <2> SUFFICES ASSUME NEW q \in Packets
               PROVE  /\ Cardinality(Writers(q))' <= refs'[q]
                      /\ fullSlots' = {} => refs'[q] = Cardinality(Writers(q))'
    BY DEF ReferencesMatchWrites, Writers
  <2>1. /\ Cardinality(Writers(q)) <= refs[q]
        /\ fullSlots = {} => refs[q] = Cardinality(Writers(q))
    BY <1>1 DEF ReferencesMatchWrites, Writers
  <2>2. \A c \in Connections :
          Range(queue'[c]) = IF c \in taken THEN Range(queue[c]) \cup {p}
                                            ELSE Range(queue[c])
    BY <1>10, <1>a
  <2>3. fullSlots' = {} => fullSlots = {} /\ full = {}
    BY <1>2, <1>7
  <2>4. CASE q # p
    <3>1. Writers(q)' = Writers(q) /\ refs'[q] = refs[q]
      BY <2>2, <2>4, <1>1, <1>2 DEF Writers, TypeInv
    <3> QED BY <3>1, <2>1, <2>3
  <2>5. CASE q = p
    <3>1. taken \subseteq Connections
      BY <1>6 DEF taken
    <3>2. Writers(q)' = taken
      BY <3>1, <2>2, <2>5, <1>3 DEF Writers
    <3>3. refs'[q] = active - Cardinality(failed)
                       - (IF full = {} THEN 0 ELSE 1)
      BY <2>5, <1>1, <1>2 DEF TypeInv
    <3> QED BY <3>2, <3>3, <2>3, <1>8, <1>9
  <2> QED BY <2>4, <2>5
<1>16. SlowClientsHarmLaterSlots'
  <2> SUFFICES ASSUME NEW s \in SlotsOf(mode), clients[s] \in missed'
               PROVE  \E f \in fullSlots' : f < s
    BY <1>1 DEF SlowClientsHarmLaterSlots
  <2>1. CASE clients[s] \in missed
    BY <2>1, <1>1, <1>2 DEF SlowClientsHarmLaterSlots
  <2>2. CASE clients[s] \notin missed
    <3>1. /\ clients[s] # None /\ ~IsFull(clients[s])
          /\ clients[s] \notin reached
      BY <2>2, <1>2 DEF Listed
    <3>2. s \in Used /\ s \notin full /\ s \notin tried
      BY <3>1 DEF Used, full, reached
    <3>3. PICK f \in full : ~(s < f)
      BY <3>2, <1>4
    <3>4. PICK g \in full : \A h \in full : g <= h
      BY <3>3, <1>7
    <3>5. f \in Nat /\ g \in Nat /\ s \in Nat /\ f # s
      BY <3>2, <3>3, <3>4, <1>4
    <3>6. g < s
      BY <3>3, <3>4, <3>5
    <3> QED BY <3>4, <3>6, <1>2
  <2> QED BY <2>1, <2>2
<1> QED BY <1>11, <1>12, <1>13, <1>14, <1>15, <1>16 DEF IInv

\* Nobody shares the buffers of messages.
LEMMA WriteMessagesStep ==
  ASSUME IInv, loop \in Before, ring # <<>>, ring' = Tail(ring),
         active # 0, mode = "udp", WriteMessages,
         UNCHANGED <<mode, compressor, produced, loop, server, handle, clients,
                     active, refs, fullSlots, missed>>
  PROVE  IInv'
<1>1. /\ TypeInv /\ ClientsInv /\ NumbersInv /\ HandlesInv
      /\ mode \in {"server", "client", "udp"}
  BY DEF IInv, TypeInv
<1>2. /\ ring' \in Seq(Packets) /\ Taken \in Nat /\ Taken' = Taken + 1
      /\ \A i \in 1 .. Len(ring') : ring'[i] = Taken' + i
  BY <1>1, HeadOfRing
<1> DEFINE own(n) == [i \in 1 .. n |-> OwnBuffer]
<1>3. PICK n \in Nat :
        queue' = [queue EXCEPT ![Only] = queue[Only] \o own(n)]
  <2>1. CASE IsFull(Only)
    <3>1. queue[Only] \in Seq(Buffers) /\ queue' = queue
      BY <1>1, <2>1, OnlyIsAConnection DEF WriteMessages, TypeInv
    <3>2. own(0) = <<>>
      OBVIOUS
    <3>3. queue[Only] \o <<>> = queue[Only]
      BY <3>1, ConcatEmptySeq
    <3>4. queue' = [queue EXCEPT ![Only] = queue[Only] \o own(0)]
      <4>1. queue[Only] \o own(0) = queue[Only]
        BY <3>2, <3>3
      <4> QED BY <4>1, <3>1, <1>1 DEF TypeInv
    <3> QED BY <3>4
  <2>2. CASE ~IsFull(Only)
    <3>1. 0 .. MaxChunks \subseteq Nat
      BY NetworkOutputAssumption
    <3> QED BY <2>2, <3>1 DEF WriteMessages
  <2> QED BY <2>1, <2>2
<1>4. handle[Only] = "open"
  <2>1. Used # {}
    BY <1>1, FS_EmptySet DEF ClientsInv
  <2>2. SlotsOf(mode) = {1}
    BY DEF SlotsOf
  <2>3. clients[1] = Only
    BY <2>1, <2>2, <1>1 DEF ClientsInv, Used
  <2> QED BY <2>1, <2>2, <2>3, <1>1 DEF ClientsInv, Used
<1>5. /\ queue[Only] \in Seq(Buffers) /\ Len(queue[Only]) \in Nat
      /\ own(n) \in Seq(Buffers) /\ Len(own(n)) = n
      /\ \A i \in 1 .. n : own(n)[i] = OwnBuffer
  BY <1>1, OnlyIsAConnection DEF TypeInv, Buffers
<1>6. /\ queue'[Only] \in Seq(Buffers)
      /\ Len(queue'[Only]) = Len(queue[Only]) + n
      /\ \A i \in 1 .. Len(queue'[Only]) :
           queue'[Only][i] = IF i <= Len(queue[Only]) THEN queue[Only][i]
                             ELSE OwnBuffer
      /\ \A p \in Packets : p \in Range(queue'[Only]) <=> p \in Range(queue[Only])
  <2> DEFINE old == queue[Only]
             more == own(n)
  <2>1. queue'[Only] = old \o more
    BY <1>1, <1>3, OnlyIsAConnection DEF TypeInv
  <2>2. /\ old \in Seq(Buffers) /\ Len(old) \in Nat
        /\ more \in Seq(Buffers) /\ Len(more) = n
        /\ \A i \in 1 .. n : more[i] = OwnBuffer
    BY <1>5
  <2> HIDE DEF old, more
  <2>3. /\ old \o more \in Seq(Buffers)
        /\ Len(old \o more) = Len(old) + n
        /\ \A i \in 1 .. Len(old) + n :
             (old \o more)[i] = IF i <= Len(old) THEN old[i]
                                ELSE more[i - Len(old)]
    BY <2>2, ConcatProperties
  <2>4. \A i \in 1 .. Len(old) + n : i > Len(old) => i - Len(old) \in 1 .. n
    BY <2>2
  <2>5. \A i \in 1 .. Len(old) + n :
          (old \o more)[i] = IF i <= Len(old) THEN old[i] ELSE OwnBuffer
    BY <2>2, <2>3, <2>4
  <2>6. Range(old \o more) = Range(old) \cup Range(more)
    BY <2>2, RangeConcatenation
  <2>7. Range(more) = {more[i] : i \in 1 .. Len(more)}
    BY <2>2, RangeEquality
  <2>8. \A p \in Packets : p \notin Range(more)
    BY <2>2, <2>7, NetworkOutputAssumption DEF Packets, OwnBuffer
  <2> QED BY <2>1, <2>3, <2>5, <2>6, <2>8 DEF old
<1>7. \A c \in Connections : c # Only => queue'[c] = queue[c]
  BY <1>1, <1>3 DEF TypeInv
<1>8. TypeInv'
  <2>1. \A c \in Connections : queue'[c] \in Seq(Buffers)
    BY <1>1, <1>6, <1>7 DEF TypeInv
  <2>2. queue' \in [Connections -> Seq(Buffers)]
    BY <2>1, <1>1, <1>3 DEF TypeInv
  <2> QED BY <2>2, <1>1, <1>2 DEF TypeInv
<1>9. ClientsInv'
  BY <1>1, ClientsUntouched
<1>10. NumbersInv'
  <2> SUFFICES ASSUME NEW c \in Connections
               PROVE  /\ \A i \in 1 .. Len(queue'[c]) : queue'[c][i] <= Taken'
                      /\ \A i, j \in 1 .. Len(queue'[c]) :
                           queue'[c][i] = queue'[c][j]
                             /\ queue'[c][i] # OwnBuffer => i = j
    BY <1>2 DEF NumbersInv
  <2>1. \A i \in 1 .. Len(queue[c]) :
          queue[c][i] <= Taken /\ queue[c][i] \in Int
    BY <1>1 DEF NumbersInv, TypeInv, Buffers, OwnBuffer, Packets
  <2>2. \A i, j \in 1 .. Len(queue[c]) :
          queue[c][i] = queue[c][j] /\ queue[c][i] # OwnBuffer => i = j
    BY <1>1, Zenon DEF NumbersInv
  <2>3. CASE c # Only
    BY <2>1, <2>2, <2>3, <1>2, <1>7
  <2>4. CASE c = Only
    <3> DEFINE old == queue[c]
               new == queue'[c]
    <3>1. /\ Len(old) \in Nat /\ Len(new) = Len(old) + n
          /\ \A i \in 1 .. Len(new) :
               new[i] = IF i <= Len(old) THEN old[i] ELSE OwnBuffer
          /\ \A i \in 1 .. Len(old) : old[i] <= Taken /\ old[i] \in Int
          /\ \A i, j \in 1 .. Len(old) :
               old[i] = old[j] /\ old[i] # OwnBuffer => i = j
      BY <2>1, <2>2, <2>4, <1>5, <1>6
    <3>2. OwnBuffer \in Int /\ OwnBuffer <= Taken
      BY <1>2 DEF OwnBuffer
    <3> HIDE DEF old, new
    <3>3. \A i \in 1 .. Len(new) : i <= Len(old) => i \in 1 .. Len(old)
      BY <3>1
    <3>4. \A i \in 1 .. Len(new) : new[i] <= Taken'
      BY <3>1, <3>2, <3>3, <1>2
    <3>5. \A i, j \in 1 .. Len(new) :
            new[i] = new[j] /\ new[i] # OwnBuffer => i = j
      BY <3>1, <3>3
    <3> QED BY <3>4, <3>5 DEF new
  <2> QED BY <2>3, <2>4
<1>11. HandlesInv'
  BY <1>1, <1>4, <1>7 DEF HandlesInv
<1>12. ReferencesMatchWrites'
  <2>1. \A p \in Packets : Writers(p)' = Writers(p)
    BY <1>6, <1>7 DEF Writers
  <2> QED BY <2>1 DEF IInv, ReferencesMatchWrites, Writers
<1>13. SlowClientsHarmLaterSlots'
  BY MissedUntouched DEF IInv
<1> QED BY <1>8, <1>9, <1>10, <1>11, <1>12, <1>13 DEF IInv

LEMMA WritePacketStep == IInv /\ WritePacket => IInv'
<1> SUFFICES ASSUME IInv, WritePacket PROVE IInv'
  OBVIOUS
<1>1. /\ loop \in Before /\ ring # <<>> /\ ring' = Tail(ring)
      /\ UNCHANGED <<mode, compressor, produced, loop, server, handle, clients,
                     active>>
  BY DEF WritePacket, Before, threadVars, clientVars
<1>2. CASE active # 0 /\ mode = "udp"
  <2>1. WriteMessages /\ UNCHANGED <<refs, fullSlots, missed>>
    BY <1>2 DEF WritePacket, WriteMessages
  <2> QED BY <1>1, <1>2, <2>1, WriteMessagesStep
<1>3. CASE active # 0 /\ mode # "udp"
  <2>1. WriteStream(Head(ring))
    BY <1>3 DEF WritePacket
  <2> QED BY <1>1, <2>1, WriteStreamStep
<1>4. CASE active = 0
  <2>1. UNCHANGED <<queue, refs, fullSlots, missed>>
    BY <1>4 DEF WritePacket, writeVars
  <2>2. TypeInv /\ NumbersInv
    BY DEF IInv
  <2>3. /\ ring' \in Seq(Packets) /\ Taken \in Nat /\ Taken' = Taken + 1
        /\ \A i \in 1 .. Len(ring') : ring'[i] = Taken' + i
    BY <1>1, <2>2, HeadOfRing
  <2>4. TypeInv'
    BY <1>1, <2>1, <2>2, <2>3 DEF TypeInv
  <2>5. NumbersInv'
    <3>1. \A c \in Connections : \A i \in 1 .. Len(queue[c]) :
            queue[c][i] <= Taken /\ queue[c][i] \in Int
      BY <2>2 DEF NumbersInv, TypeInv, Buffers, OwnBuffer, Packets
    <3>2. \A c \in Connections : \A i \in 1 .. Len(queue'[c]) :
            queue'[c][i] <= Taken'
      <4>1. \A n \in Int : n <= Taken => n <= Taken' BY <2>3
      <4> QED BY <3>1, <4>1, <2>1
    <3>3. \A c \in Connections : \A i, j \in 1 .. Len(queue'[c]) :
            queue'[c][i] = queue'[c][j] /\ queue'[c][i] # OwnBuffer => i = j
      BY <2>1, <2>2 DEF NumbersInv
    <3>4. Taken' >= 0 BY <2>3
    <3> QED BY <3>2, <3>3, <3>4, <2>3, Zenon DEF NumbersInv
  <2> QED BY <1>1, <2>1, <2>4, <2>5, ClientsUntouched, HandlesUntouched,
             ReferencesUntouched, MissedUntouched DEF IInv
<1> QED BY <1>2, <1>3, <1>4

-----------------------------------------------------------------------------
(* The invariant holds in every reachable state.                           *)

LEMMA StillStep == IInv /\ UNCHANGED vars => IInv'
<1> SUFFICES ASSUME IInv, UNCHANGED vars PROVE IInv'
  OBVIOUS
<1>1. UNCHANGED <<mode, ringVars, loop, server, clientVars, writeVars,
                  fullSlots, missed>>
  BY DEF vars, threadVars
<1> QED BY <1>1, QuietStep

LEMMA NextKeepsInvariant == IInv /\ ShuttingInv /\ [Next]_vars => IInv'
<1> SUFFICES ASSUME IInv, ShuttingInv, Next PROVE IInv'
  BY StillStep
<1>1. CASE LearnSource
  BY <1>1, QuietStep DEF LearnSource
<1>2. CASE ModuleExit
  BY <1>2, QuietStep DEF ModuleExit
<1>3. CASE WritePacket
  BY <1>3, WritePacketStep
<1>4. CASE JoinThreads
  BY <1>4, JoinThreadsStep
<1>5. CASE Compress
  BY <1>5, CompressStep
<1>6. CASE BeginLoop \/ BeginShutdown \/ libuvAsyncShutdown \/ EndLoop
  BY <1>6, BeginLoopStep, BeginShutdownStep, ShutdownStep, EndLoopStep
<1>7. ASSUME NEW c \in Connections,
             Callback(c) \/ ServerConnection(c) \/ PeerGoes(c)
      PROVE  IInv'
  <2>1. CASE CompleteWrite(c)    BY <2>1, CompleteWriteStep
  <2>2. CASE CloseEnds(c)        BY <2>2, CloseEndsStep
  <2>3. CASE ShutdownEnds(c)     BY <2>3, ShutdownEndsStep
  <2>4. CASE ClientConnection(c) BY <2>4, ClientConnectionStep
  <2>5. CASE ServerConnection(c) BY <2>5, ServerConnectionStep
  <2>6. CASE PeerGoes(c)
    BY <2>6, QuietStep DEF PeerGoes, threadVars
  <2> QED BY <1>7, <2>1, <2>2, <2>3, <2>4, <2>5, <2>6 DEF Callback
<1> QED BY <1>1, <1>2, <1>3, <1>4, <1>5, <1>6, <1>7
        DEF Next, Main, Compressor, Output

\* Only the shutdown of the loop begins that of a client.
LEMMA NextKeepsShutting == ShuttingInv /\ [Next]_vars => ShuttingInv'
<1> SUFFICES ASSUME ShuttingInv, [Next]_vars PROVE ShuttingInv'
  OBVIOUS
<1> USE DEF ShuttingInv, Before
<1>1. CASE UNCHANGED vars BY <1>1 DEF vars
<1>2. CASE LearnSource \/ ModuleExit \/ WritePacket \/ JoinThreads \/ Compress
  BY <1>2 DEF LearnSource, ModuleExit, WritePacket, JoinThreads, Compress
<1>3. CASE BeginLoop \/ BeginShutdown \/ libuvAsyncShutdown \/ EndLoop
  BY <1>3 DEF BeginLoop, BeginShutdown, libuvAsyncShutdown, EndLoop
<1>4. ASSUME NEW c \in Connections,
             Callback(c) \/ ServerConnection(c) \/ PeerGoes(c)
      PROVE  ShuttingInv'
  <2>1. CASE CompleteWrite(c)    BY <2>1 DEF CompleteWrite
  <2>2. CASE CloseEnds(c)        BY <2>2 DEF CloseEnds
  <2>3. CASE ShutdownEnds(c)     BY <2>3 DEF ShutdownEnds
  <2>4. CASE ClientConnection(c) BY <2>4 DEF ClientConnection
  <2>5. CASE ServerConnection(c) BY <2>5 DEF ServerConnection
  <2>6. CASE PeerGoes(c)         BY <2>6 DEF PeerGoes
  <2> QED BY <1>4, <2>1, <2>2, <2>3, <2>4, <2>5, <2>6 DEF Callback
<1> QED BY <1>1, <1>2, <1>3, <1>4 DEF Next, Main, Compressor, Output

THEOREM Invariance == Spec => [](IInv /\ ShuttingInv)
<1>1. Init => ShuttingInv
  BY DEF Init, ShuttingInv
<1> QED BY <1>1, InitEstablishes, NextKeepsInvariant, NextKeepsShutting, PTL
        DEF Spec

\* A buffer is never freed while a client still has to write it, and as long
\* as nobody was skipped it is freed with the last write, whoever connects,
\* fails or leaves (libuv.h:151-171, output_common.c:1116-1150).
THEOREM ReferencesAreCounted == Spec => []ReferencesMatchWrites
BY Invariance, PTL DEF IInv

\* A client with room in its queue misses a packet only because of a slow
\* client in a slot before it (output_common.c:1133-1150).
THEOREM OnlySlowClientsHarm == Spec => []SlowClientsHarmLaterSlots
BY Invariance, PTL DEF IInv

-----------------------------------------------------------------------------
(* Types.                                                                  *)

LEMMA InitIsPlain == Init => PlainInv
<1> SUFFICES ASSUME Init PROVE PlainInv
  OBVIOUS
<1>1. Len(ring) <= RingSize
  BY NetworkOutputAssumption, EmptySeq DEF Init
<1>2. \A p \in Packets : refs[p] <= Slots
  BY NetworkOutputAssumption DEF Init
<1> QED BY <1>1, <1>2 DEF Init, PlainInv

\* A packet that is written has at most one reference for every slot.
LEMMA ReferencesAreBounded ==
  ASSUME IInv, PlainInv, NEW p \in Packets, WriteStream(p)
  PROVE  \A q \in Packets : refs'[q] <= Slots
<1> DEFINE used == {s \in DOMAIN clients : clients[s] # None}
           full == {s \in used : IsFull(clients[s])}
           tried == {s \in used : \A f \in full : s < f}
           k == IF full = {} THEN 0 ELSE 1
<1>1. PICK failed \in SUBSET {clients[s] : s \in tried} :
        refs' = [refs EXCEPT ![p] = active - Cardinality(failed) - k]
  BY DEF WriteStream, VisitedSlots, References
<1>a. {clients[s] : s \in tried} \subseteq Connections \cup {None}
  BY DEF IInv, TypeInv
<1>b. k \in {0, 1}
  OBVIOUS
<1> HIDE DEF used, full, tried, k
<1>2. IsFiniteSet(SlotsOf(mode)) /\ Cardinality(SlotsOf(mode)) <= Slots
      /\ Slots \in Nat
  BY SlotsAreNumbers, NetworkOutputAssumption DEF IInv, TypeInv
<1>3. active \in Nat /\ active <= Slots
  <2>1. Used \in SUBSET SlotsOf(mode)
    BY DEF Used
  <2>2. /\ IsFiniteSet(Used) /\ Cardinality(Used) <= Cardinality(SlotsOf(mode))
        /\ Cardinality(Used) \in Nat /\ Cardinality(SlotsOf(mode)) \in Nat
    BY <2>1, <1>2, FS_Subset, FS_CardinalityType
  <2> QED BY <2>2, <1>2 DEF IInv, ClientsInv
<1>4. Cardinality(failed) \in Nat
  <2>2. IsFiniteSet(Connections \cup {None})
    BY NetworkOutputAssumption, FS_AddElement
  <2>3. failed \in SUBSET (Connections \cup {None})
    BY <1>a
  <2> QED BY <2>2, <2>3, FS_Subset, FS_CardinalityType
<1>5. refs \in [Packets -> Int]
  BY DEF IInv, TypeInv
<1>6. active - Cardinality(failed) - k <= Slots
  BY <1>2, <1>3, <1>4, <1>b
<1> QED BY <1>1, <1>5, <1>6 DEF PlainInv

LEMMA WritePacketIsPlain == IInv /\ PlainInv /\ WritePacket => PlainInv'
<1> SUFFICES ASSUME IInv, PlainInv, WritePacket PROVE PlainInv'
  OBVIOUS
<1>1. /\ ring # <<>> /\ ring' = Tail(ring)
      /\ UNCHANGED <<mode, mainPc, sourceKnown, running, told, shutting, gone>>
  BY DEF WritePacket, threadVars
<1>2. Len(ring') <= RingSize
  <2>1. Len(Tail(ring)) = Len(ring) - 1 /\ Len(ring) \in Nat
    BY <1>1, HeadTailProperties DEF IInv, TypeInv
  <2> QED BY <2>1, <1>1, NetworkOutputAssumption DEF PlainInv
<1>3. \A p \in Packets : refs'[p] <= Slots
  <2>1. CASE refs' = refs
    BY <2>1 DEF PlainInv
  <2>2. CASE WriteStream(Head(ring))
    <3>1. Head(ring) \in Packets
      BY <1>1, HeadTailProperties DEF IInv, TypeInv
    <3> QED BY <2>2, <3>1, ReferencesAreBounded
  <2> QED BY <2>1, <2>2 DEF WritePacket, WriteMessages, writeVars
<1> QED BY <1>1, <1>2, <1>3 DEF PlainInv

\* The end of a write gives a reference back; closing a handle may abort.
LEMMA WriteEndsIsPlain ==
  ASSUME IInv, PlainInv, NEW c \in Connections, NEW ok, queue[c] # <<>>,
         WriteEnds(c, ok),
         UNCHANGED <<mode, sourceKnown, running, told, ring, shutting, gone>>
  PROVE  PlainInv'
<1>1. mainPc' \in {mainPc, "aborted"}
  BY DEF WriteEnds, libuvWriteStatusCheck, CloseHandle
<1>2. \A p \in Packets : refs'[p] \in {refs[p], refs[p] - 1}
  <2>1. Head(queue[c]) = OwnBuffer \/ Head(queue[c]) \in Packets
    BY HeadTailProperties DEF IInv, TypeInv, Buffers
  <2> QED BY <2>1 DEF WriteEnds, IInv, TypeInv
<1>3. \A p \in Packets : refs[p] \in Int /\ refs[p] <= Slots
  BY DEF PlainInv, IInv, TypeInv
<1>4. \A p \in Packets : refs'[p] <= Slots
  BY <1>2, <1>3, NetworkOutputAssumption
<1> QED BY <1>1, <1>4 DEF PlainInv

LEMMA CallbackIsPlain ==
  ASSUME IInv, PlainInv, NEW c \in Connections,
         Callback(c) \/ ServerConnection(c) \/ PeerGoes(c)
  PROVE  PlainInv'
<1> USE DEF ringVars, threadVars, writeVars
<1>1. CASE CompleteWrite(c)
  BY <1>1, WriteEndsIsPlain DEF CompleteWrite
<1>2. CASE CloseEnds(c)
  <2>1. CASE queue[c] # <<>>
    <3>1. PICK ok \in BOOLEAN : WriteEnds(c, ok)
      BY <1>2, <2>1 DEF CloseEnds
    <3>2. UNCHANGED <<mode, sourceKnown, running, told, ring, shutting, gone>>
      BY <1>2, <2>1 DEF CloseEnds
    <3> QED BY <2>1, <3>1, <3>2, WriteEndsIsPlain
  <2>2. CASE queue[c] = <<>>
    <3>1. /\ mainPc' \in {mainPc, "aborted"}
          /\ shutting' \subseteq shutting /\ gone' \subseteq gone
          /\ UNCHANGED <<mode, sourceKnown, running, told, ring, refs>>
      BY <1>2, <2>2 DEF CloseEnds, CloseHandle
    <3> QED BY <3>1 DEF PlainInv
  <2> QED BY <2>1, <2>2
<1>3. CASE ShutdownEnds(c)
  BY <1>3 DEF ShutdownEnds, CloseHandle, PlainInv
<1>4. CASE ClientConnection(c) \/ ServerConnection(c)
  BY <1>4 DEF ClientConnection, ServerConnection, PlainInv
<1>5. CASE PeerGoes(c)
  BY <1>5 DEF PeerGoes, PlainInv
<1> QED BY <1>1, <1>2, <1>3, <1>4, <1>5 DEF Callback

LEMMA NextKeepsPlain == IInv /\ PlainInv /\ [Next]_vars => PlainInv'
<1> SUFFICES ASSUME IInv, PlainInv, [Next]_vars PROVE PlainInv'
  OBVIOUS
<1> USE DEF threadVars, ringVars, writeVars
<1>1. CASE UNCHANGED vars
  BY <1>1 DEF vars, PlainInv
<1>2. CASE LearnSource \/ ModuleExit \/ JoinThreads
  BY <1>2 DEF LearnSource, ModuleExit, JoinThreads, PlainInv
<1>3. CASE Compress
  <2>1. UNCHANGED <<mode, mainPc, sourceKnown, running, told, refs, shutting,
                    gone>>
    BY <1>3 DEF Compress
  <2>2. Len(ring') <= RingSize
    <3>1. CASE ring' = ring BY <3>1 DEF PlainInv
    <3>2. CASE Len(ring) < RingSize /\ ring' = Append(ring, produced)
      <4>1. Len(Append(ring, produced)) = Len(ring) + 1 /\ Len(ring) \in Nat
        BY DEF IInv, TypeInv
      <4> QED BY <4>1, <3>2, NetworkOutputAssumption
    <3> QED BY <1>3, <3>1, <3>2 DEF Compress
  <2> QED BY <2>1, <2>2 DEF PlainInv
<1>4. CASE WritePacket
  BY <1>4, WritePacketIsPlain
<1>5. CASE BeginLoop
  <2>1. UNCHANGED <<mode, mainPc, sourceKnown, running, told, refs, shutting,
                    gone>>
    BY <1>5 DEF BeginLoop
  <2>2. Len(ring') <= RingSize
    <3>1. CASE ring' = ring BY <3>1 DEF PlainInv
    <3>2. CASE ring' = <<>>
      BY <3>2, EmptySeq, NetworkOutputAssumption
    <3> QED BY <1>5, <3>1, <3>2 DEF BeginLoop
  <2> QED BY <2>1, <2>2 DEF PlainInv
<1>6. CASE BeginShutdown \/ EndLoop
  BY <1>6 DEF BeginShutdown, EndLoop, PlainInv
<1>7. CASE libuvAsyncShutdown
  <2>1. Listed \subseteq Connections
    BY DEF IInv, TypeInv, Listed, Range
  <2> QED BY <1>7, <2>1 DEF libuvAsyncShutdown, PlainInv
<1>8. ASSUME NEW c \in Connections,
             Callback(c) \/ ServerConnection(c) \/ PeerGoes(c)
      PROVE  PlainInv'
  BY <1>8, CallbackIsPlain
<1> QED BY <1>1, <1>2, <1>3, <1>4, <1>5, <1>6, <1>7, <1>8
        DEF Next, Main, Compressor, Output

\* Types: the ring-buffer is never overfilled, a buffer has at most one
\* reference for every slot, and activeClients counts the clients there are.
THEOREM TypeCorrect == Spec => []TypeOK
<1>1. IInv /\ PlainInv => TypeOK
  <2> SUFFICES ASSUME IInv, PlainInv PROVE TypeOK
    OBVIOUS
  <2>1. refs \in [Packets -> 0 .. Slots]
    <3> SUFFICES ASSUME NEW p \in Packets PROVE refs[p] \in 0 .. Slots
      BY DEF IInv, TypeInv
    <3>1. Cardinality(Writers(p)) <= refs[p]
      BY DEF IInv, ReferencesMatchWrites, Writers
    <3>2. Cardinality(Writers(p)) \in Nat /\ refs[p] \in Int
      BY WritersFinite, FS_CardinalityType DEF IInv, TypeInv
    <3> QED BY <3>1, <3>2, NetworkOutputAssumption DEF PlainInv
  <2>2. active = Cardinality({s \in SlotsOf(mode) : clients[s] # None})
    BY DEF IInv, ClientsInv, Used
  <2>3. \A c \in Connections : queue[c] \in Seq({OwnBuffer} \cup Packets)
    BY DEF IInv, TypeInv, Buffers
  <2> QED BY <2>1, <2>2, <2>3 DEF IInv, TypeInv, PlainInv, TypeOK
<1> QED BY <1>1, Invariance, InitIsPlain, NextKeepsPlain, PTL DEF Spec
=============================================================================
