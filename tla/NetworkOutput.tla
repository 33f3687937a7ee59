--------------------------- MODULE NetworkOutput ---------------------------
(***************************************************************************)
(* The Output thread of a network output (modules/misc/out/output_common.c *)
(* and net_*.c, unix_socket*.c): a libuv loop that writes what the         *)
(* Compressor puts into the ring-buffer to the clients of a server, to the *)
(* server it has connected to, or as UDP messages, until Exit tells it to  *)
(* shut down.                                                              *)
(*                                                                         *)
(* The loop runs one callback after another, each is one step here, but    *)
(* for the one that shuts down, which writes packet after packet first.    *)
(* Packets are numbered. The writes of a handle that have not completed    *)
(* are its queue; one packet's buffer is shared by the clients it goes to  *)
(* and counts its references. OwnBuffer stands for a buffer nobody shares: *)
(* a network header, a UDP chunk.                                          *)
(*                                                                         *)
(* Other actors: the Compressor, the mainloop, which lets the module run   *)
(* and stops it, and the peers, who connect, read or go away. Calls of     *)
(* libuv other than writes succeed. Sequence numbers of UDP headers and    *)
(* what Compressor and mainloop do otherwise (OutputPipeline) are left     *)
(* out.                                                                    *)
(***************************************************************************)
EXTENDS Integers, Sequences, FiniteSets, Functions

CONSTANTS
  Modes,       \* kinds of network outputs to look at
  Connections, \* handles of clients: at most as many at a time
  Slots,       \* clientsSize of a server, its "concurrentConnections"
  RingSize,    \* size of the ring-buffer
  QueueLimit,  \* MAX_OUTPUT_QUEUED_SIZE, as a number of writes
  MaxChunks,   \* UDP messages of one packet
  MaxPackets   \* bound on packets

ASSUME NetworkOutputAssumption ==
  /\ Modes \subseteq {"server", "client", "udp"}
  /\ IsFiniteSet(Connections) /\ Connections # {}
  /\ {Slots, RingSize, QueueLimit, MaxChunks} \subseteq Nat \ {0}
  /\ MaxPackets \in Nat

None == "none"   \* NULL
ASSUME NoneAssumption == None \notin Connections

OwnBuffer == 0
Packets == 1 .. MaxPackets
Only == CHOOSE c \in Connections : TRUE   \* where there is just one

VARIABLES
  mode,        \* the kind of output
  mainPc,      \* the module: running, in Exit, freed; or the program's end
  sourceKnown, \* state->sourceID is set
  running,     \* state->running
  told,        \* uv_async_send was called
  compressor,  \* "idle", "holds" a packet, or "ended"
  ring,        \* state->outputRing
  produced,    \* number of the last packet
  loop,        \* where the Output thread is
  server,      \* whether the server listens
  handle,      \* state of each connection's handle
  clients,     \* streams->clients
  active,      \* streams->activeClients
  queue,       \* writes of each handle that have not completed
  shutting,    \* handles whose uv_shutdown has not completed
  refs,        \* refCount of each packet's buffer, 0 once it is free
  gone,        \* connections whose peer has gone away
  fullSlots,   \* history: slots a packet was skipped at
  missed       \* history: clients that missed a packet they could take

threadVars == <<mode, mainPc, sourceKnown, running, told>>
ringVars   == <<compressor, ring, produced>>
clientVars == <<handle, clients, active>>
writeVars  == <<queue, refs>>
vars == <<threadVars, ringVars, loop, server, clientVars, writeVars, shutting,
          gone, fullSlots, missed>>

SlotsOf(m) == IF m = "server" THEN 1 .. Slots ELSE {1}
Listed == Range(clients) \ {None}

TypeOK ==
  /\ mode \in Modes
  /\ mainPc \in {"on", "exit", "off", "undefined", "aborted"}
  /\ {sourceKnown, running, told, server} \subseteq BOOLEAN
  /\ compressor \in {"idle", "holds", "ended"}
  /\ ring \in Seq(Packets) /\ Len(ring) <= RingSize
  /\ produced \in 0 .. MaxPackets
  /\ loop \in {"waitSource", "run", "drain", "closing", "ended", "skipped"}
  /\ handle \in [Connections -> {"none", "connecting", "open", "closing"}]
  /\ clients \in [SlotsOf(mode) -> Connections \cup {None}]
  /\ active = Cardinality({s \in SlotsOf(mode) : clients[s] # None})
  /\ \A c \in Connections : queue[c] \in Seq({OwnBuffer} \cup Packets)
  /\ refs \in [Packets -> 0 .. Slots]
  /\ shutting \subseteq Connections /\ gone \subseteq Connections
  /\ fullSlots \subseteq SlotsOf(mode) /\ missed \subseteq Connections

\* After caerOutputCommonInit.
Init ==
  /\ mode \in Modes
  /\ mainPc = "on" /\ sourceKnown = FALSE /\ running = TRUE /\ told = FALSE
  /\ compressor = "idle" /\ ring = <<>> /\ produced = 0
  /\ loop = "waitSource"
  /\ server = (mode = "server")
  /\ handle = [c \in Connections |->
       CASE c = Only /\ mode = "client" -> "connecting"
         [] c = Only /\ mode = "udp" -> "open"
         [] OTHER -> "none"]
  /\ clients = [s \in SlotsOf(mode) |-> IF mode = "udp" THEN Only ELSE None]
  /\ active = IF mode = "udp" THEN 1 ELSE 0
  /\ queue = [c \in Connections |-> <<>>] /\ refs = [p \in Packets |-> 0]
  /\ shutting = {} /\ gone = {} /\ fullSlots = {} /\ missed = {}

Alive == mainPc \notin {"undefined", "aborted"}
-----------------------------------------------------------------------------
(* The mainloop and the Compressor.                                        *)

\* The first container tells the source.
LearnSource ==
  /\ mainPc = "on" /\ ~sourceKnown /\ sourceKnown' = TRUE
  /\ UNCHANGED <<mode, mainPc, running, told, ringVars, loop, server,
                 clientVars, writeVars, shutting, gone, fullSlots, missed>>

ModuleExit ==
  /\ mainPc = "on" /\ mainPc' = "exit"
  /\ running' = FALSE /\ told' = TRUE
  /\ UNCHANGED <<mode, sourceKnown, ringVars, loop, server, clientVars,
                 writeVars, shutting, gone, fullSlots, missed>>

\* libuvCloseLoopHandles frees the handles that are left. Two of them are
\* part of the structure, and only the loop would have closed those.
JoinThreads ==
  /\ mainPc = "exit" /\ compressor = "ended" /\ loop \in {"ended", "skipped"}
  /\ mainPc' = IF loop = "skipped" THEN "undefined" ELSE "off"
  /\ handle' = [c \in Connections |-> "none"]
  /\ UNCHANGED <<mode, sourceKnown, running, told, ringVars, loop, server,
                 clients, active, writeVars, shutting, gone, fullSlots,
                 missed>>

\* sendEventPacket tries again and again to put its packet.
Compress ==
  /\ \/ /\ compressor = "idle" /\ sourceKnown /\ produced < MaxPackets
        /\ compressor' = "holds" /\ produced' = produced + 1
        /\ UNCHANGED ring
     \/ /\ compressor = "holds" /\ Len(ring) < RingSize
        /\ compressor' = "idle" /\ ring' = Append(ring, produced)
        /\ UNCHANGED produced
     \/ /\ compressor = "idle" /\ ~running
        /\ compressor' = "ended" /\ UNCHANGED <<ring, produced>>
  /\ UNCHANGED <<threadVars, loop, server, clientVars, writeVars, shutting,
                 gone, fullSlots, missed>>
-----------------------------------------------------------------------------
(* Writes.                                                                 *)

\* uv_close: not to be called for a handle that is closing already.
CloseHandle(c) ==
  /\ handle' = [handle EXCEPT ![c] = "closing"]
  /\ mainPc' = IF handle[c] = "closing" THEN "aborted" ELSE mainPc

\* The first write that fails takes the client from the list.
IsListed(c) == c \in Listed

libuvWriteStatusCheck(c, ok) ==
  IF ~ok /\ IsListed(c)
  THEN /\ clients' = [s \in DOMAIN clients |->
                        IF clients[s] = c THEN None ELSE clients[s]]
       /\ active' = IF c \in Listed THEN active - 1 ELSE active
       /\ CloseHandle(c)
  ELSE UNCHANGED <<clientVars, mainPc>>

\* libuvWriteFree and libuvWriteFreeUDP: the oldest write of c has ended.
WriteEnds(c, ok) ==
  LET p == Head(queue[c])
  IN /\ libuvWriteStatusCheck(c, ok)
     /\ queue' = [queue EXCEPT ![c] = Tail(@)]
     /\ refs' = IF p = OwnBuffer THEN refs ELSE [refs EXCEPT ![p] = @ - 1]

IsFull(c) == Len(queue[c]) > QueueLimit

\* Mutant: as many slots as there are clients.
FirstSlots == 1 .. active

\* The slots writePacket goes through.
VisitedSlots == DOMAIN clients

\* Mutant: one reference, as libuvWriteBufAlloc leaves it.
OneReference(n) == 1

\* One reference for every client.
References(n) == n

\* writePacket for TCP and pipes. A client whose queue is full ends the loop
\* over the slots, with one reference given back.
WriteStream(p) ==
  LET used == {s \in VisitedSlots : clients[s] # None}
      full == {s \in used : IsFull(clients[s])}
      tried == {s \in used : \A f \in full : s < f}
  IN \E failed \in SUBSET {clients[s] : s \in tried} :
       LET taken == {clients[s] : s \in tried} \ failed
       IN /\ queue' = [c \in Connections |->
                         IF c \in taken THEN Append(queue[c], p) ELSE queue[c]]
          /\ refs' = [refs EXCEPT ![p] =
               References(active) - Cardinality(failed)
                 - (IF full = {} THEN 0 ELSE 1)]
          /\ fullSlots' = fullSlots \cup {f \in full : \A g \in full : f <= g}
          /\ missed' = missed \cup {c \in Listed \ (taken \cup failed) : ~IsFull(c)}

\* writePacket for UDP: one message after another, until one cannot be sent.
WriteMessages ==
  /\ IF IsFull(Only)
     THEN UNCHANGED queue
     ELSE \E n \in 0 .. MaxChunks :
            queue' = [queue EXCEPT ![Only] = @ \o [i \in 1 .. n |-> OwnBuffer]]
  /\ UNCHANGED <<refs, fullSlots, missed>>

\* With no active client the packet is dropped.
WritePacket ==
  /\ loop \in {"run", "drain"} /\ ring # <<>>
  /\ ring' = Tail(ring)
  /\ IF active = 0 THEN UNCHANGED <<writeVars, fullSlots, missed>>
     ELSE IF mode = "udp" THEN WriteMessages
     ELSE WriteStream(Head(ring))
  /\ UNCHANGED <<threadVars, compressor, produced, loop, server, clientVars,
                 shutting, gone>>
-----------------------------------------------------------------------------
(* Callbacks of the loop. None runs in the midst of the shutdown.          *)

InLoop == loop \in {"run", "closing"}

\* libuv has written the oldest buffer, or found that the peer has gone.
CompleteWrite(c) ==
  /\ InLoop /\ handle[c] = "open" /\ queue[c] # <<>>
  /\ WriteEnds(c, c \notin gone)
  /\ UNCHANGED <<mode, sourceKnown, running, told, ringVars, loop, server,
                 shutting, gone, fullSlots, missed>>

\* Closing cancels the writes that are left, then the shutdown; it ends with
\* libuvCloseFree.
CloseEnds(c) ==
  /\ InLoop /\ handle[c] = "closing"
  /\ IF queue[c] # <<>>
     THEN WriteEnds(c, FALSE) /\ UNCHANGED <<shutting, gone, missed>>
     ELSE IF c \in shutting
     THEN /\ CloseHandle(c)
          /\ shutting' = shutting \ {c}
          /\ UNCHANGED <<clients, active, writeVars, gone, missed>>
     ELSE /\ handle' = [handle EXCEPT ![c] = "none"]
          /\ gone' = gone \ {c} /\ missed' = missed \ {c}
          /\ UNCHANGED <<mainPc, clients, active, writeVars, shutting>>
  /\ UNCHANGED <<mode, sourceKnown, running, told, ringVars, loop, server,
                 fullSlots>>

\* libuvClientShutdown, when all writes have ended.
ShutdownEnds(c) ==
  /\ InLoop /\ c \in shutting /\ handle[c] = "open" /\ queue[c] = <<>>
  /\ CloseHandle(c)
  /\ shutting' = shutting \ {c}
  /\ UNCHANGED <<mode, sourceKnown, running, told, ringVars, loop, server,
                 clients, active, writeVars, gone, fullSlots, missed>>

\* The header is the first write; then the client is put into the slot.
Enter(c, slot) ==
  /\ queue' = [queue EXCEPT ![c] = <<OwnBuffer>>]
  /\ clients' = [clients EXCEPT ![slot] = c]
  /\ active' = active + 1
  /\ handle' = [handle EXCEPT ![c] = "open"]

\* caerOutputCommonOnServerConnection: with no slot free, or no header
\* written, the connection is closed again.
ServerConnection(c) ==
  /\ InLoop /\ server /\ handle[c] = "none"
  /\ \/ \E s \in DOMAIN clients :
          /\ clients[s] = None /\ \A t \in 1 .. s - 1 : clients[t] # None
          /\ Enter(c, s)
     \/ /\ handle' = [handle EXCEPT ![c] = "closing"]
        /\ UNCHANGED <<queue, clients, active>>
  /\ UNCHANGED <<threadVars, ringVars, loop, server, refs, shutting, gone,
                 fullSlots, missed>>

\* caerOutputCommonOnClientConnection: on failure the handle stays as it is.
ClientConnection(c) ==
  /\ InLoop /\ handle[c] = "connecting"
  /\ \/ Enter(c, 1)
     \/ /\ handle' = [handle EXCEPT ![c] = "open"]
        /\ UNCHANGED <<queue, clients, active>>
  /\ UNCHANGED <<threadVars, ringVars, loop, server, refs, shutting, gone,
                 fullSlots, missed>>

\* A peer goes away: writes to it will fail.
PeerGoes(c) ==
  /\ handle[c] = "open" /\ c \notin gone /\ gone' = gone \cup {c}
  /\ UNCHANGED <<threadVars, ringVars, loop, server, clientVars, writeVars,
                 shutting, fullSlots, missed>>
-----------------------------------------------------------------------------
(* The Output thread: outputThread.                                        *)

\* Stopped before there was a source, it never runs the loop.
BeginLoop ==
  /\ loop = "waitSource"
  /\ \/ running /\ sourceKnown /\ loop' = "run" /\ UNCHANGED ring
     \/ ~running /\ loop' = "skipped" /\ ring' = <<>>
  /\ UNCHANGED <<threadVars, compressor, produced, server, clientVars,
                 writeVars, shutting, gone, fullSlots, missed>>

\* libuvAsyncShutdown stops the idle handle that takes packets ...
BeginShutdown ==
  /\ loop = "run" /\ told /\ loop' = "drain"
  /\ UNCHANGED <<threadVars, ringVars, server, clientVars, writeVars,
                 shutting, gone, fullSlots, missed>>

\* Mutant: the server goes on listening.
ServerStays == server

\* The server is closed.
ServerAfterShutdown == FALSE

\* ... writes what is in the ring-buffer, and when that is empty closes the
\* server and its own handle, and all clients: those of TCP and pipes when
\* their writes have ended, that of UDP at once.
libuvAsyncShutdown ==
  /\ loop = "drain" /\ ring = <<>>
  /\ loop' = "closing"
  /\ server' = ServerAfterShutdown
  /\ IF mode = "udp"
     THEN /\ handle' = [c \in Connections |->
                          IF c \in Listed THEN "closing" ELSE handle[c]]
          /\ UNCHANGED shutting
     ELSE shutting' = Listed /\ UNCHANGED handle
  /\ UNCHANGED <<threadVars, ringVars, clients, active, writeVars, gone,
                 fullSlots, missed>>

\* uv_run returns when nothing is left to wait for.
EndLoop ==
  /\ loop = "closing" /\ ~server /\ shutting = {}
  /\ \A c \in Connections :
       handle[c] \in {"none", "open"} /\ queue[c] = <<>>
  /\ loop' = "ended"
  /\ UNCHANGED <<threadVars, ringVars, server, clientVars, writeVars,
                 shutting, gone, fullSlots, missed>>

Main == Alive /\ JoinThreads
Compressor == Alive /\ Compress
Output ==
  Alive /\ \/ BeginLoop \/ BeginShutdown \/ libuvAsyncShutdown \/ EndLoop
           \/ loop = "drain" /\ WritePacket
Callback(c) ==
  Alive /\ (CompleteWrite(c) \/ CloseEnds(c) \/ ShutdownEnds(c)
            \/ ClientConnection(c))

Next ==
  \/ Alive /\ (LearnSource \/ ModuleExit \/ WritePacket)
  \/ Main \/ Compressor \/ Output
  \/ \E c \in Connections :
       Callback(c) \/ (Alive /\ (ServerConnection(c) \/ PeerGoes(c)))

\* The threads go on, and the network does: a write completes or fails, a
\* connection attempt ends. A peer that stays but never reads again is left
\* out: Exit would wait for it.
Spec ==
  /\ Init /\ [][Next]_vars
  /\ WF_vars(Main) /\ WF_vars(Compressor) /\ WF_vars(Output)
  /\ \A c \in Connections : WF_vars(Callback(c))
-----------------------------------------------------------------------------
(* Properties.                                                             *)

\* A buffer is never freed while a client still has to write it, and as long
\* as nobody was skipped it is freed with the last write (libuv.h:158).
ReferencesMatchWrites ==
  \A p \in Packets :
    LET writes == Cardinality({c \in Connections : p \in Range(queue[c])})
    IN writes <= refs[p] /\ (fullSlots = {} => refs[p] = writes)

\* A client with room in its queue misses a packet only because of a slow
\* client in a slot before it (output_common.c:1143).
SlowClientsHarmLaterSlots ==
  \A s \in DOMAIN clients :
    clients[s] \in missed => \E f \in fullSlots : f < s

\* The Compressor holds a packet for a loop that has ended.
NobodyTakesPackets ==
  compressor = "holds" /\ Len(ring) = RingSize /\ loop \in {"ended", "skipped"}

\* The loop will close a handle it is closing, which libuv does not allow: a
\* write that failed during the shutdown closed a client whose uv_shutdown is
\* still to come back (output_common.c:1028 and :1006), or the UDP handle was
\* closed with messages to send (:983 and :1028).
ClosesTwice ==
  \E c \in Connections :
    handle[c] = "closing" /\ (c \in shutting \/ (IsListed(c) /\ queue[c] # <<>>))

\* Stopped before there was a source, Exit frees handles that are part of the
\* structure (output_common.c:869-877, libuv.h:299).
NeverRan == loop = "skipped"

\* Exit returns with everything closed and freed, whoever is connected,
\* whatever is still to be written and whichever client goes away meanwhile,
\* but for these three ways in which it goes wrong.
ExitEnds ==
  mainPc = "exit" ~>
    mainPc = "off" \/ NobodyTakesPackets \/ ClosesTwice \/ NeverRan
=============================================================================
