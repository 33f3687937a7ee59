--------------------------- MODULE SpikeGenerator ---------------------------
(***************************************************************************)
(* The stimulation thread of the Dynap-SE input module                     *)
(* (modules/ini/gen_spikes.c, dynapse_common.c). The mainloop starts and   *)
(* stops the module; the configuration server puts attributes, whose       *)
(* listeners run in its thread; the SpikeGenThread polls the copies the    *)
(* listeners make and sends spikes and commands to the chips of the board. *)
(* Nothing but single atomic stores connects them.                         *)
(*                                                                         *)
(* "attr" are the attributes of the spikeGen/ node, "state" is             *)
(* genSpikeState, zero until the module starts. A listener runs under the  *)
(* lock of its node: while "call" has stores left to make, nobody else     *)
(* gets at the node. To address a chip is two transfers: its ID, then the  *)
(* content. Time is whether stim_duration has passed since tstart; tstart, *)
(* like the flags that remember commands, is a static variable and         *)
(* outlives the module.                                                    *)
(*                                                                         *)
(* main = "undefined" is undefined behaviour: a handle used after its      *)
(* device was closed, a thread left behind with freed state, a join of a   *)
(* thread never created. Not here: the ETF stimulation, the teaching and   *)
(* inhibitory spikes of the single patterns, and the biases the thread     *)
(* itself puts.                                                            *)
(***************************************************************************)
EXTENDS Naturals, Sequences

CONSTANTS
  Chips,          \* the chips of the board
  DefaultChip,    \* the default of chip_id
  Commands,       \* setCam, clearCam, ... in the order the thread looks at them
  ClearCommands,  \* those that take their flag back when they are done
  StimTypes,      \* "regular", "pattern" or "none" (a number without stimulation)
  Durations,      \* stim_duration: 0, or 1 for any longer time
  MaxPuts,        \* attributes clients put
  MaxStarts       \* starts of the module

ASSUME SpikeGeneratorAssumption ==
  /\ DefaultChip \in Chips /\ Commands \in Seq(STRING) \ {<<>>} /\ ClearCommands \subseteq STRING
  /\ StimTypes \subseteq {"regular", "pattern", "none"}
  /\ Durations \subseteq {0, 1}
  /\ MaxPuts \in Nat /\ MaxStarts \in Nat

\* The flags of the commands are fields of their own.
ASSUME NamesAssumption ==
  \A i \in DOMAIN Commands :
    Commands[i] \notin {"doStim", "repeat", "stim_type", "stim_duration",
                       "chip_id", "started", "done", "running"}

VARIABLES
  \* the mainloop thread
  main,       \* see MainPlaces
  reading,    \* the attribute caerGenSpikeInit is at, an index of InitOrder
  loaded,     \* its value, once it has been read
  starts,     \* starts of the module so far
  \* the server's thread
  biasCall,   \* the bias listener it is in
  puts,       \* attributes it has put so far
  \* the SpikeGenThread
  gen,        \* see GenPlaces
  at,         \* the command it looks at
  handle,     \* the handle it holds in a local variable is not NULL
  \* shared
  attr,       \* attributes of the spikeGen/ node
  state,      \* state->genSpikeState
  listening,  \* the listeners of the module are registered
  call,       \* who is in the listener of spikeGen/, with what left to store
  board,      \* the board: open or not, and the chip that is selected
  \* static
  elapsed,    \* stim_duration (unless 0) has passed since tstart
  made,       \* CamSeted, CamCleared, ...
  \* history
  late        \* spikes sent since stimulation was disabled, at most 2

startVars  == <<reading, loaded, starts>>
mainVars   == <<main, startVars>>
serverVars == <<biasCall, puts>>
genVars    == <<gen, at, handle>>
nodeVars   == <<attr, state, call>>
staticVars == <<elapsed, made>>
history    == <<late>>
vars == <<mainVars, serverVars, genVars, nodeVars, listening, board,
          staticVars, history>>

CommandSet == {Commands[i] : i \in DOMAIN Commands}
Switches   == {"doStim", "repeat"} \cup CommandSet
Keys       == Switches \cup {"stim_type", "stim_duration", "chip_id"}

Values(k) ==
  CASE k \in Switches       -> BOOLEAN
    [] k = "stim_type"      -> StimTypes
    [] k = "stim_duration"  -> Durations
    [] k = "chip_id"        -> Chips

Fields == Keys \cup {"started", "done", "running"}

\* The attributes in the order caerGenSpikeInit reads them; it comes to the
\* last one when it has started the thread.
InitOrder ==
  <<"doStim", "stim_type", "stim_duration", "repeat">> \o Commands \o <<"chip_id">>

MainPlaces ==
  {"stopped", "load", "store", "started", "done", "thread", "start", "running",
   "exitPut", "exitListener", "exitRemove", "exitClose", "exitStim",
   "exitRunning", "exitJoin", "undefined"}
GenPlaces ==
  {"none", "loop", "stim", "once", "write", "train", "check", "finish",
   "again", "sending", "spike", "ended"}

NoCall == [by |-> "nobody", stores |-> <<>>]
NoBias == [busy |-> FALSE]

TypeOK ==
  /\ main \in MainPlaces
  /\ starts \in 0 .. MaxStarts /\ puts \in 0 .. MaxPuts
  /\ gen \in GenPlaces /\ at \in 1 .. Len(Commands) + 1
  /\ handle \in BOOLEAN
  /\ DOMAIN attr = Keys /\ \A k \in Keys : attr[k] \in Values(k)
  /\ reading \in 1 .. Len(InitOrder)
  /\ main = "store" => loaded \in Values(InitOrder[reading])
  /\ DOMAIN state = Fields /\ \A k \in Keys : state[k] \in Values(k)
  /\ \A k \in Fields \ Keys : state[k] \in BOOLEAN
  /\ listening \in BOOLEAN /\ elapsed \in BOOLEAN
  /\ call.by \in {"nobody", "main", "server"}
  /\ call.by = "nobody" <=> call.stores = <<>>
  /\ board \in [open : BOOLEAN, selected : Chips]
  /\ made \in [CommandSet -> BOOLEAN]
  /\ late \in 0 .. 2

\* A module that has just been created, with its defaults or attributes of a
\* configuration file; commands are off. tstart is 0, the start of the
\* machine, which may be any time ago.
Init ==
  /\ main = "stopped" /\ starts = 0
  /\ biasCall = NoBias /\ puts = 0
  /\ gen = "none" /\ at = 1 /\ handle = FALSE
  /\ \E on \in SUBSET {"doStim", "repeat"} :
     \E type \in StimTypes, duration \in Durations :
       attr = [k \in Keys |-> CASE k \in Switches      -> k \in on
                                [] k = "stim_type"     -> type
                                [] k = "stim_duration" -> duration
                                [] k = "chip_id"       -> DefaultChip]
  /\ reading = 1 /\ loaded = <<>>
  /\ state = [k \in Fields |-> IF k \in {"stim_type", "stim_duration", "chip_id"}
                               THEN attr[k] ELSE FALSE]
  /\ listening = FALSE /\ call = NoCall
  /\ board = [open |-> FALSE, selected |-> DefaultChip]
  /\ elapsed \in BOOLEAN /\ made = [c \in CommandSet |-> FALSE]
  /\ late = 0

-----------------------------------------------------------------------------
(* Attributes and their listener. *)

\* What spikeConfigListener stores, in its order, when k is changed to v.
StoresOf(k, v) ==
  IF k # "doStim" THEN <<<<k, v>>>>
  ELSE IF v THEN <<<<k, TRUE>>, <<"done", FALSE>>, <<"started", TRUE>>>>
  ELSE <<<<k, FALSE>>, <<"started", FALSE>>, <<"done", TRUE>>>>

\* The first of the stores is made, the rest are left to the caller's next
\* steps.
Store(who, stores) ==
  LET field == Head(stores)[1]
      value == Head(stores)[2]
  IN  /\ state' = [state EXCEPT ![field] = value]
      /\ call' = IF Len(stores) = 1 THEN NoCall
                 ELSE [by |-> who, stores |-> Tail(stores)]
      /\ late' = IF field = "doStim" /\ value THEN 0 ELSE late

\* sshsNodePutAttribute: the listener is called if the value changes.
Put(who, k, v) ==
  /\ call = NoCall
  /\ attr' = [attr EXCEPT ![k] = v]
  /\ IF listening /\ attr[k] # v
     THEN Store(who, StoresOf(k, v))
     ELSE UNCHANGED <<state, call, history>>

-----------------------------------------------------------------------------
(* The mainloop thread: start. *)

\* caerInputDYNAPSEInit: the device is opened, its settings are sent, and the
\* listeners are registered. If there is no device the start fails.
StartModule ==
  /\ main = "stopped" /\ starts < MaxStarts
  /\ starts' = starts + 1
  /\ \/ /\ board' = [board EXCEPT !.open = TRUE]
        /\ listening' = TRUE
        /\ reading' = 1
        /\ main' = "load"
     \/ UNCHANGED <<main, reading, board, listening>>
  /\ UNCHANGED <<loaded, serverVars, genVars, nodeVars, staticVars, history>>

\* caerGenSpikeInit reads an attribute under the lock of the node ...
LoadAttribute ==
  /\ main = "load" /\ call = NoCall
  /\ loaded' = attr[InitOrder[reading]]
  /\ main' = "store"
  /\ UNCHANGED <<reading, starts, serverVars, genVars, nodeVars, listening,
                 board, staticVars, history>>

\* ... stores it over what the listener may have stored meanwhile, and goes
\* on with the next one. When only chip_id is left it starts the thread
\* first.
StoreAttribute ==
  /\ main = "store"
  /\ state' = [state EXCEPT ![InitOrder[reading]] = loaded]
  /\ late' = IF InitOrder[reading] = "doStim" /\ loaded THEN 0 ELSE late
  /\ loaded' = <<>>
  /\ LET left == Len(InitOrder) - reading IN
     /\ main' = CASE left > 1 -> "load" [] left = 1 -> "started"
                  [] OTHER -> "start"
     /\ reading' = IF left = 0 THEN reading ELSE reading + 1
  /\ UNCHANGED <<starts, serverVars, genVars, attr, call, listening, board,
                 staticVars>>

StoreStarted ==
  /\ main = "started"
  /\ state' = [state EXCEPT !["started"] = FALSE]
  /\ main' = "done"
  /\ UNCHANGED <<startVars, serverVars, genVars, attr, call, listening, board,
                 staticVars, history>>

StoreDone ==
  /\ main = "done"
  /\ state' = [state EXCEPT !["done"] = TRUE]
  /\ main' = "thread"
  /\ UNCHANGED <<startVars, serverVars, genVars, attr, call, listening, board,
                 staticVars, history>>

\* The thread is to run, and starts: chip_id is read while it does. If it
\* cannot be created caerGenSpikeInit returns, and nobody looks at its result.
StartThread ==
  /\ main = "thread"
  /\ state' = [state EXCEPT !["running"] = TRUE]
  /\ \/ gen' = "loop" /\ main' = "load"
     \/ gen' = "none" /\ main' = "start"
  /\ UNCHANGED <<startVars, serverVars, at, handle, attr, call, listening,
                 board, staticVars, history>>

\* The neurons to monitor are chosen, chip by chip, and data acquisition
\* starts. If it fails the device is closed and caerModuleSM frees the state
\* that the thread and the listeners still use.
StartData ==
  /\ main = "start"
  /\ \/ /\ main' = "running"
        /\ board' \in [open : {TRUE}, selected : Chips]
     \/ /\ main' = "undefined"
        /\ board' = [board EXCEPT !.open = FALSE]
  /\ UNCHANGED <<startVars, serverVars, genVars, nodeVars, listening,
                 staticVars, history>>

-----------------------------------------------------------------------------
(* The mainloop thread: caerInputDYNAPSEExit. *)

\* Somebody stops the module, or the device is unplugged.
StopModule ==
  /\ main = "running"
  /\ main' = "exitPut"
  /\ UNCHANGED <<startVars, serverVars, genVars, nodeVars, listening,
                 board, staticVars, history>>

\* doStim is put to FALSE, so that no spikes are sent; the listener runs in
\* this thread.
ExitPut ==
  /\ main = "exitPut"
  /\ Put("main", "doStim", FALSE)
  /\ main' = IF call' = NoCall THEN "exitRemove" ELSE "exitListener"
  /\ UNCHANGED <<startVars, serverVars, genVars, listening, board,
                 staticVars>>

ExitListener ==
  /\ main = "exitListener"
  /\ Store("main", call.stores)
  /\ main' = IF call' = NoCall THEN "exitRemove" ELSE "exitListener"
  /\ UNCHANGED <<startVars, serverVars, genVars, attr, listening, board,
                 staticVars>>

\* The listeners are removed, each under the lock of its node: the one that
\* runs ends first.
ExitRemove ==
  /\ main = "exitRemove" /\ call = NoCall /\ ~biasCall.busy
  /\ listening' = FALSE
  /\ main' = "exitClose"
  /\ UNCHANGED <<startVars, serverVars, genVars, nodeVars, board,
                 staticVars, history>>

\* The device is stopped and closed, with the thread still there.
ExitClose ==
  /\ main = "exitClose"
  /\ board' = [board EXCEPT !.open = FALSE]
  /\ main' = "exitStim"
  /\ UNCHANGED <<startVars, serverVars, genVars, nodeVars, listening,
                 staticVars, history>>

\* caerGenSpikeExit: two stores, an attribute, and the join.
ExitStim ==
  /\ main = "exitStim"
  /\ state' = [state EXCEPT !["doStim"] = FALSE]
  /\ main' = "exitRunning"
  /\ UNCHANGED <<startVars, serverVars, genVars, attr, call, listening,
                 board, staticVars, history>>

ExitRunning ==
  /\ main = "exitRunning"
  /\ state' = [state EXCEPT !["running"] = FALSE]
  /\ attr' = [attr EXCEPT !["doStim"] = FALSE]
  /\ main' = "exitJoin"
  /\ UNCHANGED <<startVars, serverVars, genVars, call, listening, board,
                 staticVars, history>>

\* The thread main can join.
Joinable == gen = "ended"

\* Once the thread has ended caerModuleSM frees its state, and callocs it
\* again for the next start, which stores the type and the duration before
\* anybody looks at them; chip 0 is the default.
ExitJoin ==
  /\ main = "exitJoin"
  /\ \/ /\ Joinable
        /\ state' = [f \in Fields |-> CASE f = "chip_id" -> DefaultChip
                                        [] f \in {"stim_type", "stim_duration"} -> state[f]
                                        [] OTHER -> FALSE]
        /\ main' = "stopped"
     \/ /\ gen = "none"
        /\ main' = "undefined"
        /\ UNCHANGED state
  /\ UNCHANGED <<startVars, serverVars, genVars, attr, call, listening,
                 board, staticVars, history>>

-----------------------------------------------------------------------------
(* The configuration server's thread. *)

\* A client puts an attribute of spikeGen/.
ServerPut ==
  /\ puts < MaxPuts /\ main # "undefined" /\ ~biasCall.busy
  /\ \E k \in Keys : \E v \in Values(k) \ {attr[k]} : Put("server", k, v)
  /\ puts' = puts + 1
  /\ UNCHANGED <<mainVars, biasCall, genVars, listening, board, staticVars>>

ServerListener ==
  /\ call.by = "server" /\ main # "undefined"
  /\ Store("server", call.stores)
  /\ UNCHANGED <<mainVars, serverVars, genVars, attr, listening, board,
                 staticVars>>

\* Nobody else addresses a chip now.
Quiet ==
  /\ main = "running" /\ ~state["doStim"]
  /\ gen \in {"none", "loop", "stim", "ended"}

\* A client puts an attribute of a bias of chip c: biasConfigListener selects
\* the chip ...
ServerBias ==
  /\ puts < MaxPuts /\ main # "undefined"
  /\ ~biasCall.busy /\ call.by # "server" /\ listening
  /\ puts' = puts + 1
  /\ \E c \in Chips :
       /\ biasCall' = [busy |-> TRUE, chip |-> c, quiet |-> Quiet]
       /\ board' = [board EXCEPT !.selected = c]
  /\ UNCHANGED <<mainVars, genVars, nodeVars, listening, staticVars, history>>

\* ... and sends the bias to the one that is selected.
ServerBiasSend ==
  /\ biasCall.busy /\ main # "undefined"
  /\ biasCall' = NoBias
  /\ UNCHANGED <<mainVars, puts, genVars, nodeVars, listening, board,
                 staticVars, history>>

-----------------------------------------------------------------------------
(* The SpikeGenThread. *)

\* caerDeviceConfigSet with a handle read now does nothing once the device is
\* closed; with one read before, it uses freed memory.
Use(stale, effect) ==
  IF board.open THEN board' = effect /\ UNCHANGED main
  ELSE /\ UNCHANGED board
       /\ main' = IF stale THEN "undefined" ELSE main

Select == [board EXCEPT !.selected = state["chip_id"]]

\* Mutant: a thread that has spikes to send sends them first.
KeepRunningUntilDone == state["running"] \/ ~state["done"]

KeepRunning == state["running"]

\* while (running)
GenLoop ==
  /\ gen = "loop" /\ main # "undefined"
  /\ gen' = IF KeepRunning THEN "stim" ELSE "ended"
  /\ UNCHANGED <<mainVars, serverVars, at, handle, nodeVars, listening,
                 board, staticVars, history>>

\* Mutant: the thread looks at "done" instead.
StimulateUnlessDone == IF state["done"] THEN "loop" ELSE "once"

\* Mutant: the thread goes on after it has slept.
StimulateAnyway == "once"

\* Where the thread goes on, depending on doStim.
Stimulate == IF state["doStim"] THEN "once" ELSE "loop"

GenStim ==
  /\ gen = "stim" /\ main # "undefined"
  /\ gen' = Stimulate
  /\ UNCHANGED <<mainVars, serverVars, at, handle, nodeVars, listening,
                 board, staticVars, history>>

\* A command that is due selects the chip first.
Due(c) == state[c] /\ ~made[c]

NextCommand ==
  /\ at' = at + 1
  /\ gen' = IF at = Len(Commands) THEN "train" ELSE "once"

GenOnce ==
  /\ gen = "once" /\ main # "undefined"
  /\ LET c == Commands[at] IN
     \/ /\ Due(c)
        /\ Use(FALSE, Select)
        /\ handle' = board.open
        /\ gen' = "write"
        /\ UNCHANGED <<at, made>>
     \/ /\ ~Due(c)
        /\ made' = [made EXCEPT ![c] = @ /\ state[c]]
        /\ NextCommand
        /\ UNCHANGED <<main, board, handle>>
  /\ UNCHANGED <<startVars, serverVars, nodeVars, listening,
                 elapsed, history>>

\* Its content is sent, and the command is remembered as made.
GenWrite ==
  /\ gen = "write" /\ main # "undefined"
  /\ LET c == Commands[at] IN
     /\ Use(handle /\ c \in ClearCommands, board)
     /\ state' = [state EXCEPT ![c] = @ /\ c \notin ClearCommands]
     /\ made' = [made EXCEPT ![c] = TRUE]
  /\ handle' = FALSE
  /\ NextCommand
  /\ UNCHANGED <<startVars, serverVars, attr, call, listening, elapsed,
                 history>>

\* spiketrainReg or spiketrainPat: unless stimulation was started, its time
\* starts now.
GenTrain ==
  /\ gen = "train" /\ main # "undefined"
  /\ gen' = IF state["stim_type"] = "none" THEN "loop" ELSE "check"
  /\ at' = 1
  /\ handle' = (board.open /\ state["stim_type"] = "pattern")
  /\ elapsed' = (elapsed /\ (state["started"] \/ state["stim_type"] = "none"))
  /\ UNCHANGED <<mainVars, serverVars, nodeVars, listening, board, made,
                 history>>

Expired == elapsed \/ state["stim_duration"] = 0

\* Once its time is up, stimulation is done ...
GenCheck ==
  /\ gen = "check" /\ main # "undefined"
  /\ state' = [state EXCEPT !["done"] = @ \/ Expired]
  /\ gen' = IF Expired THEN "finish" ELSE "sending"
  /\ UNCHANGED <<mainVars, serverVars, at, handle, attr, call,
                 listening, board, staticVars, history>>

\* ... and not started, or started again ...
GenFinish ==
  /\ gen = "finish" /\ main # "undefined"
  /\ state' = [state EXCEPT !["started"] = state["repeat"]]
  /\ gen' = IF state["repeat"] THEN "again" ELSE "sending"
  /\ UNCHANGED <<mainVars, serverVars, at, handle, attr, call,
                 listening, board, staticVars, history>>

\* ... from now on.
GenAgain ==
  /\ gen = "again" /\ main # "undefined"
  /\ state' = [state EXCEPT !["done"] = FALSE]
  /\ elapsed' = FALSE
  /\ gen' = "check"
  /\ UNCHANGED <<mainVars, serverVars, at, handle, attr, call,
                 listening, board, made, history>>

\* Unless stimulation is done a chip is selected ...
GenSelect ==
  /\ gen = "sending" /\ main # "undefined"
  /\ IF state["done"]
     THEN gen' = "loop" /\ handle' = FALSE /\ UNCHANGED <<main, board>>
     ELSE gen' = "spike" /\ Use(handle, Select) /\ UNCHANGED handle
  /\ UNCHANGED <<startVars, serverVars, at, nodeVars, listening,
                 staticVars, history>>

\* ... and spikes are sent to it.
GenSpike ==
  /\ gen = "spike" /\ main # "undefined"
  /\ Use(handle, board)
  /\ late' = IF state["doStim"] \/ late = 2 THEN late ELSE late + 1
  /\ gen' = "loop" /\ handle' = FALSE
  /\ UNCHANGED <<startVars, serverVars, at, nodeVars, listening,
                 staticVars>>

\* Time passes, though not a second between two looks at the clock.
Tick ==
  /\ ~elapsed /\ gen # "check" /\ main # "undefined"
  /\ elapsed' = TRUE
  /\ UNCHANGED <<mainVars, serverVars, genVars, nodeVars, listening, board,
                 made, history>>

-----------------------------------------------------------------------------
Start ==
  \/ StartModule \/ LoadAttribute \/ StoreAttribute \/ StoreStarted
  \/ StoreDone \/ StartThread \/ StartData
Exit ==
  \/ ExitPut \/ ExitListener \/ ExitRemove \/ ExitClose \/ ExitStim
  \/ ExitRunning \/ ExitJoin
Listener == ServerListener \/ ServerBiasSend
Gen ==
  \/ GenLoop \/ GenStim \/ GenOnce \/ GenWrite \/ GenTrain \/ GenCheck
  \/ GenFinish \/ GenAgain \/ GenSelect \/ GenSpike

Next ==
  \/ Start \/ StopModule \/ Exit
  \/ ServerPut \/ ServerBias \/ Listener
  \/ Gen \/ Tick

Spec == Init /\ [][Next]_vars

\* Threads run, the server ends the listeners it has begun, and time passes;
\* clients do what they like.
FairSpec ==
  /\ Spec
  /\ WF_vars(Exit) /\ WF_vars(Listener) /\ WF_vars(Gen) /\ WF_vars(Tick)
-----------------------------------------------------------------------------
(* Properties. *)

\* Once stimulation is disabled at most the spikes the thread is about to
\* send follow, however the listener's stores and the thread's interleave
\* ("make sure no spikes are being sent").
StopIsPrompt == late <= 1

\* A bias that is put while nobody stimulates gets to its chip: the thread
\* that polls doStim does not select another chip in between.
QuietBiasGetsToItsChip ==
  biasCall.busy /\ biasCall.quiet => board.selected = biasCall.chip

\* The thread restarts its stimulation for ever, whatever it is told, when one
\* that lasts no time is repeated (gen_spikes.c:440).
Spins == state["repeat"] /\ state["stim_duration"] = 0

\* The thread uses a handle it read before the device was closed, from which
\* on anything may happen (dynapse_common.c:1237 closes it, :1248 waits for
\* the thread).
UsesStaleHandle ==
  /\ ~board.open /\ handle
  /\ \/ gen = "spike"
     \/ gen = "sending" /\ ~state["done"]
     \/ gen = "write" /\ Commands[at] \in ClearCommands

\* Unless the one or the other happens the exit of a module whose thread could
\* be created comes to its end, and the mainloop goes on: whatever the thread
\* is at, and whatever clients put meanwhile, it sees that it is to stop
\* ("Shut down stimulation thread and wait on it to finish.",
\* gen_spikes.c:156). Without a thread Exit joins one that never was.
ExitTerminates ==
  main = "exitPut" /\ gen # "none" ~> main = "stopped" \/ Spins \/ UsesStaleHandle
=============================================================================
