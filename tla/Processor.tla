----------------------------- MODULE Processor -----------------------------
(***************************************************************************)
(* A processor module next to its source: what base/module.cpp does with   *)
(* configUpdate and doReset, and what the filters of modules/ make of it.  *)
(*                                                                         *)
(* A filter keeps copies of its settings. Its listener only raises         *)
(* configUpdate; the mainloop has the filter read them again before its    *)
(* next Run. A filter that waits for its source asks for the node          *)
(* sourceInfo/ in Init and fails, to be tried again in the next pass, as   *)
(* long as there is none. A source that sees a reset of its timestamps     *)
(* sets doReset of every processor; the mainloop has each of them clear    *)
(* its memory after the same pass's Run.                                   *)
(*                                                                         *)
(* Actors: the mainloop (caerModuleSM of the source, then of the filter),  *)
(* the configuration server's thread (puts, and the listeners under the    *)
(* node's lock), the source's own threads.                                 *)
(*                                                                         *)
(* The filter is one of the table below, chosen in the initial state with  *)
(* the settings clients put ("watched"). A setting is TRUE or FALSE, its   *)
(* value and another. One put and its listeners are one step, as is one    *)
(* read: each holds the lock of the node.                                  *)
(***************************************************************************)
EXTENDS Integers, FiniteSets, TLC

CONSTANTS
  Instances,   \* the choices of a filter and of the settings clients put
  Kinds,       \* of the source: "device", "file"
  MaxPuts,     \* settings clients put
  MaxToggles,  \* times a module is switched on or off
  MaxStarts    \* times the source starts

-----------------------------------------------------------------------------
(* The filters. "live" settings are copied whenever the filter reads its   *)
(* settings. A "command" acts when it goes from FALSE to TRUE, with those  *)
(* settings as its parameters, copied at that moment; the "gated" ones     *)
(* too, but only while updateSRAMKernels is TRUE. "init" settings are      *)
(* those Init copies. "waits": Init needs sourceInfo/ and its sizes.       *)
(* "state": how the filter gets at its source's state. "memory": what it   *)
(* keeps about past events, and whether it has a Reset that clears it.     *)

NoCommands == [c \in {} |-> {}]

Filter(live, memory) ==
  [live |-> live, commands |-> NoCommands, gated |-> {}, init |-> live,
   waits |-> TRUE, resetsFlag |-> TRUE, state |-> "none", memory |-> memory,
   puts |-> FALSE]

BackgroundActivityFilter == Filter({"deltaT", "subSampleBy"}, "cleared")
RotateFilter == Filter({"swapXY", "rotate90deg", "invertX", "invertY",
                        "angleDeg"}, "none")
FrameEnhancer == [Filter({"doDemosaic", "doContrast", "demosaicType",
                          "contrastType"}, "none") EXCEPT !.waits = FALSE]
MedianTracker == Filter({"tauUs", "numStdDevsForBoundingBox"}, "kept")
SpikeFeatures == Filter({"decayTime", "tau"}, "cleared")
MeanRateFilter == Filter({"colorscaleMax", "colorscaleMin", "targetFreq",
                          "measureMinTime", "doSetFreq"}, "cleared")

\* Its output size is read at the start only.
ImageGenerator ==
  [Filter({"numSpikes", "rectifyPolarities", "colorScale"}, "kept") EXCEPT
     !.init = @ \cup {"outputFrameSizeX", "outputFrameSizeY"}]

\* Init reads the setting by itself, and leaves configUpdate as it is.
FrameStatistics ==
  [Filter({"numBins"}, "none") EXCEPT !.waits = FALSE, !.resetsFlag = FALSE]

\* Counts people into an attribute of its own node.
RectangularTracker ==
  [Filter({"maxClusterNum", "resetCountingNum", "showPaths"}, "kept") EXCEPT
     !.resetsFlag = FALSE, !.puts = TRUE]

\* Keeps the pointer to its source's state for as long as it runs.
FpgaSpikeGen ==
  LET Write == {"StimFile", "VariableISI", "BaseAddress"}
      Start == {"ChipID", "ISI", "ISIBase", "VariableISI", "BaseAddress",
                "Repeat"}
  IN [Filter({}, "none") EXCEPT
        !.commands = [c \in {"WriteSRAM", "Run"} |->
                        IF c = "Run" THEN Start ELSE Write],
        !.init = {"WriteSRAM", "Run"} \cup Write \cup Start,
        !.waits = FALSE, !.resetsFlag = FALSE, !.state = "cached"]

\* Asks for its source's state whenever it reads its settings, and keeps the
\* pointer of Init for the first events; its memory is "doInit".
SynapseReconfig ==
  LET Params == {"targetChipID", "globalKernelFilePath"}
      Gated == {"SRAMKernelFilePath", "SRAMBaseAddress"}
      Live == {"useSRAMKernels", "updateSRAMKernels"}
  IN [Filter(Live, "kept") EXCEPT
        !.commands = [c \in {"runDVS"} |-> Params], !.gated = Gated,
        !.init = Live \cup {"runDVS"} \cup Params \cup Gated,
        !.waits = FALSE, !.resetsFlag = FALSE, !.state = "fetched"]

Filters == {BackgroundActivityFilter, RotateFilter, FrameEnhancer,
            MedianTracker, SpikeFeatures, MeanRateFilter, ImageGenerator,
            FrameStatistics, RectangularTracker, FpgaSpikeGen,
            SynapseReconfig}

\* In this table commands are not copied by themselves nor parameters of
\* others, and Init copies all that Config does.
ASSUME FiltersAssumption ==
  \A f \in Filters :
    /\ f.live \cap DOMAIN f.commands = {}
    /\ f.live \subseteq f.init /\ DOMAIN f.commands \subseteq f.init
    /\ f.gated \subseteq f.init /\ f.gated \cap DOMAIN f.commands = {}
    /\ \A c \in DOMAIN f.commands : /\ f.commands[c] \subseteq f.init
                                    /\ f.commands[c] \cap DOMAIN f.commands = {}

Commands(f) == DOMAIN f.commands
SettingsOf(f) == f.live \cup f.init

\* What is left of a filter when clients touch only some of its settings.
Watch(f, settings) ==
  [f EXCEPT !.live = @ \cap settings, !.init = @ \cap settings,
            !.gated = @ \cap settings,
            !.commands = [c \in Commands(f) \cap settings |->
                            f.commands[c] \cap settings]]

ASSUME ProcessorAssumption ==
  /\ \A i \in Instances : /\ i.filter \in Filters
                          /\ i.settings \subseteq SettingsOf(i.filter)
                          /\ i.settings # {}
  /\ Kinds \subseteq {"device", "file"} /\ Kinds # {}
  /\ MaxPuts \in Nat /\ MaxToggles \in Nat /\ MaxStarts \in Nat
-----------------------------------------------------------------------------
VARIABLES
  module,       \* the filter, as watched
  attribute,    \* its settings in the tree
  listening,    \* its listener is installed
  running,      \* moduleData->running of the filter
  configUpdate, \* moduleData->configUpdate
  doReset,      \* moduleData->doReset: 0 or the ID of the source
  moduleStatus, \* moduleData->moduleStatus
  copy,         \* the settings in moduleState
  memory,       \* what moduleState keeps about events: "empty", "current",
                \* "old" (from before a reset of the timestamps), "foreign"
                \* (from before the source was started again)
  sourceState,  \* the pointer kept in moduleState: the source's start, or 0
  source,       \* the source: status, running, start, sizes, kind
  container,    \* what the source put into this pass
  pc,           \* where the mainloop is
  todo,         \* settings still to be read
  got,          \* the commands as they were last read
  missed,       \* history: settings whose last change the filter was not told
  since,        \* history: settings put since a command was given
  puts, toggles \* bounded counters

treeVars    == <<attribute, listening, running, configUpdate>>
stateVars   == <<moduleStatus, copy, memory, sourceState>>
historyVars == <<missed, since>>
readVars    == <<todo, got>>
bounds      == <<puts, toggles>>
vars == <<module, treeVars, doReset, stateVars, source, container, pc,
          readVars, historyVars, bounds>>

Settings == SettingsOf(module)
ModuleID == 1

TypeOK ==
  /\ attribute \in [Settings -> BOOLEAN] /\ copy \in [Settings -> BOOLEAN]
  /\ listening \in BOOLEAN /\ running \in BOOLEAN
  /\ configUpdate \in {0, 1} /\ doReset \in {0, ModuleID}
  /\ moduleStatus \in {"STOPPED", "RUNNING"}
  /\ memory \in {"empty", "current", "old", "foreign"}
  /\ sourceState \in 0 .. MaxStarts
  /\ source \in [status : {"STOPPED", "RUNNING"}, running : BOOLEAN,
                 start : 0 .. MaxStarts, sizes : BOOLEAN, kind : Kinds]
  /\ container \in {"none", "events", "reset"}
  /\ pc \in {"source", "module", "init", "config", "reading", "edges", "params",
             "run", "reset", "exit", "undefined"}
  /\ todo \subseteq Settings /\ got \in [Commands(module) -> BOOLEAN]
  /\ missed \subseteq module.live
  /\ since \in [Commands(module) -> SUBSET Settings]
  /\ puts \in 0 .. MaxPuts /\ toggles \in 0 .. MaxToggles

Init ==
  /\ \E i \in Instances : module = Watch(i.filter, i.settings)
  /\ attribute \in [Settings -> BOOLEAN]
  /\ \A s \in Settings \ Commands(module) : ~attribute[s]
  /\ listening = FALSE /\ running \in BOOLEAN
  /\ configUpdate = 0 /\ doReset = 0
  /\ moduleStatus = "STOPPED" /\ copy = [s \in Settings |-> FALSE]
  /\ memory = "empty" /\ sourceState = 0
  /\ \E k \in Kinds, r \in BOOLEAN :
       source = [status |-> "STOPPED", running |-> r, start |-> 0,
                 sizes |-> FALSE, kind |-> k]
  /\ container = "none" /\ pc = "source"
  /\ todo = {} /\ got = [c \in Commands(module) |-> FALSE]
  /\ missed = {} /\ since = [c \in Commands(module) |-> Settings]
  /\ puts = 0 /\ toggles = 0
-----------------------------------------------------------------------------
(* Clients of the configuration server, and the source's threads.          *)

\* The filter's listener: any attribute that changes raises the flag.
caerModuleConfigDefaultListener ==
  configUpdate' = IF listening THEN 1 ELSE configUpdate

\* The filter is not told of what is put while Init is past reading it and
\* before it listens. A command counts once the filter has seen it FALSE.
PutSetting(s) ==
  /\ pc \notin {"exit", "undefined"}
  /\ puts < MaxPuts /\ puts' = puts + 1
  /\ attribute' = [attribute EXCEPT ![s] = ~@]
  /\ caerModuleConfigDefaultListener
  /\ missed' = IF pc = "init" /\ ~listening /\ s \in module.live \ todo
               THEN missed \cup {s} ELSE missed
  /\ since' = [c \in DOMAIN since |->
                 IF s = c /\ ~attribute[c]
                 THEN IF listening /\ ~got[c] THEN {} ELSE Settings
                 ELSE since[c] \cup {s}]
  /\ UNCHANGED <<module, listening, running, doReset, stateVars, source,
                 container, pc, readVars, toggles>>

\* "running" of the filter, through its own listener (module.cpp:233).
caerModuleShutdownListener ==
  /\ pc \notin {"exit", "undefined"}
  /\ toggles < MaxToggles /\ toggles' = toggles + 1
  /\ running' = ~running
  /\ UNCHANGED <<module, attribute, listening, configUpdate, doReset,
                 stateVars, source, container, pc, readVars, historyVars,
                 puts>>

\* The source is switched on or off by a client; or off by its own thread,
\* when a file ends or a device goes away.
SourceShutdownListener ==
  /\ pc \notin {"exit", "undefined"}
  /\ toggles < MaxToggles /\ toggles' = toggles + 1
  /\ source' = [source EXCEPT !.running = ~@]
  /\ UNCHANGED <<module, treeVars, doReset, stateVars, container, pc,
                 readVars, historyVars, puts>>

\* The Reader thread of a file parses the header and creates the sizes.
SourceParsesHeader ==
  /\ pc \notin {"exit", "undefined"}
  /\ source.status = "RUNNING" /\ ~source.sizes
  /\ source' = [source EXCEPT !.sizes = TRUE]
  /\ UNCHANGED <<module, treeVars, doReset, stateVars, container, pc,
                 readVars, historyVars, bounds>>
-----------------------------------------------------------------------------
(* The mainloop: the source's turn.                                        *)

\* Mutant: a source that has the outputs reset only.
ResetsOutputsOnly(id) == UNCHANGED doReset

caerMainloopResetProcessors(id) == doReset' = id

\* A container with a reset of the timestamps holds nothing else.
SourceRun ==
  /\ source.status = "RUNNING" /\ source.running
  /\ \E c \in {"none"} \cup IF source.sizes THEN {"events", "reset"} ELSE {} :
       /\ container' = c
       /\ IF c = "reset" THEN caerMainloopResetProcessors(ModuleID)
                         ELSE UNCHANGED doReset
       /\ memory' = IF c = "reset" /\ memory = "current"
                    THEN "old" ELSE memory
  /\ UNCHANGED source

\* A device creates sourceInfo/ in its Init, an input module only the node.
SourceInit ==
  /\ source.status = "STOPPED" /\ source.running
  /\ container' = "none"
  /\ \/ /\ source.start < MaxStarts
        /\ source' = [source EXCEPT !.status = "RUNNING", !.start = @ + 1,
                                    !.sizes = source.kind = "device"]
     \/ UNCHANGED source
  /\ UNCHANGED <<doReset, memory>>

\* With autoRestart, Exit puts "running" back.
SourceExit ==
  /\ source.status = "RUNNING" /\ ~source.running
  /\ container' = "none"
  /\ \E r \in BOOLEAN :
       source' = [source EXCEPT !.status = "STOPPED", !.sizes = FALSE,
                                !.running = r]
  /\ memory' = IF memory = "current" THEN "foreign" ELSE memory
  /\ UNCHANGED doReset

SourceRests ==
  /\ source.status = "STOPPED" /\ ~source.running
  /\ container' = "none"
  /\ UNCHANGED <<doReset, memory, source>>

SourceStep ==
  /\ pc = "source" /\ pc' = "module"
  /\ SourceRun \/ SourceInit \/ SourceExit \/ SourceRests
  /\ UNCHANGED <<module, treeVars, moduleStatus, copy, sourceState, readVars,
                 historyVars, bounds>>
-----------------------------------------------------------------------------
(* The mainloop: the filter's turn, caerModuleSM.                          *)

\* caerMainloopGetSourceInfo and caerMainloopGetSourceState: none of a
\* stopped source.
GetSourceInfo  == source.status = "RUNNING"
GetSourceState == IF source.status = "RUNNING" THEN source.start ELSE 0

\* Mutant: a filter without data is left alone.
RunsOnData ==
  /\ pc = "module" /\ moduleStatus = "RUNNING" /\ running
  /\ pc' = IF configUpdate # 0 /\ container # "none" THEN "config" ELSE "run"
  /\ UNCHANGED <<module, treeVars, doReset, stateVars, source, container,
                 readVars, historyVars, bounds>>

\* Running and to go on: settings first, if any has changed.
ModuleRuns ==
  /\ pc = "module" /\ moduleStatus = "RUNNING" /\ running
  /\ pc' = IF configUpdate # 0 THEN "config" ELSE "run"
  /\ UNCHANGED <<module, treeVars, doReset, stateVars, source, container,
                 readVars, historyVars, bounds>>

\* Config, its first statement: caerModuleConfigUpdateReset. A filter that
\* fetches its source's state goes on to use it.
ConfigBegins ==
  /\ pc = "config"
  /\ configUpdate' = 0
  /\ missed' = {}
  /\ todo' = module.live \cup Commands(module)
  /\ pc' = IF module.state = "fetched" /\ GetSourceState = 0
           THEN "undefined" ELSE "reading"
  /\ UNCHANGED <<module, attribute, listening, running, doReset, stateVars,
                 source, container, got, since, bounds>>

\* One read of the node. Config looks at the commands first, and copies the
\* live settings; a command's copy and its parameters follow ("params", which
\* is a little later than the code for SynapseReconfig's targetChipID).
ReadSetting(s) ==
  /\ pc \in {"init", "reading", "params"} /\ s \in todo
  /\ pc = "reading" => s \in Commands(module) \/ todo \cap Commands(module) = {}
  /\ todo' = todo \ {s}
  /\ got' = IF s \in Commands(module) THEN [got EXCEPT ![s] = attribute[s]]
                                      ELSE got
  /\ copy' = IF pc = "reading" /\ s \in Commands(module) THEN copy
             ELSE [copy EXCEPT ![s] = attribute[s]]
  /\ UNCHANGED <<module, treeVars, doReset, moduleStatus, memory, sourceState,
                 source, container, pc, historyVars, bounds>>

\* Mutant: the flag is reset after the reads.
ResetsFlagLast ==
  /\ pc \in {"reading", "params"} /\ todo = {}
  /\ pc' = IF \E c \in Commands(module) : got[c] # copy[c]
           THEN "edges" ELSE "run"
  /\ configUpdate' = 0
  /\ UNCHANGED <<module, attribute, listening, running, doReset, stateVars,
                 source, container, readVars, historyVars, bounds>>

ConfigReadDone ==
  /\ pc \in {"reading", "params"} /\ todo = {}
  /\ pc' = IF \E c \in Commands(module) : got[c] # copy[c]
           THEN "edges" ELSE "run"
  /\ UNCHANGED <<module, treeVars, doReset, stateVars, source, container,
                 readVars, historyVars, bounds>>

\* The settings command c copies now.
ParametersOf(c) ==
  module.commands[c]
    \cup {p \in module.gated : /\ "updateSRAMKernels" \in module.live
                               /\ copy["updateSRAMKernels"]}

\* Mutant: the parameters stay those of Init.
KeepsParameters(c) ==
  /\ pc = "edges" /\ got[c] # copy[c]
  /\ copy' = [copy EXCEPT ![c] = got[c]]
  /\ pc' = IF /\ got[c] /\ module.state = "cached"
              /\ sourceState = 0 \/ sourceState # GetSourceState
           THEN "undefined" ELSE "params"
  /\ UNCHANGED <<module, treeVars, doReset, moduleStatus, memory, sourceState,
                 source, container, readVars, historyVars, bounds>>

\* A command that goes up copies its parameters and uses the device through
\* the source's state; one that goes down is only remembered.
ConfigCommand(c) ==
  /\ pc = "edges" /\ got[c] # copy[c]
  /\ copy' = [copy EXCEPT ![c] = got[c]]
  /\ todo' = IF got[c] THEN ParametersOf(c) ELSE {}
  /\ pc' = IF /\ got[c] /\ module.state = "cached"
              /\ sourceState = 0 \/ sourceState # GetSourceState
           THEN "undefined" ELSE "params"
  /\ UNCHANGED <<module, treeVars, doReset, moduleStatus, memory, sourceState,
                 source, container, got, historyVars, bounds>>

\* Run, on the events of the source if there are any. It may put attributes
\* of its own node, which its own listener hears.
moduleRun ==
  /\ pc = "run"
  /\ LET events == container = "events"
     IN /\ memory' = IF events /\ module.memory # "none"
                     THEN "current" ELSE memory
        /\ configUpdate' \in {configUpdate}
             \cup IF events /\ module.puts THEN {1} ELSE {}
        /\ pc' = IF /\ events /\ module.state = "fetched" /\ memory = "empty"
                    /\ sourceState # GetSourceState
                 THEN "undefined" ELSE "reset"
  /\ UNCHANGED <<module, attribute, listening, running, doReset, moduleStatus,
                 copy, sourceState, source, container, readVars, historyVars,
                 bounds>>

\* Some filters have a Reset that does nothing, some have none.
moduleReset ==
  /\ pc = "reset" /\ pc' = "source"
  /\ LET resets == doReset # 0 /\ (module.memory = "cleared"
                                   \/ module.state # "none")
     IN /\ doReset' = IF resets THEN 0 ELSE doReset
        /\ memory' = IF resets /\ module.memory = "cleared"
                     THEN "empty" ELSE memory
  /\ UNCHANGED <<module, treeVars, moduleStatus, copy, sourceState, source,
                 container, readVars, historyVars, bounds>>

\* Stopped and to be started: Init, with a fresh moduleState. It fails, to
\* be tried again, without sourceInfo/; it exits the program if sourceInfo/
\* does not have the sizes.
ModuleInit ==
  /\ pc = "module" /\ moduleStatus = "STOPPED" /\ running
  /\ \/ /\ module.waits /\ ~GetSourceInfo
        /\ pc' = "source"
        /\ UNCHANGED <<configUpdate, sourceState, todo, missed>>
     \/ /\ module.waits /\ GetSourceInfo /\ ~source.sizes
        /\ pc' = "exit"
        /\ UNCHANGED <<configUpdate, sourceState, todo, missed>>
     \/ /\ module.waits => GetSourceInfo /\ source.sizes
        /\ pc' = "init"
        /\ configUpdate' = IF module.resetsFlag THEN 0 ELSE configUpdate
        /\ sourceState' = IF module.state = "none" THEN 0 ELSE GetSourceState
        /\ todo' = module.init
        /\ missed' = {}
  /\ UNCHANGED <<module, attribute, listening, running, doReset, moduleStatus,
                 copy, memory, source, container, got, since, bounds>>

\* "Add config listeners last, to avoid having them dangling".
InitDone ==
  /\ pc = "init" /\ todo = {}
  /\ listening' = TRUE
  /\ moduleStatus' = "RUNNING"
  /\ pc' = "source"
  /\ UNCHANGED <<module, attribute, running, configUpdate, doReset, copy,
                 memory, sourceState, source, container, readVars,
                 historyVars, bounds>>

\* Running and to be stopped: Exit stops listening; moduleState is freed.
ModuleExit ==
  /\ pc = "module" /\ pc' = "source"
  /\ moduleStatus = "RUNNING" /\ ~running
  /\ moduleStatus' = "STOPPED"
  /\ listening' = FALSE
  /\ copy' = [s \in Settings |-> FALSE] /\ memory' = "empty"
  /\ sourceState' = 0
  /\ got' = [c \in Commands(module) |-> FALSE] /\ missed' = {}
  /\ UNCHANGED <<module, attribute, running, configUpdate, doReset, source,
                 container, todo, since, bounds>>

ModuleRests ==
  /\ pc = "module" /\ pc' = "source"
  /\ moduleStatus = "STOPPED" /\ ~running
  /\ UNCHANGED <<module, treeVars, doReset, stateVars, source, container,
                 readVars, historyVars, bounds>>

Mainloop ==
  \/ SourceStep \/ ModuleRuns \/ ConfigBegins \/ ConfigReadDone \/ moduleRun
  \/ moduleReset \/ ModuleInit \/ InitDone \/ ModuleExit \/ ModuleRests
  \/ \E s \in Settings : ReadSetting(s)
  \/ \E c \in Commands(module) : ConfigCommand(c)

Next ==
  \/ \E s \in Settings : PutSetting(s)
  \/ caerModuleShutdownListener \/ SourceShutdownListener
  \/ SourceParsesHeader \/ Mainloop

\* The mainloop goes on. Nobody has to put anything.
Spec == Init /\ [][Next]_vars /\ WF_vars(Mainloop)
-----------------------------------------------------------------------------
(* Properties.                                                             *)

\* A filter that is not about to read its settings again works with those of
\* the tree: a put is never lost between the flag and the reads, whichever
\* way they interleave (module.cpp:64, :203, :208). Not so for what was put
\* in Init before the filter listened.
SettingsAreInUse ==
  listening /\ configUpdate = 0 =>
    \A s \in module.live \ (missed \cup todo) : copy[s] = attribute[s]

\* A command is carried out with the parameters that were put before it, or
\* newer ones: Config reads the commands before the parameters
\* (fpgaspikegen.c:139, synapsereconfig.c:173).
CommandsUseTheirParameters ==
  pc \notin {"init", "params", "undefined"} =>
    \A c \in Commands(module) : got[c] /\ copy[c] /\ attribute[c] =>
      \A p \in module.commands[c] \ since[c] : copy[p] = attribute[p]

\* Filters with a Reset never compare events with what they kept from before
\* a reset of the timestamps, whenever they are switched off and on
\* (module.cpp:75, davis_common.c:397, backgroundactivityfilter.c:172).
MemoryOfOneEpoch ==
  pc = "run" /\ container = "events" /\ module.memory = "cleared" =>
    memory # "old"

\* Settings that are left alone get to the filter, as long as it is left
\* running, whether or not there are events (module.cpp:64).
SettingsArrive ==
  <>[](running /\ moduleStatus = "RUNNING")
    => <>[](\/ pc \in {"exit", "undefined"}
            \/ \A s \in module.live \ missed : copy[s] = attribute[s])
=============================================================================
