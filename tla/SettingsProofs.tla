--------------------------- MODULE SettingsProofs ---------------------------
(***************************************************************************)
(* Proofs about settings on their way. Processor: between a client's put,  *)
(* the listener's flag and the filter's reads no setting gets lost, for every*)
(* choice of filters and watched settings and any number of puts; its types*)
(* come last. ConfigTree: between the file, the tree, its clients and the  *)
(* mainloop no setting gets lost, for any modules, libraries, files and    *)
(* number of requests and runs. The two components share no variable and no*)
(* constant; each theorem names the specification it is about.             *)
(***************************************************************************)
EXTENDS Processor, ConfigTree, FiniteSetTheorems, WellFoundedInduction, TLAPS

\* Where the mainloop can be, and that the listener is there exactly while
\* the filter is RUNNING, hence never in Init.
PlaceInv ==
  /\ moduleStatus \in {"STOPPED", "RUNNING"}
  /\ configUpdate \in {0, 1}
  /\ listening = (moduleStatus = "RUNNING")
  /\ pc \in {"init"} => ~listening
  /\ pc \in {"config", "reading", "edges", "params", "run", "reset"} => listening
  /\ pc = "edges" => todo = {}

\* The filter's table, as far as it matters: commands are not settings that
\* are copied by themselves, and Init copies all that Config does.
TableInv ==
  /\ module.live \cap Commands(module) = {}
  /\ module.live \subseteq module.init

AttributeInv ==
  /\ attribute \in [Settings -> BOOLEAN]
  /\ copy \in [Settings -> BOOLEAN]
  /\ got \in [Commands(module) -> BOOLEAN]

\* Settings that Init has read, and that were not put since then.
InitInv ==
  pc = "init" =>
    \A s \in module.live \ (missed \cup todo) : copy[s] = attribute[s]

IInv == TableInv /\ PlaceInv /\ AttributeInv /\ InitInv /\ SettingsAreInUse

USE DEF Settings, Commands, SettingsOf

LEMMA InitEstablishes == Init => IInv
<1> SUFFICES ASSUME Init PROVE IInv
  OBVIOUS
<1>1. TableInv
  <2>1. PICK i \in Instances : module = Watch(i.filter, i.settings)
    BY DEF Init
  <2>2. /\ i.filter.live \cap DOMAIN i.filter.commands = {}
        /\ i.filter.live \subseteq i.filter.init
    BY ProcessorAssumption, FiltersAssumption
  <2> QED BY <2>1, <2>2 DEF TableInv, Watch
<1>2. PlaceInv         BY DEF Init, PlaceInv
<1>3. AttributeInv     BY DEF Init, AttributeInv
<1>4. InitInv          BY DEF Init, InitInv
<1>5. SettingsAreInUse BY DEF Init, SettingsAreInUse
<1> QED BY <1>1, <1>2, <1>3, <1>4, <1>5 DEF IInv

\* The settings a filter copies are among those it has.
LEMMA LiveSettings == module.live \subseteq Settings
BY DEF Settings

\* No step replaces the filter.
LEMMA TableStays == TableInv /\ module' = module => TableInv'
BY DEF TableInv

\* Steps that leave the settings, their copies, the reads and the listener
\* alone, other than that the flag may go up and that Init may be over.
LEMMA QuietStep ==
  ASSUME IInv, UNCHANGED <<module, attribute, copy, todo, got, missed, listening>>,
         moduleStatus' = moduleStatus,
         configUpdate' \in {configUpdate, 1},
         pc' = "init" => pc = "init",
         pc' \in {"config", "reading", "edges", "params", "run", "reset"}
           => listening,
         pc' = "edges" => todo = {}
  PROVE  IInv'
<1>1. TableInv'     BY TableStays DEF IInv
<1>2. PlaceInv'     BY DEF IInv, PlaceInv
<1>3. AttributeInv' BY DEF IInv, AttributeInv
<1>4. InitInv'      BY DEF IInv, InitInv
<1>5. SettingsAreInUse'
  <2>1. configUpdate' = 0 => configUpdate = 0
    OBVIOUS
  <2> QED BY <2>1 DEF IInv, SettingsAreInUse
<1> QED BY <1>1, <1>2, <1>3, <1>4, <1>5 DEF IInv

LEMMA PutSettingStep ==
  ASSUME IInv, NEW s \in Settings, PutSetting(s)
  PROVE  IInv'
<1> USE DEF PutSetting, caerModuleConfigDefaultListener, stateVars, readVars
<1>1. TableInv' BY TableStays DEF IInv
<1>2. PlaceInv' BY DEF IInv, PlaceInv
<1>3. AttributeInv' BY DEF IInv, AttributeInv
<1>4. InitInv'
  <2> SUFFICES ASSUME pc = "init", NEW t \in module.live \ (missed' \cup todo)
               PROVE  copy[t] = attribute'[t]
    BY DEF InitInv
  <2>1. ~listening BY DEF IInv, PlaceInv
  <2>2. t # s /\ t \notin missed BY <2>1
  <2>3. copy[t] = attribute[t] BY <2>2 DEF IInv, InitInv
  <2> QED BY <2>2, <2>3 DEF IInv, AttributeInv
<1>5. SettingsAreInUse'
  <2> SUFFICES ASSUME listening', configUpdate' = 0 PROVE FALSE
    BY DEF SettingsAreInUse
  <2>1. listening BY DEF IInv
  <2> QED BY <2>1
<1> QED BY <1>1, <1>2, <1>3, <1>4, <1>5 DEF IInv

LEMMA ReadSettingStep ==
  ASSUME IInv, NEW s \in Settings, ReadSetting(s)
  PROVE  IInv'
<1> USE DEF ReadSetting, treeVars, historyVars
<1>1. TableInv' BY TableStays DEF IInv
<1>2. PlaceInv' BY DEF IInv, PlaceInv
<1>3. AttributeInv'
  <2>1. attribute[s] \in BOOLEAN BY DEF IInv, AttributeInv
  <2> QED BY <2>1 DEF IInv, AttributeInv
<1>4. \A t \in module.live :
        /\ t = s => copy'[t] = attribute[t]
        /\ t # s => copy'[t] = copy[t]
  BY DEF IInv, TableInv, AttributeInv
<1>5. InitInv' BY <1>4 DEF IInv, InitInv
<1>6. SettingsAreInUse' BY <1>4 DEF IInv, SettingsAreInUse
<1> QED BY <1>1, <1>2, <1>3, <1>5, <1>6 DEF IInv

LEMMA ConfigBeginsStep == IInv /\ ConfigBegins => IInv'
<1> SUFFICES ASSUME IInv, ConfigBegins PROVE IInv'
  OBVIOUS
<1> USE DEF ConfigBegins, stateVars
<1>1. TableInv' BY TableStays DEF IInv
<1>2. PlaceInv' BY DEF IInv, PlaceInv
<1>3. AttributeInv' BY DEF IInv, AttributeInv
<1>4. InitInv' BY DEF InitInv
<1>5. SettingsAreInUse' BY DEF SettingsAreInUse
<1> QED BY <1>1, <1>2, <1>3, <1>4, <1>5 DEF IInv

\* A command is none of the settings copied by themselves; what it reads
\* again is in use already, or is read before it counts.
LEMMA ConfigCommandStep ==
  ASSUME IInv, NEW c \in Commands(module), ConfigCommand(c)
  PROVE  IInv'
<1> USE DEF ConfigCommand, treeVars, historyVars
<1>1. TableInv' BY TableStays DEF IInv
<1>2. PlaceInv' BY DEF IInv, PlaceInv
<1>3. AttributeInv'
  <2>1. got[c] \in BOOLEAN BY DEF IInv, AttributeInv
  <2> QED BY <2>1 DEF IInv, AttributeInv
<1>4. \A t \in module.live : copy'[t] = copy[t]
  BY DEF IInv, TableInv, AttributeInv
<1>5. InitInv' BY DEF InitInv
<1>6. SettingsAreInUse' BY <1>4 DEF IInv, SettingsAreInUse, PlaceInv
<1> QED BY <1>1, <1>2, <1>3, <1>5, <1>6 DEF IInv

LEMMA ModuleInitStep == IInv /\ ModuleInit => IInv'
<1> SUFFICES ASSUME IInv, ModuleInit PROVE IInv'
  OBVIOUS
<1> USE DEF ModuleInit
<1>1. TableInv' BY TableStays DEF IInv
<1>2. PlaceInv' BY DEF IInv, PlaceInv
<1>3. AttributeInv' BY DEF IInv, AttributeInv
<1>4. InitInv' BY DEF IInv, InitInv, TableInv
<1>5. SettingsAreInUse' BY DEF IInv, SettingsAreInUse, PlaceInv
<1> QED BY <1>1, <1>2, <1>3, <1>4, <1>5 DEF IInv

LEMMA InitDoneStep == IInv /\ InitDone => IInv'
<1> SUFFICES ASSUME IInv, InitDone PROVE IInv'
  OBVIOUS
<1> USE DEF InitDone, readVars, historyVars
<1>1. TableInv' BY TableStays DEF IInv
<1>2. PlaceInv' BY DEF IInv, PlaceInv
<1>3. AttributeInv' BY DEF IInv, AttributeInv
<1>4. InitInv' BY DEF InitInv
<1>5. SettingsAreInUse' BY DEF IInv, InitInv, SettingsAreInUse
<1> QED BY <1>1, <1>2, <1>3, <1>4, <1>5 DEF IInv

LEMMA ModuleExitStep == IInv /\ ModuleExit => IInv'
<1> SUFFICES ASSUME IInv, ModuleExit PROVE IInv'
  OBVIOUS
<1> USE DEF ModuleExit
<1>1. TableInv' BY TableStays DEF IInv
<1>2. PlaceInv' BY DEF IInv, PlaceInv
<1>3. AttributeInv' BY DEF IInv, AttributeInv
<1>4. InitInv' BY DEF InitInv
<1>5. SettingsAreInUse' BY DEF SettingsAreInUse
<1> QED BY <1>1, <1>2, <1>3, <1>4, <1>5 DEF IInv

LEMMA NextKeepsInvariant == IInv /\ [Next]_vars => IInv'
<1> SUFFICES ASSUME IInv, [Next]_vars PROVE IInv'
  OBVIOUS
<1> USE DEF treeVars, stateVars, readVars, historyVars
<1>a. /\ configUpdate \in {0, 1}
      /\ listening = (moduleStatus = "RUNNING")
      /\ pc \in {"config", "reading", "edges", "params", "run", "reset"}
           => listening
      /\ pc = "edges" => todo = {}
  BY DEF IInv, PlaceInv
<1>1. CASE \E s \in Settings : PutSetting(s)
  BY <1>1, PutSettingStep
<1>2. CASE caerModuleShutdownListener
  BY <1>a, <1>2, QuietStep DEF caerModuleShutdownListener
<1>3. CASE SourceShutdownListener
  BY <1>a, <1>3, QuietStep DEF SourceShutdownListener
<1>4. CASE SourceParsesHeader
  BY <1>a, <1>4, QuietStep DEF SourceParsesHeader
<1>5. CASE SourceStep
  BY <1>a, <1>5, QuietStep DEF SourceStep
<1>6. CASE ModuleRuns
  BY <1>a, <1>6, QuietStep DEF ModuleRuns
<1>7. CASE ConfigBegins
  BY <1>7, ConfigBeginsStep
<1>8. CASE ConfigReadDone
  BY <1>a, <1>8, QuietStep DEF ConfigReadDone
<1>9. CASE moduleRun
  BY <1>a, <1>9, QuietStep DEF moduleRun
<1>10. CASE moduleReset
  BY <1>a, <1>10, QuietStep DEF moduleReset
<1>11. CASE ModuleInit
  BY <1>11, ModuleInitStep
<1>12. CASE InitDone
  BY <1>12, InitDoneStep
<1>13. CASE ModuleExit
  BY <1>13, ModuleExitStep
<1>14. CASE ModuleRests
  BY <1>a, <1>14, QuietStep DEF ModuleRests
<1>15. CASE \E s \in Settings : ReadSetting(s)
  BY <1>15, ReadSettingStep
<1>16. CASE \E c \in Commands(module) : ConfigCommand(c)
  BY <1>16, ConfigCommandStep
<1>17. CASE UNCHANGED vars
  BY <1>a, <1>17, QuietStep DEF vars
<1> QED
  BY <1>1, <1>2, <1>3, <1>4, <1>5, <1>6, <1>7, <1>8, <1>9, <1>10, <1>11,
     <1>12, <1>13, <1>14, <1>15, <1>16, <1>17 DEF Next, Mainloop

\* A filter that is not about to read its settings again works with those of
\* the tree, but for the ones put in Init before it listened: whichever way
\* puts of clients fall between the reset of configUpdate and the reads of
\* Config (module.cpp:64, :203, :208).
THEOREM FiltersUseTheirSettings == Spec => []SettingsAreInUse
<1>1. IInv => SettingsAreInUse BY DEF IInv
<1> QED BY <1>1, InitEstablishes, NextKeepsInvariant, PTL DEF Spec

-----------------------------------------------------------------------------
(* Resets of the timestamps. The source's turn leaves old memory only with *)
(* doReset set, in a container without events, and a filter that is        *)
(* RUNNING: in the same pass it is either stopped, which frees its memory, *)
(* or its Reset clears it.                                                 *)

EpochInv ==
  /\ moduleStatus = "STOPPED" => memory = "empty"
  /\ pc \in {"config", "reading", "edges", "params", "run", "reset"}
       => moduleStatus # "STOPPED"
  /\ module.memory = "cleared" /\ memory = "old" =>
       doReset # 0 /\ container = "reset" /\ pc \notin {"source", "init"}

LEMMA EpochInit == Init => EpochInv
BY DEF Init, EpochInv

LEMMA SourceEpochStep == EpochInv /\ SourceStep => EpochInv'
<1> SUFFICES ASSUME EpochInv, SourceStep PROVE EpochInv'
  OBVIOUS
<1>1. /\ pc = "source" /\ pc' = "module"
      /\ module' = module /\ moduleStatus' = moduleStatus
  BY DEF SourceStep
<1>2. module.memory = "cleared" => memory # "old"
  BY <1>1 DEF EpochInv
<1>3. CASE SourceRun
  <2>1. /\ memory' = IF container' = "reset" /\ memory = "current"
                     THEN "old" ELSE memory
        /\ container' = "reset" => doReset' = 1
    BY <1>3 DEF SourceRun, caerMainloopResetProcessors, ModuleID
  <2> QED BY <1>1, <1>2, <2>1 DEF EpochInv
<1>4. CASE SourceExit
  BY <1>1, <1>2, <1>4 DEF SourceExit, EpochInv
<1>5. CASE SourceInit \/ SourceRests
  <2>1. memory' = memory BY <1>5 DEF SourceInit, SourceRests
  <2> QED BY <1>1, <1>2, <2>1 DEF EpochInv
<1> QED BY <1>3, <1>4, <1>5 DEF SourceStep

LEMMA NextKeepsEpochs == EpochInv /\ [Next]_vars => EpochInv'
<1> SUFFICES ASSUME EpochInv, [Next]_vars PROVE EpochInv'
  OBVIOUS
<1> USE DEF treeVars, stateVars, readVars, historyVars, EpochInv
<1>1. CASE \E s \in Settings : PutSetting(s)
  BY <1>1 DEF PutSetting
<1>2. CASE \/ caerModuleShutdownListener \/ SourceShutdownListener
           \/ SourceParsesHeader
  BY <1>2 DEF caerModuleShutdownListener, SourceShutdownListener,
              SourceParsesHeader
<1>3. CASE SourceStep
  BY <1>3, SourceEpochStep
<1>4. CASE ModuleRuns
  BY <1>4 DEF ModuleRuns
<1>5. CASE ConfigBegins \/ ConfigReadDone
  BY <1>5 DEF ConfigBegins, ConfigReadDone
<1>6. CASE \E s \in Settings : ReadSetting(s)
  BY <1>6 DEF ReadSetting
<1>7. CASE \E c \in Commands(module) : ConfigCommand(c)
  BY <1>7 DEF ConfigCommand
<1>8. CASE moduleRun
  BY <1>8 DEF moduleRun
<1>9. CASE moduleReset
  BY <1>9 DEF moduleReset
<1>10. CASE ModuleInit
  BY <1>10 DEF ModuleInit
<1>11. CASE InitDone
  BY <1>11 DEF InitDone
<1>12. CASE ModuleExit
  BY <1>12 DEF ModuleExit
<1>13. CASE ModuleRests
  BY <1>13 DEF ModuleRests
<1>14. CASE UNCHANGED vars
  BY <1>14 DEF vars
<1> QED
  BY <1>1, <1>2, <1>3, <1>4, <1>5, <1>6, <1>7, <1>8, <1>9, <1>10, <1>11,
     <1>12, <1>13, <1>14 DEF Next, Mainloop

\* No filter with a Reset that clears its memory runs on events and memory
\* from before a reset of their timestamps, however it is switched on and off
\* (module.cpp:75, davis_common.c:397, backgroundactivityfilter.c:172).
THEOREM FiltersKeepToAnEpoch == Spec => []MemoryOfOneEpoch
<1>1. EpochInv => MemoryOfOneEpoch BY DEF EpochInv, MemoryOfOneEpoch
<1> QED BY <1>1, EpochInit, NextKeepsEpochs, PTL DEF Spec

-----------------------------------------------------------------------------
(* Commands. A command is remembered when it has been carried out, and its *)
(* parameters are read after that; it is not read again before every edge  *)
(* of this Config has been dealt with.                                     *)

CommandTableInv ==
  /\ Commands(module) \subseteq module.init
  /\ \A c \in Commands(module) :
       /\ module.commands[c] \subseteq module.init
       /\ module.commands[c] \cap Commands(module) = {}
  /\ module.gated \subseteq module.init
  /\ module.gated \cap Commands(module) = {}

\* Commands that have been read differ from the remembered ones only until
\* Config has dealt with them.
SeenInv ==
  /\ since \in [Commands(module) -> SUBSET Settings]
  /\ pc \notin {"reading", "edges", "params", "undefined"} =>
       \A c \in Commands(module) : got[c] = copy[c]
  /\ pc = "reading" => \A c \in Commands(module) \cap todo : got[c] = copy[c]
  /\ pc = "params" => todo \cap Commands(module) = {}

\* Settings that Init or a command is still to copy.
ToCopy == IF pc \in {"init", "params"} THEN todo ELSE {}

ParametersInv ==
  pc # "undefined" =>
    \A c \in Commands(module) :
      (pc = "init" \/ (got[c] /\ copy[c])) /\ attribute[c] =>
        \A p \in module.commands[c] \ (since[c] \cup ToCopy) :
          copy[p] = attribute[p]

CInv == IInv /\ CommandTableInv /\ SeenInv /\ ParametersInv

LEMMA CommandsInit == Init => CInv
<1> SUFFICES ASSUME Init PROVE CInv
  OBVIOUS
<1>1. IInv BY InitEstablishes
<1>2. CommandTableInv
  <2>1. PICK i \in Instances : module = Watch(i.filter, i.settings)
    BY DEF Init
  <2>2. /\ DOMAIN i.filter.commands \subseteq i.filter.init
        /\ \A c \in DOMAIN i.filter.commands :
             /\ i.filter.commands[c] \subseteq i.filter.init
             /\ i.filter.commands[c] \cap DOMAIN i.filter.commands = {}
        /\ i.filter.gated \subseteq i.filter.init
        /\ i.filter.gated \cap DOMAIN i.filter.commands = {}
    BY ProcessorAssumption, FiltersAssumption
  <2>3. /\ module.init = i.filter.init \cap i.settings
        /\ module.gated = i.filter.gated \cap i.settings
        /\ module.commands = [c \in DOMAIN i.filter.commands \cap i.settings |->
                                i.filter.commands[c] \cap i.settings]
    BY <2>1 DEF Watch
  <2> QED BY <2>2, <2>3 DEF CommandTableInv
<1>3. SeenInv
  <2>1. /\ pc = "source" /\ got = [c \in Commands(module) |-> FALSE]
        /\ copy = [t \in Settings |-> FALSE]
        /\ since = [c \in Commands(module) |-> Settings]
    BY DEF Init
  <2>2. Commands(module) \subseteq Settings
    BY <1>2 DEF CommandTableInv
  <2> QED BY <2>1, <2>2 DEF SeenInv
<1>4. ParametersInv
  BY DEF Init, ParametersInv
<1> QED BY <1>1, <1>2, <1>3, <1>4 DEF CInv

\* What a step has to keep besides IInv.
CommandsKept == CommandTableInv' /\ SeenInv' /\ ParametersInv'

LEMMA CommandTableStays ==
  CommandTableInv /\ module' = module => CommandTableInv'
BY DEF CommandTableInv

\* Steps outside of Init and Config that put and read nothing.
LEMMA CommandsQuietStep ==
  ASSUME CInv, UNCHANGED <<module, attribute, copy, todo, got, since>>,
         \/ pc' = pc
         \/ /\ pc \notin {"init", "reading", "edges", "params", "undefined"}
            /\ pc' \notin {"init", "reading", "edges", "params"}
  PROVE  CommandsKept
<1>1. CommandTableInv' BY CommandTableStays DEF CInv
<1>2. SeenInv'         BY DEF CInv, SeenInv
<1>3. ParametersInv'   BY DEF CInv, ParametersInv, ToCopy
<1> QED BY <1>1, <1>2, <1>3 DEF CommandsKept

\* What is put counts as put since; a command that goes up is not yet read
\* as such by a filter that listens, and does not count for one that does not.
LEMMA PutSettingCommands ==
  ASSUME CInv, NEW s \in Settings, PutSetting(s)
  PROVE  CommandsKept
<1>1. /\ UNCHANGED <<module, copy, todo, got, listening, pc>>
      /\ attribute' = [attribute EXCEPT ![s] = ~attribute[s]]
      /\ since' = [c \in DOMAIN since |->
                     IF s = c /\ ~attribute[c]
                     THEN IF listening /\ ~got[c] THEN {} ELSE Settings
                     ELSE since[c] \cup {s}]
  BY DEF PutSetting, readVars, stateVars
<1>2. /\ attribute \in [Settings -> BOOLEAN]
      /\ since \in [Commands(module) -> SUBSET Settings]
      /\ pc = "init" => ~listening
      /\ \A c \in Commands(module) : module.commands[c] \subseteq Settings
  BY DEF CInv, IInv, AttributeInv, SeenInv, PlaceInv, CommandTableInv
<1>3. CommandTableInv' BY <1>1, CommandTableStays DEF CInv
<1>4. since' \in [Commands(module) -> SUBSET Settings]
  BY <1>1, <1>2
<1>5. SeenInv'         BY <1>1, <1>4 DEF CInv, SeenInv
<1>6. ParametersInv'
  <2> SUFFICES ASSUME pc # "undefined", NEW c \in Commands(module),
                      pc = "init" \/ (got[c] /\ copy[c]), attribute'[c],
                      NEW p \in module.commands[c] \ (since'[c] \cup ToCopy)
               PROVE  copy[p] = attribute'[p]
    BY <1>1 DEF ParametersInv, ToCopy
  <2>1. p \in Settings BY <1>2
  <2>2. CASE s = c /\ ~attribute[c]
    <3>1. listening /\ ~got[c] BY <1>1, <1>2, <2>1, <2>2
    <3> QED BY <1>2, <3>1
  <2>3. CASE ~(s = c /\ ~attribute[c])
    <3>1. since'[c] = since[c] \cup {s} BY <1>1, <1>2, <2>3
    <3>2. s # c
      <4> SUFFICES ASSUME s = c PROVE FALSE
        OBVIOUS
      <4>1. attribute[c] BY <2>3
      <4> QED BY <1>1, <1>2, <4>1
    <3>3. attribute[c] /\ attribute'[p] = attribute[p]
      BY <1>1, <1>2, <2>1, <3>1, <3>2
    <3>4. p \in module.commands[c] \ (since[c] \cup ToCopy)
      BY <3>1
    <3> QED BY <3>3, <3>4 DEF CInv, ParametersInv
  <2> QED BY <2>2, <2>3
<1> QED BY <1>3, <1>5, <1>6 DEF CommandsKept

LEMMA ReadSettingCommands ==
  ASSUME CInv, NEW s \in Settings, ReadSetting(s)
  PROVE  CommandsKept
<1>1. /\ UNCHANGED <<module, attribute, since, pc>>
      /\ todo' = todo \ {s} /\ s \in todo
      /\ pc \in {"init", "reading", "params"}
      /\ got' = IF s \in Commands(module)
                THEN [got EXCEPT ![s] = attribute[s]] ELSE got
      /\ copy' = IF pc = "reading" /\ s \in Commands(module) THEN copy
                 ELSE [copy EXCEPT ![s] = attribute[s]]
  BY DEF ReadSetting, treeVars, historyVars
<1>2. /\ attribute \in [Settings -> BOOLEAN]
      /\ copy \in [Settings -> BOOLEAN]
      /\ got \in [Commands(module) -> BOOLEAN]
      /\ since \in [Commands(module) -> SUBSET Settings]
      /\ Commands(module) \subseteq Settings
      /\ pc = "params" => s \notin Commands(module)
  BY <1>1 DEF CInv, IInv, AttributeInv, SeenInv, CommandTableInv
<1>3. CommandTableInv' BY <1>1, CommandTableStays DEF CInv
<1>4. \A c \in Commands(module) :
        /\ c # s => got'[c] = got[c] /\ copy'[c] = copy[c]
        /\ c = s => got'[c] = attribute[c]
        /\ c = s /\ pc # "reading" => copy'[c] = attribute[c]
        /\ c = s /\ pc = "reading" => copy'[c] = copy[c] /\ got[c] = copy[c]
  BY <1>1, <1>2 DEF CInv, SeenInv
<1>5. SeenInv'         BY <1>1, <1>2, <1>4 DEF CInv, SeenInv
<1>6. ParametersInv'
  <2> SUFFICES ASSUME NEW c \in Commands(module),
                      pc = "init" \/ (got'[c] /\ copy'[c]), attribute[c],
                      NEW p \in module.commands[c] \ (since[c] \cup ToCopy')
               PROVE  copy'[p] = attribute[p]
    BY <1>1 DEF ParametersInv
  <2>1. p \in Settings /\ p \notin Commands(module)
    BY DEF CInv, CommandTableInv
  <2>2. p = s => copy'[p] = attribute[p]
    BY <1>1, <1>2, <2>1
  <2>3. p # s => copy'[p] = copy[p]
    BY <1>1, <1>2, <2>1
  <2>4. ASSUME p # s PROVE copy[p] = attribute[p]
    <3>1. p \notin ToCopy BY <1>1, <2>4 DEF ToCopy
    <3>2. pc = "init" \/ (got[c] /\ copy[c])
      BY <1>1, <1>2, <1>4
    <3> QED BY <1>1, <3>1, <3>2 DEF CInv, ParametersInv
  <2> QED BY <2>2, <2>3, <2>4
<1> QED BY <1>3, <1>5, <1>6 DEF CommandsKept

LEMMA ConfigBeginsCommands == CInv /\ ConfigBegins => CommandsKept
<1> SUFFICES ASSUME CInv, ConfigBegins PROVE CommandsKept
  OBVIOUS
<1> USE DEF ConfigBegins, stateVars
<1>1. CommandTableInv' BY CommandTableStays DEF CInv
<1>2. SeenInv'         BY DEF CInv, SeenInv
<1>3. ParametersInv'   BY DEF CInv, ParametersInv, ToCopy
<1> QED BY <1>1, <1>2, <1>3 DEF CommandsKept

LEMMA ConfigReadDoneCommands == CInv /\ ConfigReadDone => CommandsKept
<1> SUFFICES ASSUME CInv, ConfigReadDone PROVE CommandsKept
  OBVIOUS
<1> USE DEF ConfigReadDone, treeVars, stateVars, readVars, historyVars
<1>1. CommandTableInv' BY CommandTableStays DEF CInv
<1>2. SeenInv'         BY DEF CInv, SeenInv
<1>3. ParametersInv'   BY DEF CInv, ParametersInv, ToCopy
<1> QED BY <1>1, <1>2, <1>3 DEF CommandsKept

LEMMA ConfigCommandCommands ==
  ASSUME CInv, NEW c \in Commands(module), ConfigCommand(c)
  PROVE  CommandsKept
<1>1. /\ UNCHANGED <<module, attribute, since, got>>
      /\ pc = "edges" /\ pc' \in {"params", "undefined"}
      /\ copy' = [copy EXCEPT ![c] = got[c]]
      /\ todo' = IF got[c] THEN ParametersOf(c) ELSE {}
  BY DEF ConfigCommand, treeVars, historyVars
<1>2. /\ copy \in [Settings -> BOOLEAN]
      /\ got \in [Commands(module) -> BOOLEAN]
      /\ Commands(module) \subseteq Settings
      /\ ParametersOf(c) \cap Commands(module) = {}
      /\ module.commands[c] \subseteq ParametersOf(c)
  BY DEF CInv, IInv, AttributeInv, CommandTableInv, ParametersOf
<1>3. CommandTableInv' BY <1>1, CommandTableStays DEF CInv
<1>4. SeenInv'         BY <1>1, <1>2 DEF CInv, SeenInv
<1>5. ParametersInv'
  <2> SUFFICES ASSUME pc' = "params", NEW d \in Commands(module),
                      got[d], copy'[d], attribute[d],
                      NEW p \in module.commands[d] \ (since[d] \cup todo')
               PROVE  copy'[p] = attribute[p]
    BY <1>1 DEF ParametersInv, ToCopy
  <2>1. p \in Settings /\ p \notin Commands(module)
    BY DEF CInv, CommandTableInv
  <2>2. copy'[p] = copy[p] BY <1>1, <1>2, <2>1
  <2>3. d # c BY <1>1, <1>2
  <2>4. copy[d] BY <1>1, <1>2, <2>3
  <2>5. p \notin ToCopy BY <1>1 DEF ToCopy
  <2> QED BY <1>1, <2>2, <2>4, <2>5 DEF CInv, ParametersInv
<1> QED BY <1>3, <1>4, <1>5 DEF CommandsKept

LEMMA ModuleInitCommands == CInv /\ ModuleInit => CommandsKept
<1> SUFFICES ASSUME CInv, ModuleInit PROVE CommandsKept
  OBVIOUS
<1>1. /\ UNCHANGED <<module, attribute, copy, got, since>>
      /\ pc = "module"
      /\ \/ pc' \in {"source", "exit"} /\ todo' = todo
         \/ pc' = "init" /\ todo' = module.init
  BY DEF ModuleInit
<1>2. CommandTableInv' BY <1>1, CommandTableStays DEF CInv
<1>3. SeenInv'         BY <1>1 DEF CInv, SeenInv
<1>4. ParametersInv'
  BY <1>1 DEF CInv, ParametersInv, ToCopy, CommandTableInv
<1> QED BY <1>2, <1>3, <1>4 DEF CommandsKept

LEMMA InitDoneCommands == CInv /\ InitDone => CommandsKept
<1> SUFFICES ASSUME CInv, InitDone PROVE CommandsKept
  OBVIOUS
<1> USE DEF InitDone, readVars, historyVars
<1>1. CommandTableInv' BY CommandTableStays DEF CInv
<1>2. SeenInv'         BY DEF CInv, SeenInv
<1>3. ParametersInv'   BY DEF CInv, ParametersInv, ToCopy
<1> QED BY <1>1, <1>2, <1>3 DEF CommandsKept

LEMMA ModuleExitCommands == CInv /\ ModuleExit => CommandsKept
<1> SUFFICES ASSUME CInv, ModuleExit PROVE CommandsKept
  OBVIOUS
<1>1. /\ UNCHANGED <<module, attribute, since>>
      /\ pc' = "source"
      /\ got' = [c \in Commands(module) |-> FALSE]
      /\ copy' = [t \in Settings |-> FALSE]
  BY DEF ModuleExit
<1>2. Commands(module) \subseteq Settings
  BY DEF CInv, CommandTableInv
<1>3. CommandTableInv' BY <1>1, CommandTableStays DEF CInv
<1>4. SeenInv'         BY <1>1, <1>2 DEF CInv, SeenInv
<1>5. ParametersInv'   BY <1>1 DEF ParametersInv
<1> QED BY <1>3, <1>4, <1>5 DEF CommandsKept

LEMMA NextKeepsCommands == CInv /\ [Next]_vars => CInv'
<1> SUFFICES ASSUME CInv, [Next]_vars PROVE CommandsKept
  BY NextKeepsInvariant DEF CInv, CommandsKept
<1> USE DEF treeVars, stateVars, readVars, historyVars
<1>1. CASE \E s \in Settings : PutSetting(s)
  BY <1>1, PutSettingCommands
<1>2. CASE caerModuleShutdownListener
  BY <1>2, CommandsQuietStep DEF caerModuleShutdownListener
<1>3. CASE SourceShutdownListener
  BY <1>3, CommandsQuietStep DEF SourceShutdownListener
<1>4. CASE SourceParsesHeader
  BY <1>4, CommandsQuietStep DEF SourceParsesHeader
<1>5. CASE SourceStep
  BY <1>5, CommandsQuietStep DEF SourceStep
<1>6. CASE ModuleRuns
  BY <1>6, CommandsQuietStep DEF ModuleRuns
<1>7. CASE ConfigBegins
  BY <1>7, ConfigBeginsCommands
<1>8. CASE ConfigReadDone
  BY <1>8, ConfigReadDoneCommands
<1>9. CASE moduleRun
  BY <1>9, CommandsQuietStep DEF moduleRun
<1>10. CASE moduleReset
  BY <1>10, CommandsQuietStep DEF moduleReset
<1>11. CASE ModuleInit
  BY <1>11, ModuleInitCommands
<1>12. CASE InitDone
  BY <1>12, InitDoneCommands
<1>13. CASE ModuleExit
  BY <1>13, ModuleExitCommands
<1>14. CASE ModuleRests
  BY <1>14, CommandsQuietStep DEF ModuleRests
<1>15. CASE \E s \in Settings : ReadSetting(s)
  BY <1>15, ReadSettingCommands
<1>16. CASE \E c \in Commands(module) : ConfigCommand(c)
  BY <1>16, ConfigCommandCommands
<1>17. CASE UNCHANGED vars
  BY <1>17, CommandsQuietStep DEF vars
<1> QED
  BY <1>1, <1>2, <1>3, <1>4, <1>5, <1>6, <1>7, <1>8, <1>9, <1>10, <1>11,
     <1>12, <1>13, <1>14, <1>15, <1>16, <1>17 DEF Next, Mainloop

\* A filter carries a command out with the parameters that were put before
\* the command, or with newer ones, whatever else is put between the reads of
\* Config (fpgaspikegen.c:139, synapsereconfig.c:173).
THEOREM CommandsHaveTheirParameters == Spec => []CommandsUseTheirParameters
<1>1. CInv => CommandsUseTheirParameters
  BY DEF CInv, ParametersInv, ToCopy, CommandsUseTheirParameters
<1> QED BY <1>1, CommandsInit, NextKeepsCommands, PTL DEF Spec

-----------------------------------------------------------------------------
(* Types: what the invariants above leave out.                             *)

SourceType ==
  /\ source \in [status : {"STOPPED", "RUNNING"}, running : BOOLEAN,
                 start : 0 .. MaxStarts, sizes : BOOLEAN, kind : Kinds]
  /\ sourceState \in 0 .. MaxStarts

PassType ==
  /\ doReset \in {0, ModuleID}
  /\ memory \in {"empty", "current", "old", "foreign"}
  /\ container \in {"none", "events", "reset"}
  /\ pc \in {"source", "module", "init", "config", "reading", "edges", "params",
             "run", "reset", "exit", "undefined"}

SetsType == todo \subseteq Settings /\ missed \subseteq module.live

CountsType ==
  /\ running \in BOOLEAN
  /\ puts \in 0 .. MaxPuts /\ toggles \in 0 .. MaxToggles

RestInv == SourceType /\ PassType /\ SetsType /\ CountsType

LEMMA RestInit == Init => RestInv
<1> SUFFICES ASSUME Init PROVE RestInv
  OBVIOUS
<1>1. MaxPuts \in Nat /\ MaxToggles \in Nat /\ MaxStarts \in Nat
  BY ProcessorAssumption
<1>2. SourceType
  BY <1>1 DEF Init, SourceType
<1>3. PassType
  BY DEF Init, PassType
<1>4. SetsType
  BY DEF Init, SetsType
<1>5. CountsType
  BY <1>1 DEF Init, CountsType
<1> QED BY <1>2, <1>3, <1>4, <1>5 DEF RestInv

LEMMA SourceTypeStep == RestInv /\ [Next]_vars => SourceType'
<1> SUFFICES ASSUME RestInv, [Next]_vars PROVE SourceType'
  OBVIOUS
<1> USE DEF treeVars, stateVars, readVars, historyVars, bounds
<1>1. SourceType /\ MaxStarts \in Nat
  BY ProcessorAssumption DEF RestInv
<1>2. CASE SourceShutdownListener
  BY <1>1, <1>2 DEF SourceShutdownListener, SourceType
<1>3. CASE SourceParsesHeader
  BY <1>1, <1>3 DEF SourceParsesHeader, SourceType
<1>4. CASE SourceStep
  <2>1. sourceState' = sourceState
    BY <1>4 DEF SourceStep
  <2>2. CASE SourceRun \/ SourceRests
    BY <1>1, <2>1, <2>2 DEF SourceRun, SourceRests, SourceType
  <2>3. CASE SourceInit
    <3>1. CASE UNCHANGED source
      BY <1>1, <2>1, <3>1 DEF SourceType
    <3>2. CASE source' # source
      <4> DEFINE sized == source.kind = "device"
      <4>1. /\ source.start < MaxStarts
            /\ source' = [source EXCEPT !.status = "RUNNING", !.start = @ + 1,
                                        !.sizes = sized]
        BY <2>3, <3>2, Zenon DEF SourceInit
      <4>2. sized \in BOOLEAN
        BY Zenon
      <4>3. source.start \in 0 .. MaxStarts
        BY <1>1 DEF SourceType
      <4>4. source.start + 1 \in 0 .. MaxStarts
        BY <1>1, <4>1, <4>3
      <4> HIDE DEF sized
      <4> QED BY <1>1, <2>1, <4>1, <4>2, <4>4 DEF SourceType
    <3> QED BY <3>1, <3>2
  <2>4. CASE SourceExit
    BY <1>1, <2>1, <2>4 DEF SourceExit, SourceType
  <2> QED BY <1>4, <2>2, <2>3, <2>4 DEF SourceStep
<1>5. CASE ModuleInit
  BY <1>1, <1>5 DEF ModuleInit, GetSourceState, SourceType
<1>6. CASE ModuleExit
  BY <1>1, <1>6 DEF ModuleExit, SourceType
<1>7. CASE \/ \E s \in Settings : PutSetting(s)
           \/ caerModuleShutdownListener
  BY <1>1, <1>7 DEF PutSetting, caerModuleShutdownListener, SourceType
<1>8. CASE \/ ModuleRuns \/ ConfigBegins \/ ConfigReadDone \/ moduleRun
           \/ moduleReset \/ InitDone \/ ModuleRests
  BY <1>1, <1>8 DEF ModuleRuns, ConfigBegins, ConfigReadDone, moduleRun,
                    moduleReset, InitDone, ModuleRests, SourceType
<1>9. CASE \/ \E s \in Settings : ReadSetting(s)
           \/ \E c \in Commands(module) : ConfigCommand(c)
  BY <1>1, <1>9 DEF ReadSetting, ConfigCommand, SourceType
<1>10. CASE UNCHANGED vars
  BY <1>1, <1>10 DEF vars, SourceType
<1> QED
  BY <1>2, <1>3, <1>4, <1>5, <1>6, <1>7, <1>8, <1>9, <1>10 DEF Next, Mainloop

LEMMA PassTypeStep == RestInv /\ [Next]_vars => PassType'
<1> SUFFICES ASSUME RestInv, [Next]_vars PROVE PassType'
  OBVIOUS
<1> USE DEF treeVars, stateVars, readVars, historyVars, bounds, PassType
<1>1. PassType
  BY DEF RestInv
<1>2. CASE \/ caerModuleShutdownListener \/ SourceShutdownListener
           \/ SourceParsesHeader \/ \E s \in Settings : PutSetting(s)
  BY <1>1, <1>2 DEF caerModuleShutdownListener, SourceShutdownListener,
                    SourceParsesHeader, PutSetting
<1>3. CASE SourceStep
  <2>1. pc' = "module"
    BY <1>3 DEF SourceStep
  <2>2. CASE SourceRun
    BY <1>1, <2>1, <2>2 DEF SourceRun, caerMainloopResetProcessors
  <2>3. CASE SourceInit \/ SourceExit \/ SourceRests
    BY <1>1, <2>1, <2>3 DEF SourceInit, SourceExit, SourceRests
  <2> QED BY <1>3, <2>2, <2>3 DEF SourceStep
<1>4. CASE ModuleRuns \/ ConfigBegins \/ ConfigReadDone
  BY <1>1, <1>4 DEF ModuleRuns, ConfigBegins, ConfigReadDone
<1>5. CASE moduleRun
  BY <1>1, <1>5 DEF moduleRun
<1>6. CASE moduleReset
  BY <1>1, <1>6 DEF moduleReset
<1>7. CASE ModuleInit \/ InitDone \/ ModuleExit \/ ModuleRests
  BY <1>1, <1>7 DEF ModuleInit, InitDone, ModuleExit, ModuleRests
<1>8. CASE \/ \E s \in Settings : ReadSetting(s)
           \/ \E c \in Commands(module) : ConfigCommand(c)
  BY <1>1, <1>8 DEF ReadSetting, ConfigCommand
<1>9. CASE UNCHANGED vars
  BY <1>1, <1>9 DEF vars
<1> QED
  BY <1>2, <1>3, <1>4, <1>5, <1>6, <1>7, <1>8, <1>9 DEF Next, Mainloop

LEMMA SetsTypeStep == RestInv /\ CommandTableInv /\ [Next]_vars => SetsType'
<1> SUFFICES ASSUME RestInv, CommandTableInv, [Next]_vars PROVE SetsType'
  OBVIOUS
<1> USE DEF treeVars, stateVars, readVars, historyVars, bounds, SetsType
<1>1. SetsType
  BY DEF RestInv
<1>2. CASE \E s \in Settings : PutSetting(s)
  BY <1>1, <1>2 DEF PutSetting
<1>3. CASE \/ caerModuleShutdownListener \/ SourceShutdownListener
           \/ SourceParsesHeader \/ SourceStep
  BY <1>1, <1>3 DEF caerModuleShutdownListener, SourceShutdownListener,
                    SourceParsesHeader, SourceStep
<1>4. CASE ConfigBegins
  BY <1>1, <1>4 DEF ConfigBegins, CommandTableInv
<1>5. CASE \E s \in Settings : ReadSetting(s)
  BY <1>1, <1>5 DEF ReadSetting
<1>6. CASE \E c \in Commands(module) : ConfigCommand(c)
  BY <1>1, <1>6 DEF ConfigCommand, CommandTableInv, ParametersOf
<1>7. CASE ModuleInit \/ ModuleExit
  BY <1>1, <1>7 DEF ModuleInit, ModuleExit
<1>8. CASE \/ ModuleRuns \/ ConfigReadDone \/ moduleRun \/ moduleReset
           \/ InitDone \/ ModuleRests
  BY <1>1, <1>8 DEF ModuleRuns, ConfigReadDone, moduleRun, moduleReset,
                    InitDone, ModuleRests
<1>9. CASE UNCHANGED vars
  BY <1>1, <1>9 DEF vars
<1> QED
  BY <1>2, <1>3, <1>4, <1>5, <1>6, <1>7, <1>8, <1>9 DEF Next, Mainloop

LEMMA CountsTypeStep == RestInv /\ [Next]_vars => CountsType'
<1> SUFFICES ASSUME RestInv, [Next]_vars PROVE CountsType'
  OBVIOUS
<1> USE DEF treeVars, stateVars, readVars, historyVars, bounds, CountsType
<1>1. CountsType /\ MaxPuts \in Nat /\ MaxToggles \in Nat
  BY ProcessorAssumption DEF RestInv
<1>2. CASE \E s \in Settings : PutSetting(s)
  BY <1>1, <1>2 DEF PutSetting
<1>3. CASE caerModuleShutdownListener
  BY <1>1, <1>3 DEF caerModuleShutdownListener
<1>4. CASE SourceShutdownListener
  BY <1>1, <1>4 DEF SourceShutdownListener
<1>5. CASE SourceParsesHeader \/ SourceStep
  BY <1>1, <1>5 DEF SourceParsesHeader, SourceStep
<1>6. CASE \/ ModuleRuns \/ ConfigBegins \/ ConfigReadDone \/ moduleRun
           \/ moduleReset \/ ModuleInit \/ InitDone \/ ModuleExit
           \/ ModuleRests
  BY <1>1, <1>6 DEF ModuleRuns, ConfigBegins, ConfigReadDone, moduleRun,
                    moduleReset, ModuleInit, InitDone, ModuleExit, ModuleRests
<1>7. CASE \/ \E s \in Settings : ReadSetting(s)
           \/ \E c \in Commands(module) : ConfigCommand(c)
  BY <1>1, <1>7 DEF ReadSetting, ConfigCommand
<1>8. CASE UNCHANGED vars
  BY <1>1, <1>8 DEF vars
<1> QED
  BY <1>2, <1>3, <1>4, <1>5, <1>6, <1>7, <1>8 DEF Next, Mainloop

\* Every variable of the filter, its node and its source keeps its type,
\* whichever filter it is and whatever clients and the source do: only
\* settings of the filter are ever read or listed as put (module.cpp:45,
\* fpgaspikegen.c:139).
THEOREM TypeCorrect == Spec => []TypeOK
<1>1. CInv /\ RestInv => TypeOK
  <2> SUFFICES ASSUME CInv, RestInv PROVE TypeOK
    OBVIOUS
  <2>1. PlaceInv /\ AttributeInv /\ SeenInv
    BY DEF CInv, IInv
  <2>2. listening \in BOOLEAN
    BY <2>1, Zenon DEF PlaceInv
  <2>3. /\ attribute \in [Settings -> BOOLEAN] /\ copy \in [Settings -> BOOLEAN]
        /\ got \in [Commands(module) -> BOOLEAN]
    BY <2>1, Zenon DEF AttributeInv
  <2>4. since \in [Commands(module) -> SUBSET Settings]
    BY <2>1, Zenon DEF SeenInv
  <2>5. configUpdate \in {0, 1} /\ moduleStatus \in {"STOPPED", "RUNNING"}
    BY <2>1, Zenon DEF PlaceInv
  <2> QED
    BY <2>2, <2>3, <2>4, <2>5, Zenon
       DEF RestInv, SourceType, PassType, SetsType, CountsType, TypeOK
<1>2. Init => CInv /\ RestInv
  BY CommandsInit, RestInit
<1>3. CInv /\ RestInv /\ [Next]_vars => (CInv /\ RestInv)'
  BY NextKeepsCommands, SourceTypeStep, PassTypeStep, SetsTypeStep,
     CountsTypeStep DEF RestInv, CInv
<1> QED BY <1>1, <1>2, <1>3, PTL DEF Spec

-----------------------------------------------------------------------------
(* ConfigTree. First its invariant.                                        *)

RequestSteps == {"check", "use", "listed", "copy", "id", "library", "type",
                 "config", "listener"}

\* A request is one of those that clients make, and has got somewhere. Nobody
\* else makes the node that ADD_MODULE has found missing, nor removes the one
\* that it has made.
RequestInv ==
  /\ \/ request = NoRequest
     \/ /\ request \in [kind : Requests, name : Names, value : Int,
                        at : RequestSteps]
        /\ request.kind = "add" => request.value \in Libraries
        /\ request.kind = "put" => request.value \in Loose
  /\ request.kind = "add" /\ request.at \in {"library", "type", "config"}
     => request.name \in Nodes
  /\ request.kind = "add" /\ request.at = "id" => request.name \notin Nodes

\* The mainloop only works on modules that have a node.
HandledInv == mainPc # "undefined" => modules \cup left \subseteq Nodes

\* A program that does not run handles nothing.
OffInv == mainPc = "off" => modules = {} /\ left = {} /\ request = NoRequest

\* What was put last is in the tree.
LastInv ==
  \A m \in Names :
    last[m] = IF m \in Nodes THEN attributes[m]["setting"] ELSE None

\* A setting that was created has a value and is exported.
CreatedInv ==
  \A m \in configured : /\ m \in Nodes
                        /\ attributes[m]["setting"] # None
                        /\ "setting" \in exported[m]

\* A file that is not being written has what was promised of it.
FileInv ==
  /\ mainPc # "truncated" =>
       \A m \in Names : promised[m] # None =>
         m \in DOMAIN file /\ file[m]["setting"] = promised[m]
  /\ mainPc = "log" => attributes = file

TreeInv ==
  ConfigTypeOK /\ RequestInv /\ HandledInv /\ OffInv /\ LastInv /\ CreatedInv /\ FileInv
-----------------------------------------------------------------------------
(* The operators.                                                          *)

\* Of the initial segments that end before a member, a smallest one ends
\* before the least member.
LEMMA LeastNatural ==
  ASSUME NEW S, S \subseteq Nat, S # {}
  PROVE  \E x \in S : \A y \in S : x <= y
<1> DEFINE Segments == {0 .. n - 1 : n \in S}
<1>1. \A n \in S : 0 .. n - 1 \in SUBSET Nat /\ IsFiniteSet(0 .. n - 1)
  BY FS_Interval
<1>2. Segments \subseteq FiniteSubsetsOf(Nat) /\ Segments # {}
  BY <1>1 DEF FiniteSubsetsOf
<1>3. PICK X \in Segments : \A Y \in Segments :
        <<Y, X>> \notin StrictSubsetOrdering(Nat)
  <2> HIDE DEF Segments
  <2> QED BY <1>2, FS_StrictSubsetOrderingWellFounded, WFMin
<1>4. PICK x \in S : X = 0 .. x - 1
  OBVIOUS
<1>5. ASSUME NEW y \in S PROVE x <= y
  <2> SUFFICES ASSUME y < x PROVE FALSE
    OBVIOUS
  <2> DEFINE Y == 0 .. y - 1
  <2>1. Y \in Segments OBVIOUS
  <2>2. y \in X /\ y \notin Y BY <1>4
  <2>3. Y \subseteq X /\ X \subseteq Nat
    <3>1. x \in Nat /\ y \in Nat OBVIOUS
    <3> HIDE DEF Segments
    <3> QED BY <1>4, <3>1
  <2>4. <<Y, X>> \in (SUBSET Nat) \X (SUBSET Nat) BY <2>3
  <2>5. <<Y, X>> \in StrictSubsetOrdering(Nat)
    <3> HIDE DEF Y
    <3> QED BY <2>2, <2>3, <2>4 DEF StrictSubsetOrdering
  <2> QED BY <1>3, <2>1, <2>5
<1> QED BY <1>5

\* There is a free ID, and no more of them are taken than there are modules.
LEMMA FreeIdExists ==
  ASSUME IsFile(attributes)
  PROVE  NextFreeId \in 1 .. Cardinality(Names) + 1
<1> DEFINE Holders == {o \in Nodes : Has(o, "moduleId")}
           id == [n \in Holders |-> attributes[n]["moduleId"]]
           n == Cardinality(UsedIds)
<1>1. /\ IsFiniteSet(Holders) /\ Cardinality(Holders) <= Cardinality(Names)
      /\ Cardinality(Names) \in Nat /\ Cardinality(Holders) \in Nat
  <2>1. Holders \in SUBSET Names /\ IsFiniteSet(Names)
    BY ConfigTreeAssumption DEF IsFile, Nodes
  <2> HIDE DEF Holders
  <2> QED BY <2>1, FS_Subset, FS_CardinalityType
<1>2. id \in Surjection(Holders, UsedIds)
  BY DEF Surjection, UsedIds
<1>3. IsFiniteSet(UsedIds) /\ n \in Nat /\ n <= Cardinality(Names)
  <2> HIDE DEF Holders, id
  <2> QED BY <1>1, <1>2, FS_Surjection, FS_CardinalityType
<1> HIDE DEF Holders, id, n
<1> DEFINE Free == (1 .. n + 1) \ UsedIds
<1>4. Free # {}
  <2> SUFFICES ASSUME 1 .. n + 1 \in SUBSET UsedIds PROVE FALSE
    OBVIOUS
  <2>1. Cardinality(1 .. n + 1) = n + 1
    BY <1>3, FS_Interval
  <2>2. Cardinality(1 .. n + 1) <= n
    BY <1>3, FS_Subset DEF n
  <2> QED BY <1>3, <2>1, <2>2
<1>5. PICK x \in Free : \A y \in Free : x <= y
  <2>1. Free \subseteq Nat
    BY <1>3
  <2> HIDE DEF Free
  <2> QED BY <1>4, <2>1, LeastNatural
<1>6. x \in 1 .. n + 1 /\ x \notin UsedIds /\ 1 .. x - 1 \subseteq UsedIds
  BY <1>3, <1>5
<1>7. NextFreeId \in 1 .. n + 1
  BY <1>6 DEF NextFreeId, n
<1> QED BY <1>1, <1>3, <1>7

\* A node is a function of its attributes; each of them may be created, reset
\* or put.
IsNode(values) ==
  /\ DOMAIN values = Keys
  /\ values["moduleId"] \in {None} \cup 1 .. Cardinality(Names) + 1
  /\ values["moduleLibrary"] \in {None} \cup Libraries
  /\ values["moduleInput"] \in {None, 0}
  /\ values["setting"] \in {None} \cup Loose

LEMMA FileNodes ==
  ASSUME NEW f
  PROVE  IsFile(f) <=> DOMAIN f \subseteq Names /\ \A m \in DOMAIN f : IsNode(f[m])
  BY DEF IsFile, IsNode

\* What is exported of a tree is a file.
LEMMA ExportedFile ==
  ASSUME IsFile(attributes)
  PROVE  /\ IsFile(Exported)
         /\ \A m \in Nodes :
              "setting" \in exported[m] /\ attributes[m]["setting"] # None
              => m \in DOMAIN Exported /\ Exported[m]["setting"] = attributes[m]["setting"]
  BY DEF IsFile, Exported, Has, Keys, Nodes, None

-----------------------------------------------------------------------------
(* Types.                                                                  *)

FlagsType ==
  systemRunning \in BOOLEAN /\ loopRuns \in BOOLEAN /\ runningPut \in BOOLEAN

MainType ==
  /\ mainPc \in {"off", "log", "serve", "outer", "update", "collect", "load",
                 "connect", "initialize", "running", "join", "exit", "truncated",
                 "undefined"}
  /\ left \subseteq Names /\ modules \subseteq Names
  /\ sourceInfo \subseteq Names /\ listed \subseteq Names
  /\ asked \in 0 .. MaxRequests /\ starts \in 0 .. MaxRuns

UpdateType ==
  /\ modulePaths \subseteq Libraries /\ listOptions \subseteq Libraries
  /\ described \subseteq Libraries
  /\ pathsMutex \in {"none"} \cup Threads
  /\ modulesLock \in {"none", "server"}
  /\ updating \in [Threads -> {"no", "lock", "clear", "search", "list",
                               "describe", "failed"}]

ValuesType ==
  /\ IsFile(attributes) /\ DOMAIN exported = Nodes
  /\ \A m \in Nodes : exported[m] \subseteq Keys
  /\ configured \subseteq Names

HistoryType ==
  /\ IsFile(file)
  /\ last \in [Names -> {None} \cup Loose]
  /\ promised \in [Names -> {None} \cup Loose]

LEMMA TypeParts ==
  ConfigTypeOK <=> /\ FlagsType /\ MainType /\ UpdateType /\ ValuesType /\ HistoryType
                   /\ request.kind \in {"none"} \cup Requests
  BY Zenon DEF ConfigTypeOK, FlagsType, MainType, UpdateType, ValuesType, HistoryType

LEMMA FlagsStep == FlagsType /\ [ConfigNext]_configVars => FlagsType'
<1> SUFFICES ASSUME FlagsType, [ConfigNext]_configVars PROVE FlagsType'
  OBVIOUS
<1> USE DEF FlagsType, flags, mainVars, nodeVars, updateVars, promiseVars
<1>1. CASE LoadFile \/ Killed \/ Ask \/ Shutdown
  BY <1>1, Zenon DEF LoadFile, Killed, ProcessGone, Ask, Shutdown
<1>2. CASE StartUp \/ TruncateFile \/ WriteFile \/ OuterLoop \/ Connected
           \/ BeginRunning \/ EndRunning \/ JoinServer
  BY <1>2, Zenon DEF StartUp, TruncateFile, WriteFile, ProcessGone, OuterLoop,
     Connected, BeginRunning, EndRunning, JoinServer
<1>3. CASE UpdateDone \/ LoadLibraries
  BY <1>3, Zenon DEF UpdateDone, LoadLibraries, FailStart
<1>4. ASSUME NEW m \in Names,
             CollectModule(m) \/ Connect(m) \/ InitializeModule(m)
             \/ StartModule(m) \/ StopModule(m)
      PROVE  FlagsType'
  BY <1>4, Zenon DEF CollectModule, Connect, FailStart, InitializeModule,
     StartModule, StopModule
<1>5. CASE UpdateStep("main") \/ UpdateStep("server")
  BY <1>5, Zenon DEF UpdateStep
<1>6. CASE Read \/ Put \/ Add \/ Remove \/ Update \/ PutRunning
  BY <1>6, Zenon DEF Read, Put, Add, Remove, Update, PutRunning
<1>7. CASE UNCHANGED configVars
  BY <1>7, Zenon DEF configVars
<1> QED BY <1>1, <1>2, <1>3, <1>4, <1>5, <1>6, <1>7 DEF ConfigNext, Main, Server

LEMMA MainStep ==
  ConfigTypeOK /\ RequestInv /\ [ConfigNext]_configVars => MainType'
<1> SUFFICES ASSUME ConfigTypeOK, RequestInv, [ConfigNext]_configVars PROVE MainType'
  OBVIOUS
<1> USE DEF MainType, flags, mainVars, nodeVars, updateVars, promiseVars
<1>1. MainType /\ Nodes \subseteq Names /\ MaxRequests \in Nat /\ MaxRuns \in Nat
  BY ConfigTreeAssumption, TypeParts DEF ConfigTypeOK, IsFile, Nodes
<1>2. \A kind \in Requests \ {"none"} :
        request.kind = kind => request.name \in Names
  BY DEF RequestInv, NoRequest
<1>3. CASE LoadFile
  BY <1>1, <1>3 DEF LoadFile
<1>4. CASE Killed \/ WriteFile
  BY <1>1, <1>4 DEF Killed, WriteFile, ProcessGone
<1>5. CASE Ask \/ Shutdown
  BY <1>1, <1>5 DEF Ask, Shutdown
<1>6. CASE StartUp \/ TruncateFile \/ OuterLoop \/ JoinServer
  BY <1>1, <1>6 DEF StartUp, TruncateFile, OuterLoop, JoinServer
<1>7. CASE Connected \/ BeginRunning \/ EndRunning
  BY <1>1, <1>7 DEF Connected, BeginRunning, EndRunning
<1>8. CASE UpdateDone \/ LoadLibraries
  BY <1>1, <1>8 DEF UpdateDone, LoadLibraries, FailStart
<1>9. ASSUME NEW m \in Names,
             CollectModule(m) \/ Connect(m) \/ InitializeModule(m)
      PROVE  MainType'
  BY <1>1, <1>9 DEF CollectModule, Connect, FailStart, InitializeModule
<1>10. ASSUME NEW m \in Names, StartModule(m) \/ StopModule(m) PROVE MainType'
  BY <1>1, <1>10 DEF StartModule, StopModule
<1>11. CASE UpdateStep("main") \/ UpdateStep("server")
  BY <1>1, <1>11 DEF UpdateStep
<1>12. CASE Read
  <2>1. request.name \in Names
    BY <1>2, <1>12 DEF Read, Get, GetAttributes, Handles, RequestInv, NoRequest
  <2> QED BY <1>1, <1>12, <2>1 DEF Read, Get, GetAttributes
<1>13. CASE Put \/ Update \/ PutRunning
  BY <1>1, <1>13 DEF Put, Update, PutRunning
<1>14. CASE Add
  BY <1>1, <1>14 DEF Add, AddCheck, AddId, AddLibrary, AddInput, AddConfig
<1>15. CASE Remove
  BY <1>1, <1>15 DEF Remove
<1>16. CASE UNCHANGED configVars
  BY <1>1, <1>16 DEF configVars
<1> QED BY <1>3, <1>4, <1>5, <1>6, <1>7, <1>8, <1>9, <1>10, <1>11, <1>12, <1>13,
        <1>14, <1>15, <1>16 DEF ConfigNext, Main, Server

LEMMA UpdateTypeStep == ConfigTypeOK /\ [ConfigNext]_configVars => UpdateType'
<1> SUFFICES ASSUME ConfigTypeOK, [ConfigNext]_configVars PROVE UpdateType'
  OBVIOUS
<1> USE DEF UpdateType, flags, mainVars, nodeVars, updateVars, promiseVars, Threads
<1>1. UpdateType
  BY TypeParts
<1>2. CASE LoadFile \/ Ask \/ Shutdown
  BY <1>1, <1>2 DEF LoadFile, Ask, Shutdown
<1>3. CASE Killed \/ WriteFile
  BY <1>1, <1>3 DEF Killed, WriteFile, ProcessGone
<1>4. CASE StartUp \/ TruncateFile \/ OuterLoop \/ JoinServer
  BY <1>1, <1>4 DEF StartUp, TruncateFile, OuterLoop, JoinServer, SetStep
<1>5. CASE Connected \/ BeginRunning \/ EndRunning
  BY <1>1, <1>5 DEF Connected, BeginRunning, EndRunning
<1>6. CASE UpdateDone \/ LoadLibraries
  BY <1>1, <1>6 DEF UpdateDone, LoadLibraries, SetStep
<1>7. ASSUME NEW m \in Names,
             CollectModule(m) \/ Connect(m) \/ InitializeModule(m)
             \/ StartModule(m) \/ StopModule(m)
      PROVE  UpdateType'
  BY <1>1, <1>7 DEF CollectModule, Connect, InitializeModule, StartModule, StopModule
<1>8. ASSUME NEW t \in Threads, UpdateStep(t) PROVE UpdateType'
  <2>1. modulesLock' = modulesLock
    BY <1>8 DEF UpdateStep
  <2>2. CASE UpdateLock(t) \/ UpdateClear(t)
    BY <1>1, <2>1, <2>2 DEF UpdateLock, UpdateClear, SetStep
  <2>3. CASE UpdateSearch(t)
    BY <1>1, <2>1, <2>3 DEF UpdateSearch, SetStep, HolderAfter
  <2>4. CASE UpdateList(t)
    BY <1>1, <2>1, <2>4 DEF UpdateList, SetStep
  <2>5. CASE UpdateDescribe(t)
    BY <1>1, <2>1, <2>5 DEF UpdateDescribe, SetStep, HolderAfter
  <2> QED BY <1>8, <2>2, <2>3, <2>4, <2>5 DEF UpdateStep
<1>9. CASE Read \/ Put \/ Add \/ Remove \/ PutRunning
  BY <1>1, <1>9 DEF Read, Put, Add, Remove, PutRunning
<1>10. CASE Update
  BY <1>1, <1>10 DEF Update, SetStep
<1>11. CASE UNCHANGED configVars
  BY <1>1, <1>11 DEF configVars
<1> QED BY <1>2, <1>3, <1>4, <1>5, <1>6, <1>7, <1>8, <1>9, <1>10, <1>11
        DEF ConfigNext, Main, Server

-----------------------------------------------------------------------------
(* Requests, and the modules that are handled.                             *)

\* The name and the value of a request under way.
LEMMA RequestType ==
  ASSUME RequestInv, NEW kind \in RequestKinds, NEW step, Handles(kind, step)
  PROVE  /\ request \in [kind : Requests, name : Names, value : Int,
                         at : RequestSteps]
         /\ request.kind = kind /\ request.at = step
         /\ kind = "add" => request.value \in Libraries
         /\ kind = "put" => request.value \in Loose
         /\ kind = "add" /\ step \in {"library", "type", "config"}
            => request.name \in Nodes
         /\ kind = "add" /\ step = "id" => request.name \notin Nodes
  BY DEF RequestInv, Handles, NoRequest, RequestKinds

\* A request that goes on keeps its kind, name and value.
LEMMA RequestGoesOn ==
  ASSUME RequestInv, request # NoRequest, NEW step \in RequestSteps, GoOn(step)
  PROVE  /\ request' \in [kind : Requests, name : Names, value : Int,
                          at : RequestSteps]
         /\ request'.kind = request.kind /\ request'.name = request.name
         /\ request'.value = request.value /\ request'.at = step
  BY DEF RequestInv, GoOn

LEMMA RequestStep ==
  ConfigTypeOK /\ RequestInv /\ OffInv /\ [ConfigNext]_configVars => RequestInv'
<1> SUFFICES ASSUME ConfigTypeOK, RequestInv, OffInv, [ConfigNext]_configVars
             PROVE  RequestInv'
  OBVIOUS
<1> USE DEF flags, mainVars, nodeVars, updateVars, promiseVars
<1>1. ASSUME request' = NoRequest PROVE RequestInv'
  BY <1>1 DEF RequestInv, NoRequest
<1>2. ASSUME request' = request, Nodes' = Nodes PROVE RequestInv'
  BY <1>2 DEF RequestInv
<1>3. ASSUME request # NoRequest, NEW step \in RequestSteps, GoOn(step),
             request.kind = "add" /\ step \in {"library", "type", "config"}
             => request.name \in Nodes',
             request.kind = "add" /\ step = "id" => request.name \notin Nodes'
      PROVE  RequestInv'
  <2>1. /\ request' \in [kind : Requests, name : Names, value : Int,
                         at : RequestSteps]
        /\ request'.kind = request.kind /\ request'.name = request.name
        /\ request'.value = request.value /\ request'.at = step
    BY <1>3, RequestGoesOn
  <2> QED BY <1>3, <2>1 DEF RequestInv
<1>4. CASE LoadFile \/ Killed \/ WriteFile
  <2>1. CASE LoadFile
    <3>1. request' = NoRequest
      BY <2>1 DEF LoadFile, OffInv
    <3> QED BY <1>1, <3>1
  <2>2. CASE Killed \/ WriteFile
    BY <1>1, <2>2 DEF Killed, WriteFile, ProcessGone
  <2> QED BY <1>4, <2>1, <2>2
<1>5. CASE Ask
  <2>1. PICK kind \in Requests, m \in Names :
          \E v \in IF kind = "put" THEN Loose
                   ELSE IF kind = "add" THEN Libraries ELSE {0} :
            request' = [kind |-> kind, name |-> m, value |-> v, at |-> "check"]
    BY <1>5 DEF Ask
  <2>2. PICK v \in IF kind = "put" THEN Loose
                   ELSE IF kind = "add" THEN Libraries ELSE {0} :
          request' = [kind |-> kind, name |-> m, value |-> v, at |-> "check"]
    BY <2>1
  <2>3. v \in Int /\ (kind = "put" => v \in Loose) /\ (kind = "add" => v \in Libraries)
    BY ConfigTreeAssumption, <2>2 DEF Loose, InRange
  <2> QED BY <2>2, <2>3 DEF RequestInv, RequestSteps
<1>6. CASE Shutdown \/ StartUp \/ TruncateFile \/ OuterLoop \/ JoinServer
           \/ Connected \/ BeginRunning \/ EndRunning \/ UpdateDone \/ LoadLibraries
  BY <1>2, <1>6 DEF Shutdown, StartUp, TruncateFile, OuterLoop, JoinServer,
     Connected, BeginRunning, EndRunning, UpdateDone, LoadLibraries, Nodes
<1>7. ASSUME NEW m \in Names,
             CollectModule(m) \/ Connect(m) \/ InitializeModule(m)
             \/ StartModule(m) \/ StopModule(m)
      PROVE  RequestInv'
  <2>1. request' = request /\ Nodes' = Nodes
    BY <1>7 DEF CollectModule, Connect, InitializeModule, StartModule,
       StopModule, CreateSetting, Nodes
  <2> QED BY <1>2, <2>1
<1>8. CASE UpdateStep("main") \/ UpdateStep("server")
  BY <1>2, <1>8 DEF UpdateStep, Nodes
<1>9. CASE Read
  BY <1>1, <1>3, <1>9 DEF Read, Get, GetAttributes, Answer, Handles,
     NoRequest, RequestSteps
<1>10. CASE Put \/ Remove \/ PutRunning
  BY <1>1, <1>10 DEF Put, Remove, PutRunning, Answer
<1>11. CASE Update
  BY <1>1, <1>3, <1>11 DEF Update, Answer, Handles, NoRequest, RequestSteps
<1>12. CASE Add
  <2>1. Nodes \subseteq Nodes'
    BY <1>12 DEF Add, AddCheck, AddId, AddLibrary, AddInput, AddConfig,
       CreateSetting, Nodes
  <2>2. CASE AddCheck
    BY <1>1, <1>3, <2>2 DEF AddCheck, Answer, Handles, NoRequest, RequestSteps, Nodes
  <2>3. CASE AddId
    <3>1. request.name \in Nodes'
      BY <2>3 DEF AddId, Nodes
    <3> QED BY <1>3, <2>3, <3>1 DEF AddId, Handles, NoRequest, RequestSteps
  <2>4. CASE AddLibrary \/ AddInput
    <3>1. request.name \in Nodes
      BY <2>4, RequestType DEF AddLibrary, AddInput, RequestKinds
    <3> QED BY <1>1, <1>3, <2>1, <2>4, <3>1
            DEF AddLibrary, AddInput, Answer, Handles, NoRequest, RequestSteps
  <2>5. CASE AddConfig
    BY <1>1, <2>5 DEF AddConfig, Answer
  <2> QED BY <1>12, <2>2, <2>3, <2>4, <2>5 DEF Add
<1>13. CASE UNCHANGED configVars
  BY <1>2, <1>13 DEF configVars, Nodes
<1> QED BY <1>4, <1>5, <1>6, <1>7, <1>8, <1>9, <1>10, <1>11, <1>12, <1>13
        DEF ConfigNext, Main, Server

LEMMA HandledStep ==
  ConfigTypeOK /\ RequestInv /\ HandledInv /\ OffInv /\ [ConfigNext]_configVars
  => HandledInv'
<1> SUFFICES ASSUME ConfigTypeOK, RequestInv, HandledInv, OffInv,
                    [ConfigNext]_configVars,
                    mainPc' # "undefined"
             PROVE  modules' \cup left' \subseteq Nodes'
  BY DEF HandledInv
<1> USE DEF HandledInv, flags, mainVars, nodeVars, updateVars, promiseVars
<1>1. CASE LoadFile
  BY <1>1 DEF LoadFile, OffInv
<1>2. CASE Killed \/ WriteFile
  BY <1>2 DEF Killed, WriteFile, ProcessGone
<1>3. CASE Ask \/ Shutdown \/ StartUp \/ TruncateFile \/ OuterLoop \/ JoinServer
  BY <1>3 DEF Ask, Shutdown, Serving, StartUp, TruncateFile, OuterLoop,
     JoinServer, Nodes
<1>4. CASE Connected \/ BeginRunning \/ EndRunning \/ UpdateDone \/ LoadLibraries
  BY <1>4 DEF Connected, BeginRunning, EndRunning, UpdateDone, LoadLibraries,
     FailStart, Nodes
<1>5. ASSUME NEW m \in Names,
             CollectModule(m) \/ Connect(m) \/ InitializeModule(m)
             \/ StartModule(m) \/ StopModule(m)
      PROVE  modules' \cup left' \subseteq Nodes'
  BY <1>5 DEF CollectModule, Connect, FailStart, InitializeModule, StartModule,
     StopModule, CreateSetting, Nodes
<1>6. CASE UpdateStep("main") \/ UpdateStep("server")
  BY <1>6 DEF UpdateStep, Nodes
<1>7. CASE Read \/ Update \/ PutRunning
  BY <1>7 DEF Read, Get, GetAttributes, Update, PutRunning, Handles, Serving, Nodes
<1>8. CASE Put
  BY <1>8 DEF Put, Handles, Serving, Nodes
<1>9. CASE Add
  BY <1>9 DEF Add, AddCheck, AddId, AddLibrary, AddInput, AddConfig,
     CreateSetting, Handles, Serving, Nodes
<1>10. CASE Remove
  BY <1>10 DEF Remove, Handles, Serving, Nodes
<1>11. CASE UNCHANGED configVars
  BY <1>11 DEF configVars, Nodes
<1> QED BY <1>1, <1>2, <1>3, <1>4, <1>5, <1>6, <1>7, <1>8, <1>9, <1>10, <1>11
        DEF ConfigNext, Main, Server

LEMMA OffStep == OffInv /\ [ConfigNext]_configVars => OffInv'
<1> SUFFICES ASSUME OffInv, [ConfigNext]_configVars, mainPc' = "off"
             PROVE  modules' = {} /\ left' = {} /\ request' = NoRequest
  BY DEF OffInv
<1> USE DEF OffInv, flags, mainVars, nodeVars, updateVars, promiseVars
<1>1. CASE Killed \/ WriteFile
  BY <1>1 DEF Killed, WriteFile, ProcessGone
<1>2. CASE LoadFile \/ Ask \/ Shutdown \/ StartUp \/ TruncateFile
  BY <1>2 DEF LoadFile, Ask, Shutdown, Serving, StartUp, TruncateFile
<1>3. CASE OuterLoop \/ JoinServer \/ Connected \/ BeginRunning \/ EndRunning
           \/ UpdateDone \/ LoadLibraries
  BY <1>3 DEF OuterLoop, JoinServer, Connected, BeginRunning, EndRunning,
     UpdateDone, LoadLibraries, FailStart
<1>4. CASE \E m \in Names : CollectModule(m) \/ Connect(m) \/ InitializeModule(m)
                            \/ StartModule(m) \/ StopModule(m)
  BY <1>4 DEF CollectModule, Connect, FailStart, InitializeModule, StartModule,
     StopModule
<1>5. CASE UpdateStep("main") \/ UpdateStep("server")
  BY <1>5 DEF UpdateStep
<1>6. CASE Read \/ Update \/ PutRunning \/ Put \/ Remove
  BY <1>6 DEF Read, Get, GetAttributes, Update, PutRunning, Put, Remove,
     Handles, Serving
<1>7. CASE Add
  BY <1>7 DEF Add, AddCheck, AddId, AddLibrary, AddInput, AddConfig, Handles, Serving
<1>8. CASE UNCHANGED configVars
  BY <1>8 DEF configVars
<1> QED BY <1>1, <1>2, <1>3, <1>4, <1>5, <1>6, <1>7, <1>8 DEF ConfigNext, Main, Server

-----------------------------------------------------------------------------
(* What a step does to the tree.                                           *)

\* A module that is known already gets attributes exported.
ExportOnly ==
  /\ \E m \in Nodes, keys \in SUBSET Keys : exported' = Export(m, keys)
  /\ UNCHANGED <<attributes, configured, last>>

\* A client puts a setting of a node that has it.
PutInTree ==
  \E m \in Nodes, v \in Loose :
    /\ attributes[m]["setting"] # None
    /\ attributes' = [attributes EXCEPT ![m]["setting"] = v]
    /\ last' = [last EXCEPT ![m] = v]
    /\ UNCHANGED <<exported, configured>>

\* ADD_MODULE sets the library or the input of its node.
SetAttribute ==
  \E m \in Nodes, key \in {"moduleLibrary", "moduleInput"} :
    /\ \E values : /\ IsNode(attributes[m]) => IsNode(values)
                   /\ values["setting"] = attributes[m]["setting"]
                   /\ attributes' = [attributes EXCEPT ![m] = values]
    /\ exported' = Export(m, {key})
    /\ UNCHANGED <<configured, last>>

RemoveNode ==
  \E m \in Names :
    /\ attributes' = [n \in Nodes \ {m} |-> attributes[n]]
    /\ exported' = [n \in Nodes \ {m} |-> exported[n]]
    /\ last' = [last EXCEPT ![m] = None]
    /\ configured' = configured \ {m}

TreeUnchanged == UNCHANGED <<attributes, exported, configured, last>>

LEMMA TreeSteps ==
  ASSUME ConfigTypeOK, RequestInv, HandledInv, [ConfigNext]_configVars
  PROVE  \/ TreeUnchanged \/ ExportOnly \/ PutInTree \/ SetAttribute \/ RemoveNode
         \/ \E m \in Nodes : CreateSetting(m)
         \/ (AddId /\ request.name \in Names \ Nodes)
         \/ LoadFile \/ Killed \/ WriteFile
<1> USE DEF flags, mainVars, nodeVars, updateVars, promiseVars
<1>1. CASE Ask \/ Shutdown \/ StartUp \/ TruncateFile \/ OuterLoop \/ JoinServer
           \/ Connected \/ BeginRunning \/ EndRunning \/ UpdateDone \/ LoadLibraries
  BY <1>1, Zenon DEF TreeUnchanged, Ask, Shutdown, StartUp, TruncateFile, OuterLoop,
     JoinServer, Connected, BeginRunning, EndRunning, UpdateDone, LoadLibraries
<1>2. CASE UpdateStep("main") \/ UpdateStep("server")
  BY <1>2, Zenon DEF TreeUnchanged, UpdateStep
<1>3. ASSUME NEW m \in Names, CollectModule(m) PROVE TreeUnchanged \/ ExportOnly
  <2>1. {"moduleId", "moduleLibrary"} \in SUBSET Keys
    BY DEF Keys
  <2> QED BY <1>3, <2>1 DEF CollectModule, Has, TreeUnchanged, ExportOnly
<1>4. ASSUME NEW m \in Names, Connect(m) PROVE ExportOnly
  <2>1. {"moduleInput"} \in SUBSET Keys /\ m \in Nodes
    BY <1>4 DEF Keys, Connect, HandledInv
  <2> QED BY <1>4, <2>1 DEF Connect, ExportOnly
<1>5. ASSUME NEW m \in Names, InitializeModule(m) \/ StartModule(m)
      PROVE  TreeUnchanged \/ (CreateSetting(m) /\ m \in Nodes)
  BY <1>5 DEF InitializeModule, StartModule, HandledInv, TreeUnchanged
<1>6. ASSUME NEW m \in Names, StopModule(m) PROVE TreeUnchanged
  BY <1>6, Zenon DEF StopModule, TreeUnchanged
<1>7. CASE Read \/ Update \/ PutRunning
  BY <1>7, Zenon DEF Read, Update, PutRunning, TreeUnchanged
<1>8. CASE Put
  <2>1. request.value \in Loose
    BY <1>8, RequestType DEF Put, RequestKinds
  <2> QED BY <1>8, <2>1 DEF Put, Has, TreeUnchanged, PutInTree
<1>9. CASE Add
  <2>1. CASE AddCheck
    BY <2>1 DEF AddCheck, TreeUnchanged
  <2>2. CASE AddId
    BY <2>2, RequestType DEF AddId, RequestKinds
  <2>3. CASE AddLibrary
    <3> DEFINE m == request.name
               values == [attributes[m] EXCEPT !["moduleLibrary"] = request.value]
    <3>1. m \in Nodes /\ request.value \in Libraries
      BY <2>3, RequestType DEF AddLibrary, RequestKinds
    <3>2. IsNode(attributes[m])
      BY <3>1, FileNodes DEF ConfigTypeOK, Nodes
    <3>3. IsNode(values) /\ values["setting"] = attributes[m]["setting"]
      BY <3>1, <3>2 DEF IsNode, Keys
    <3>4. attributes' = [attributes EXCEPT ![m] = values]
      BY <2>3 DEF AddLibrary
    <3> HIDE DEF values
    <3>5. SetAttribute
      BY <2>3, <3>1, <3>3, <3>4 DEF AddLibrary, SetAttribute
    <3> QED BY <3>5
  <2>4. CASE AddInput
    <3> DEFINE m == request.name
               values == Create(attributes[m], "moduleInput", 0, {0})
    <3>1. m \in Nodes
      BY <2>4, RequestType DEF AddInput, RequestKinds
    <3>2. IsNode(attributes[m])
      BY <3>1, FileNodes DEF ConfigTypeOK, Nodes
    <3>3. IsNode(values) /\ values["setting"] = attributes[m]["setting"]
      BY <3>2 DEF IsNode, Keys, Create
    <3>4. \/ attributes' = [attributes EXCEPT ![m] = values]
             /\ exported' = Export(m, {"moduleInput"})
          \/ UNCHANGED <<attributes, exported>>
      BY <2>4 DEF AddInput
    <3> HIDE DEF values
    <3>5. SetAttribute \/ TreeUnchanged
      BY <2>4, <3>1, <3>3, <3>4 DEF AddInput, SetAttribute, TreeUnchanged
    <3> QED BY <3>5
  <2>5. CASE AddConfig
    BY <2>5, RequestType DEF AddConfig, RequestKinds, TreeUnchanged
  <2> QED BY <1>9, <2>1, <2>2, <2>3, <2>4, <2>5 DEF Add
<1>10. CASE Remove
  <2>1. request.name \in Names
    BY <1>10, RequestType DEF Remove, RequestKinds
  <2> QED BY <1>10, <2>1 DEF Remove, RemoveNode, TreeUnchanged
<1>11. CASE UNCHANGED configVars
  BY <1>11 DEF configVars, TreeUnchanged
<1> QED BY <1>1, <1>2, <1>3, <1>4, <1>5, <1>6, <1>7, <1>8, <1>9, <1>10, <1>11
        DEF ConfigNext, Main, Server

\* A node whose setting is created.
LEMMA SettingIsCreated ==
  ASSUME ValuesType, HistoryType, NEW m \in Nodes, CreateSetting(m)
  PROVE  /\ Nodes' = Nodes /\ IsNode(attributes'[m])
         /\ \A n \in Nodes \ {m} : attributes'[n] = attributes[n]
         /\ attributes'[m]["setting"] = IF attributes[m]["setting"] \in InRange
                                        THEN attributes[m]["setting"] ELSE Default
         /\ exported' = Export(m, {"setting"})
         /\ configured' = configured \cup {m}
         /\ last' = [last EXCEPT ![m] = IF @ \in InRange THEN @ ELSE Default]
<1>1. IsNode(attributes[m])
  BY FileNodes DEF ValuesType, Nodes
<1>2. IsNode(Create(attributes[m], "setting", Default, InRange))
  BY <1>1 DEF IsNode, Create, Keys, InRange, Loose, Default
<1>3. Create(attributes[m], "setting", Default, InRange)["setting"]
      = IF attributes[m]["setting"] \in InRange THEN attributes[m]["setting"] ELSE Default
  BY <1>1 DEF IsNode, Create, Keys
<1>4. attributes' = [attributes EXCEPT
         ![m] = Create(attributes[m], "setting", Default, InRange)]
  BY DEF CreateSetting
<1> QED BY <1>2, <1>3, <1>4 DEF CreateSetting, Nodes

\* The node that ADD_MODULE makes.
LEMMA NodeIsAdded ==
  ASSUME ValuesType, AddId, request.name \in Names, NEW m, m = request.name
  PROVE  /\ Nodes' = Nodes \cup {m} /\ IsNode(attributes'[m])
         /\ \A n \in Nodes \ {m} : /\ attributes'[n] = attributes[n]
                                   /\ exported'[n] = exported[n]
         /\ attributes'[m]["setting"] = None
         /\ DOMAIN exported' = Nodes' /\ exported'[m] = {"moduleId"}
         /\ configured' = configured
         /\ last' = [last EXCEPT ![m] = None]
<1>1. NextFreeId \in 1 .. Cardinality(Names) + 1
  BY FreeIdExists DEF ValuesType
<1> DEFINE values == [k \in Keys |-> IF k = "moduleId" THEN NextFreeId ELSE None]
<1>2. IsNode(values) /\ values["setting"] = None
  BY <1>1 DEF IsNode, Keys
<1>3. attributes' = [n \in Nodes \cup {m} |-> IF n # m THEN attributes[n] ELSE values]
  BY DEF AddId
<1> HIDE DEF values
<1>4. /\ Nodes' = Nodes \cup {m} /\ attributes'[m] = values
      /\ \A n \in Nodes \ {m} : attributes'[n] = attributes[n]
  BY <1>3 DEF Nodes
<1>5. /\ DOMAIN exported' = Nodes \cup {m} /\ exported'[m] = {"moduleId"}
      /\ \A n \in Nodes \ {m} : exported'[n] = exported[n]
  BY DEF AddId
<1> QED BY <1>2, <1>4, <1>5 DEF AddId

LEMMA ValuesStep ==
  ASSUME ConfigTypeOK, RequestInv, HandledInv, [ConfigNext]_configVars
  PROVE  ValuesType'
<1>1. ValuesType /\ HistoryType /\ Nodes \subseteq Names
  BY TypeParts, FileNodes DEF ValuesType, Nodes
<1>2. \A m \in Nodes : IsNode(attributes[m])
  BY <1>1, FileNodes DEF ValuesType, Nodes
<1>3. SUFFICES /\ Nodes' \subseteq Names /\ \A m \in Nodes' : IsNode(attributes'[m])
               /\ DOMAIN exported' = Nodes'
               /\ \A m \in Nodes' : exported'[m] \subseteq Keys
               /\ configured' \subseteq Names
  BY FileNodes DEF ValuesType, Nodes, IsFile, IsNode
<1>4. CASE TreeUnchanged
  BY <1>1, <1>2, <1>4 DEF TreeUnchanged, ValuesType, Nodes
<1>5. CASE ExportOnly
  BY <1>1, <1>2, <1>5 DEF ExportOnly, Export, ValuesType, Nodes
<1>6. CASE PutInTree
  <2>1. PICK m \in Nodes, v \in Loose :
          /\ attributes' = [attributes EXCEPT ![m]["setting"] = v]
          /\ UNCHANGED <<exported, configured>>
    BY <1>6 DEF PutInTree
  <2>2. IsNode([attributes[m] EXCEPT !["setting"] = v])
    BY <1>2 DEF IsNode, Keys
  <2> QED BY <1>1, <1>2, <2>1, <2>2 DEF ValuesType, Nodes
<1>7. CASE SetAttribute
  <2>1. PICK m \in Nodes, key \in {"moduleLibrary", "moduleInput"} :
          /\ \E values : /\ IsNode(attributes[m]) => IsNode(values)
                         /\ values["setting"] = attributes[m]["setting"]
                         /\ attributes' = [attributes EXCEPT ![m] = values]
          /\ exported' = Export(m, {key})
          /\ UNCHANGED <<configured, last>>
    BY <1>7 DEF SetAttribute
  <2>2. PICK values : /\ IsNode(attributes[m]) => IsNode(values)
                      /\ attributes' = [attributes EXCEPT ![m] = values]
    BY <2>1
  <2>3. key \in Keys
    BY DEF Keys
  <2> QED BY <1>1, <1>2, <2>1, <2>2, <2>3 DEF ValuesType, Nodes, Export
<1>8. CASE RemoveNode
  BY <1>1, <1>2, <1>8 DEF RemoveNode, ValuesType, Nodes
<1>9. CASE \E m \in Nodes : CreateSetting(m)
  <2>1. PICK m \in Nodes : CreateSetting(m)
    BY <1>9
  <2>2. "setting" \in Keys
    BY DEF Keys
  <2> QED BY <1>1, <1>2, <2>1, <2>2, SettingIsCreated DEF ValuesType, Export
<1>10. CASE AddId /\ request.name \in Names \ Nodes
  <2>1. "moduleId" \in Keys
    BY DEF Keys
  <2> QED BY <1>1, <1>2, <1>10, <2>1, NodeIsAdded DEF ValuesType
<1>11. CASE LoadFile
  BY <1>1, <1>11, FileNodes DEF LoadFile, HistoryType, Nodes
<1>12. CASE Killed \/ WriteFile
  BY <1>12 DEF Killed, WriteFile, ProcessGone, Nodes
<1> QED BY <1>4, <1>5, <1>6, <1>7, <1>8, <1>9, <1>10, <1>11, <1>12, TreeSteps

\* Who writes the file.
LEMMA FileSteps ==
  ASSUME ConfigTypeOK, [ConfigNext]_configVars
  PROVE  \/ LoadFile \/ TruncateFile \/ Killed \/ WriteFile
         \/ /\ file' = file /\ promised' = promised
            /\ mainPc # "truncated" \/ mainPc' = "truncated"
            /\ mainPc' = "log" => mainPc = "log" /\ attributes' = attributes
<1> USE DEF flags, mainVars, nodeVars, updateVars, promiseVars
<1>1. CASE Ask \/ Shutdown \/ StartUp \/ OuterLoop \/ JoinServer
  BY <1>1 DEF Ask, Shutdown, Serving, StartUp, OuterLoop, JoinServer
<1>2. CASE Connected \/ BeginRunning \/ EndRunning \/ UpdateDone \/ LoadLibraries
  BY <1>2 DEF Connected, BeginRunning, EndRunning, UpdateDone, LoadLibraries,
     FailStart
<1>3. CASE UpdateStep("main") \/ UpdateStep("server")
  BY <1>3 DEF UpdateStep
<1>4. CASE \E m \in Names : CollectModule(m) \/ Connect(m) \/ InitializeModule(m)
                            \/ StartModule(m) \/ StopModule(m)
  BY <1>4 DEF CollectModule, Connect, FailStart, InitializeModule, StartModule,
     StopModule
<1>5. CASE Read \/ Update \/ PutRunning \/ Put \/ Remove
  BY <1>5 DEF Read, Get, GetAttributes, Update, PutRunning, Put, Remove,
     Handles, Serving
<1>6. CASE Add
  BY <1>6 DEF Add, AddCheck, AddId, AddLibrary, AddInput, AddConfig, Handles, Serving
<1>7. CASE UNCHANGED configVars
  BY <1>7 DEF configVars
<1> QED BY <1>1, <1>2, <1>3, <1>4, <1>5, <1>6, <1>7 DEF ConfigNext, Main, Server

LEMMA HistoryStep ==
  ASSUME ConfigTypeOK, RequestInv, HandledInv, [ConfigNext]_configVars
  PROVE  HistoryType'
<1>1. ValuesType /\ HistoryType /\ Nodes \subseteq Names
  BY TypeParts, FileNodes DEF ValuesType, Nodes
<1>2. last' \in [Names -> {None} \cup Loose]
  <2>1. CASE TreeUnchanged \/ ExportOnly \/ SetAttribute
    BY <1>1, <2>1 DEF TreeUnchanged, ExportOnly, SetAttribute, HistoryType
  <2>2. CASE PutInTree \/ RemoveNode
    BY <1>1, <2>2 DEF PutInTree, RemoveNode, HistoryType
  <2>3. CASE \E m \in Nodes : CreateSetting(m)
    BY <1>1, <2>3 DEF CreateSetting, HistoryType, InRange, Loose, Default
  <2>4. CASE AddId
    BY <1>1, <2>4 DEF AddId, HistoryType
  <2>5. CASE LoadFile
    <3>1. \A m \in DOMAIN file : file[m]["setting"] \in {None} \cup Loose
      BY <1>1 DEF HistoryType, IsFile
    <3> QED BY <1>1, <2>5, <3>1 DEF LoadFile
  <2>6. CASE Killed \/ WriteFile
    BY <2>6 DEF Killed, WriteFile, ProcessGone, NoValues
  <2> QED BY <2>1, <2>2, <2>3, <2>4, <2>5, <2>6, TreeSteps
<1>3. IsFile(file') /\ promised' \in [Names -> {None} \cup Loose]
  <2>1. CASE LoadFile \/ (file' = file /\ promised' = promised)
    BY <1>1, <2>1 DEF LoadFile, HistoryType
  <2>2. CASE TruncateFile
    BY <1>1, <2>2 DEF TruncateFile, HistoryType, promiseVars, IsFile
  <2>3. CASE WriteFile
    <3>1. IsFile(file')
      BY <1>1, <2>3, ExportedFile DEF WriteFile, ValuesType
    <3>2. promised' \in [Names -> {None} \cup Loose]
      BY <1>1, <2>3 DEF WriteFile, HistoryType
    <3> QED BY <3>1, <3>2
  <2>4. CASE Killed
    BY <1>1, <2>4 DEF Killed, HistoryType, NoValues
  <2> QED BY <2>1, <2>2, <2>3, <2>4, FileSteps
<1> QED BY <1>2, <1>3 DEF HistoryType

\* What is in the tree is what was put last.
LEMMA LastStep ==
  ASSUME ConfigTypeOK, RequestInv, HandledInv, LastInv, [ConfigNext]_configVars
  PROVE  LastInv'
<1>1. ValuesType /\ HistoryType /\ Nodes \subseteq Names
  BY TypeParts, FileNodes DEF ValuesType, Nodes
<1>2. \A m \in Nodes : DOMAIN attributes[m] = Keys
  BY <1>1, FileNodes DEF ValuesType, Nodes, IsNode
<1>3. "setting" \in Keys
  BY DEF Keys
<1>4. CASE TreeUnchanged \/ ExportOnly
  BY <1>4 DEF TreeUnchanged, ExportOnly, LastInv, Nodes
<1>5. CASE PutInTree
  BY <1>1, <1>2, <1>3, <1>5 DEF PutInTree, LastInv, HistoryType, Nodes
<1>6. CASE SetAttribute
  <2>1. PICK m \in Nodes : \E values :
          /\ values["setting"] = attributes[m]["setting"]
          /\ attributes' = [attributes EXCEPT ![m] = values]
          /\ last' = last
    BY <1>6 DEF SetAttribute
  <2> QED BY <1>1, <2>1 DEF LastInv, Nodes
<1>7. CASE RemoveNode
  BY <1>1, <1>7 DEF RemoveNode, LastInv, HistoryType, Nodes
<1>8. ASSUME NEW m \in Nodes, CreateSetting(m) PROVE LastInv'
  <2>1. /\ Nodes' = Nodes
        /\ \A n \in Nodes \ {m} : attributes'[n] = attributes[n]
        /\ attributes'[m]["setting"] = IF attributes[m]["setting"] \in InRange
                                       THEN attributes[m]["setting"] ELSE Default
        /\ last' = [last EXCEPT ![m] = IF @ \in InRange THEN @ ELSE Default]
    BY <1>1, <1>8, SettingIsCreated
  <2> QED BY <1>1, <2>1 DEF LastInv, HistoryType
<1>9. CASE AddId /\ request.name \in Names \ Nodes
  <2> DEFINE m == request.name
  <2>1. /\ Nodes' = Nodes \cup {m}
        /\ \A n \in Nodes \ {m} : attributes'[n] = attributes[n]
        /\ attributes'[m]["setting"] = None
        /\ last' = [last EXCEPT ![m] = None]
    BY <1>1, <1>9, NodeIsAdded
  <2> QED BY <1>1, <1>9, <2>1 DEF LastInv, HistoryType
<1>10. CASE LoadFile
  BY <1>10 DEF LoadFile, LastInv, Nodes
<1>11. CASE Killed \/ WriteFile
  BY <1>11 DEF Killed, WriteFile, ProcessGone, NoValues, LastInv, Nodes
<1> QED BY <1>4, <1>5, <1>6, <1>7, <1>8, <1>9, <1>10, <1>11, TreeSteps

\* A setting that was created stays, with a value and exported, until its
\* module is removed.
LEMMA CreatedStep ==
  ASSUME ConfigTypeOK, RequestInv, HandledInv, CreatedInv, [ConfigNext]_configVars
  PROVE  CreatedInv'
<1>1. ValuesType /\ HistoryType /\ Nodes \subseteq Names
  BY TypeParts, FileNodes DEF ValuesType, Nodes
<1>2. \A m \in Nodes : DOMAIN attributes[m] = Keys
  BY <1>1, FileNodes DEF ValuesType, Nodes, IsNode
<1>3. "setting" \in Keys
  BY DEF Keys
<1>4. CASE TreeUnchanged
  BY <1>4 DEF TreeUnchanged, CreatedInv, Nodes
<1>5. CASE ExportOnly
  BY <1>1, <1>5 DEF ExportOnly, Export, CreatedInv, ValuesType, Nodes
<1>6. CASE PutInTree
  <2>1. None \notin Loose
    BY DEF None, Loose, InRange
  <2> QED BY <1>1, <1>2, <1>3, <1>6, <2>1 DEF PutInTree, CreatedInv, Nodes
<1>7. CASE SetAttribute
  <2>1. PICK m \in Nodes, key \in {"moduleLibrary", "moduleInput"} : \E values :
          /\ values["setting"] = attributes[m]["setting"]
          /\ attributes' = [attributes EXCEPT ![m] = values]
          /\ exported' = Export(m, {key}) /\ configured' = configured
    BY <1>7 DEF SetAttribute
  <2> QED BY <1>1, <2>1 DEF CreatedInv, ValuesType, Export, Nodes
<1>8. CASE RemoveNode
  BY <1>1, <1>8 DEF RemoveNode, CreatedInv, Nodes
<1>9. ASSUME NEW m \in Nodes, CreateSetting(m) PROVE CreatedInv'
  <2>1. /\ Nodes' = Nodes
        /\ \A n \in Nodes \ {m} : attributes'[n] = attributes[n]
        /\ attributes'[m]["setting"] = IF attributes[m]["setting"] \in InRange
                                       THEN attributes[m]["setting"] ELSE Default
        /\ exported' = Export(m, {"setting"})
        /\ configured' = configured \cup {m}
    BY <1>1, <1>9, SettingIsCreated
  <2>2. attributes'[m]["setting"] # None
    BY <2>1 DEF None, InRange, Default
  <2>3. "setting" \in exported'[m] /\ \A n \in Nodes \ {m} : exported'[n] = exported[n]
    BY <1>1, <2>1 DEF Export, ValuesType
  <2> QED BY <2>1, <2>2, <2>3 DEF CreatedInv
<1>10. CASE AddId /\ request.name \in Names \ Nodes
  <2> DEFINE m == request.name
  <2>1. /\ Nodes' = Nodes \cup {m} /\ configured' = configured
        /\ \A n \in Nodes \ {m} : /\ attributes'[n] = attributes[n]
                                  /\ exported'[n] = exported[n]
    BY <1>1, <1>10, NodeIsAdded
  <2> QED BY <1>10, <2>1 DEF CreatedInv
<1>11. CASE LoadFile \/ Killed \/ WriteFile
  BY <1>11 DEF LoadFile, Killed, WriteFile, ProcessGone, CreatedInv
<1> QED BY <1>4, <1>5, <1>6, <1>7, <1>8, <1>9, <1>10, <1>11, TreeSteps

\* A file is written at the end of a run only, and loaded at its start.
LEMMA FileStep ==
  ASSUME ConfigTypeOK, RequestInv, HandledInv, LastInv, CreatedInv, FileInv,
         [ConfigNext]_configVars
  PROVE  FileInv'
<1>1. ValuesType /\ HistoryType /\ Nodes \subseteq Names
  BY TypeParts, FileNodes DEF ValuesType, Nodes
<1>2. CASE LoadFile
  BY <1>2 DEF LoadFile, FileInv
<1>3. CASE TruncateFile
  BY <1>3 DEF TruncateFile, FileInv
<1>4. CASE Killed
  BY <1>4 DEF Killed, ProcessGone, NoValues, FileInv
<1>5. CASE WriteFile
  <2> SUFFICES ASSUME NEW m \in Names, promised'[m] # None
               PROVE  m \in DOMAIN Exported /\ Exported[m]["setting"] = promised'[m]
    BY <1>5 DEF WriteFile, ProcessGone, FileInv
  <2>1. m \in configured \cap Nodes /\ promised'[m] = last[m]
    BY <1>5 DEF WriteFile
  <2>2. /\ last[m] = attributes[m]["setting"] /\ attributes[m]["setting"] # None
        /\ "setting" \in exported[m]
    BY <2>1 DEF LastInv, CreatedInv
  <2> QED BY <1>1, <2>1, <2>2, ExportedFile DEF ValuesType
<1>6. CASE file' = file /\ promised' = promised /\ mainPc # "truncated"
           /\ (mainPc' = "log" => mainPc = "log" /\ attributes' = attributes)
  BY <1>6 DEF FileInv
<1>7. CASE file' = file /\ promised' = promised /\ mainPc' = "truncated"
  BY <1>7 DEF FileInv
<1> QED BY <1>2, <1>3, <1>4, <1>5, <1>6, <1>7, FileSteps

-----------------------------------------------------------------------------
(* The invariant holds.                                                    *)

LEMMA TreeInit == ConfigInit => TreeInv
<1> SUFFICES ASSUME ConfigInit PROVE TreeInv
  OBVIOUS
<1> USE DEF ConfigInit
<1>1. \A m \in Names : NoValues[m] = None
  BY DEF NoValues
<1>2. IsFile(attributes) /\ IsFile(file) /\ NoValues \in [Names -> {None} \cup Loose]
  BY ConfigTreeAssumption DEF IsFile, NoValues
<1>3. MaxRequests \in Nat /\ MaxRuns \in Nat
  BY ConfigTreeAssumption
<1>4. ConfigTypeOK
  <2>1. FlagsType
    BY Zenon DEF FlagsType
  <2>2. MainType /\ HistoryType
    BY <1>2, <1>3 DEF MainType, HistoryType
  <2>3. UpdateType
    BY DEF UpdateType, Threads
  <2>4. ValuesType
    BY <1>2 DEF ValuesType, Nodes
  <2>5. request.kind = "none"
    BY DEF NoRequest
  <2> HIDE DEF ConfigInit
  <2> QED BY <2>1, <2>2, <2>3, <2>4, <2>5, TypeParts
<1>5. RequestInv /\ HandledInv /\ OffInv
  BY DEF RequestInv, HandledInv, OffInv, NoRequest
<1>6. LastInv /\ CreatedInv /\ FileInv
  BY <1>1 DEF LastInv, CreatedInv, FileInv, Nodes
<1> QED BY <1>4, <1>5, <1>6 DEF TreeInv

LEMMA TreeStep == TreeInv /\ [ConfigNext]_configVars => TreeInv'
<1> SUFFICES ASSUME TreeInv, [ConfigNext]_configVars PROVE TreeInv'
  OBVIOUS
<1>1. RequestInv'
  BY RequestStep DEF TreeInv
<1>2. ConfigTypeOK'
  <2>1. request'.kind \in {"none"} \cup Requests
    BY <1>1 DEF RequestInv, NoRequest
  <2>2. FlagsType' /\ MainType' /\ UpdateType' /\ ValuesType' /\ HistoryType'
    BY TypeParts, FlagsStep, MainStep, UpdateTypeStep, ValuesStep, HistoryStep
       DEF TreeInv
  <2> QED BY <2>1, <2>2, Zenon
          DEF ConfigTypeOK, FlagsType, MainType, UpdateType, ValuesType, HistoryType
<1>3. HandledInv' /\ OffInv'
  BY HandledStep, OffStep DEF TreeInv
<1>4. LastInv' /\ CreatedInv' /\ FileInv'
  BY LastStep, CreatedStep, FileStep DEF TreeInv
<1> QED BY <1>1, <1>2, <1>3, <1>4 DEF TreeInv

\* What relates the tree, the file, the requests and the modules of the mainloop
\* holds in every reachable state (sshs_node.c, config.cpp, config_server.cpp).
THEOREM TreeInvariance == ConfigSpec => []TreeInv
  BY TreeInit, TreeStep, PTL DEF ConfigSpec

\* Every variable keeps its type, for any modules, libraries and files: there is
\* always a free module ID to give (config_server.cpp), and what is exported is a
\* file that can be loaded.
THEOREM TreeTypeCorrect == ConfigSpec => []ConfigTypeOK
<1>1. TreeInv => ConfigTypeOK
  BY DEF TreeInv
<1> QED BY <1>1, TreeInvariance, PTL

\* A setting that a module created is found by the next run as it was last put
\* (config.cpp:101), whatever clients and the mainloop did with the module in the
\* meantime, and however often the program was killed.
THEOREM SettingsAreKept == ConfigSpec => []SettingsSurvive
<1>1. TreeInv => SettingsSurvive
  BY DEF TreeInv, FileInv, SettingsSurvive, Nodes
<1> QED BY <1>1, TreeInvariance, PTL
=============================================================================
